--------------------------- MODULE PresenceProofs ---------------------------
(***************************************************************************)
(* Theorems about Presence, for every backoff and every number of packets  *)
(* under way.                                                              *)
(*                                                                         *)
(* A step of the node is a step of the MQTT service, and a power loss      *)
(* takes the service back to its boot, so what MqttServiceProofs shows     *)
(* holds here too.  The birth message is the last word on a connection     *)
(* because a node that is connected was accepted by the broker, and sends  *)
(* nothing but "online" until it leaves (Courtesy).  A renewed backoff     *)
(* keeps its value because a connected node has no retry on its way: the   *)
(* service task can at most end the doubling it had begun (RenewInv).      *)
(***************************************************************************)
EXTENDS Presence, MqttServiceProofs

Packets == {"online", "disconnect", "fin"}

BrokerTypes ==
    /\ accepted \in BOOLEAN /\ session \in {"open", "closed"}
    /\ uplink \in Seq(Packets)
    /\ status \in {"none", "online", "offline"}
    /\ resetRaced \in BOOLEAN

Courtesy ==
    /\ client = "connected" => accepted = TRUE
    /\ accepted = TRUE => uplink \in Seq({"online"})

BirthInv == (client = "connected" /\ birthFailed) => handler \in {"error", "aborting"}

RenewInv ==
    (Renewed /\ ~startRaced /\ ~resetRaced) =>
        /\ m_backoff_ms \in {InitialBackoff, NextBackoff(InitialBackoff)}
        /\ pc \in {"load", "store"} => m_backoff_ms = InitialBackoff
        /\ pc = "store" => loaded = InitialBackoff

PInv == /\ ServiceInv /\ BrokerTypes /\ Courtesy /\ BirthInv
        /\ BirthOutlivesWill /\ RenewInv

presenceVars == <<allVars, resetRaced>>

PresenceAction == PresenceNext /\ RecordsRace

----------------------------------------------------------------------------
\* A step is one of the MQTT service, or none of its business, or its boot.
LEMMA PresenceStep ==
  ASSUME [PresenceNext]_allVars
  PROVE  [Next]_vars \/ PowerLoss
<1>1. CASE Birth \/ BirthLost \/ RefreshStatus
  BY <1>1 DEF Birth, BirthLost, RefreshStatus, Next, EventHandler
<1>2. CASE CONNACK \/ CloseConnection \/ SayGoodbye
  BY <1>2 DEF CONNACK, CloseConnection, SayGoodbye, Next, Client
<1>3. CASE NodeSteps /\ UNCHANGED brokerVars
  BY <1>1, <1>2, <1>3 DEF NodeSteps, Next, Client, EventHandler
<1>4. CASE Broker
  BY <1>4 DEF Broker, BrokerAccepts, ReadUplink, KeepaliveExpires, UplinkLost
<1>5. CASE Waits \/ UNCHANGED allVars
  BY <1>5 DEF Next, allVars
<1> QED
  BY <1>1, <1>2, <1>3, <1>4, <1>5 DEF PresenceNext, NodeSteps

\* The invariant of the service outlives a power loss.
LEMMA ServiceRestarted == PowerLoss => ServiceInv'
<1>1. PowerLoss => Init'
  BY DEF PowerLoss, Init
<1> QED
  BY <1>1, ServiceAtBoot, PTL

\* What the node sends next arrives behind what it sent before.
LEMMA SentType ==
  ASSUME BrokerTypes, NEW p \in Packets
  PROVE  /\ Sent(p) \in Seq(Packets)
         /\ p = "online" /\ uplink \in Seq({"online"}) => Sent(p) \in Seq({"online"})
         /\ session = "open" => Sent(p) # << >>
BY DEF BrokerTypes, Sent, Packets

\* What the broker reads was sent.
LEMMA ReadType ==
  ASSUME BrokerTypes, ReadUplink
  PROVE  /\ uplink' \in Seq(Packets)
         /\ session' \in {"open", "closed"} /\ status' \in {"none", "online", "offline"}
         /\ uplink \in Seq({"online"}) =>
               /\ uplink' \in Seq({"online"})
               /\ session' = "open" /\ status' = "online"
<1>1. uplink # << >> /\ uplink \in Seq(Packets) /\ Head(uplink) \in Packets
  BY DEF ReadUplink, BrokerTypes
<1>2. CASE Head(uplink) = "online"
  <2>1. status' = "online" /\ uplink' = Tail(uplink) /\ session' = session
    BY <1>2 DEF ReadUplink
  <2>2. session = "open"
    BY DEF ReadUplink
  <2> QED
    BY <1>1, <2>1, <2>2
<1>3. CASE Head(uplink) \in {"disconnect", "fin"}
  <2>1. session' = "closed" /\ uplink' = << >> /\ status' \in {status, AfterWill}
    BY <1>3 DEF ReadUplink, Closes
  <2>2. uplink \notin Seq({"online"})
    BY <1>1, <1>3
  <2> QED
    BY <2>1, <2>2 DEF AfterWill, BrokerTypes
<1> QED
  BY <1>1, <1>2, <1>3 DEF Packets

\* The steps of the node that send nothing make no connection either, and do
\* not end onConnected.
QuietStep == \/ MainTask \/ WifiTask \/ ServiceTask
             \/ BeginReconnect \/ TransportError
             \/ StoreConnected \/ ResetBackoff \/ ConnectCallback \/ OnError
             \/ StoreDisconnected \/ DropCallback \/ NotifyDisconnect

\* Such a step leaves BirthOutlivesWill nothing new to answer for.
LEMMA QuietSteps ==
  ASSUME QuietStep, BirthInv
  PROVE  /\ client' = "connected" => client = "connected"
         /\ handler' \notin {"connected", "resetBackoff", "birth"}
               => handler \notin {"connected", "resetBackoff", "birth"}
         /\ client' = "connected" /\ birthFailed
               => birthFailed' /\ handler' \in {"error", "aborting"}
         /\ birthFailed' => birthFailed
<1> USE DEF clientVars, BirthInv
<1>1. CASE MainTask \/ WifiTask
  BY <1>1 DEF MainTask, CreateClient, CreateTask, WifiTask, Start, NotifyStart,
              SeesConnected, RequestDisconnect
<1>2. CASE ServiceTask
  BY <1>2 DEF ServiceTask, CheckStarted, AwaitStart, StartClient, Take, TakeMiscounted,
              DelayEnds, Reconnect, LoadBackoff, StoreBackoff
<1>3. CASE BeginReconnect \/ TransportError
  BY <1>3 DEF BeginReconnect, TransportError
<1>4. CASE StoreConnected \/ ResetBackoff \/ ConnectCallback \/ OnError
  BY <1>4 DEF StoreConnected, ResetBackoff, ConnectCallback, OnError
<1>5. CASE StoreDisconnected \/ DropCallback \/ NotifyDisconnect
  BY <1>5 DEF StoreDisconnected, DropCallback, NotifyDisconnect, HandlerReturns
<1> QED
  BY <1>1, <1>2, <1>3, <1>4, <1>5 DEF QuietStep

\* A step keeps the types of the broker, and the node's packets in order.
LEMMA CourtesyKept ==
  ASSUME PInv, [PresenceNext]_allVars
  PROVE  /\ accepted' \in BOOLEAN /\ session' \in {"open", "closed"}
         /\ uplink' \in Seq(Packets) /\ status' \in {"none", "online", "offline"}
         /\ Courtesy'
<1> USE DEF PInv, BrokerTypes, Courtesy
<1>1. CASE Birth \/ RefreshStatus
  <2>1. uplink' = Sent("online") /\ UNCHANGED <<accepted, session, status, client>>
    BY <1>1 DEF Birth, RefreshStatus, BirthSent, SubscribeFails, vars, clientVars
  <2> QED
    BY <2>1, SentType DEF Packets
<1>2. CASE CONNACK
  BY <1>2 DEF CONNACK, brokerVars
<1>3. CASE CloseConnection \/ SayGoodbye \/ (BirthLost /\ client' = "parked")
  <2>1. client' = "parked" /\ accepted' = FALSE /\ UNCHANGED <<session, status>>
    BY <1>3 DEF CloseConnection, SayGoodbye, BirthLost, Abort, HonourDisconnect, Leave
  <2>2. uplink' \in Seq(Packets)
    BY <1>3, SentType DEF CloseConnection, SayGoodbye, BirthLost, Leave, Packets
  <2> QED
    BY <2>1, <2>2
<1>4. CASE BirthLost /\ client' # "parked"
  BY <1>4 DEF BirthLost, BirthFails, brokerVars
<1>5. CASE QuietStep /\ UNCHANGED brokerVars
  BY <1>5, QuietSteps DEF brokerVars
<1>6. CASE BrokerAccepts
  <2>1. << >> \in Seq(Packets) /\ << >> \in Seq({"online"})
    OBVIOUS
  <2>2. status' \in {"none", "online", "offline"}
    BY <1>6 DEF BrokerAccepts, AfterWill
  <2> QED
    BY <1>6, <2>1, <2>2 DEF BrokerAccepts
<1>7. CASE ReadUplink
  BY <1>7, ReadType DEF ReadUplink, vars, clientVars
<1>8. CASE KeepaliveExpires
  BY <1>8 DEF KeepaliveExpires, Closes, AfterWill, vars, clientVars
<1>9. CASE UplinkLost
  BY <1>9 DEF UplinkLost, vars, clientVars
<1>10. CASE PowerLoss
  BY <1>10 DEF PowerLoss
<1>11. CASE (Waits /\ UNCHANGED brokerVars) \/ UNCHANGED allVars
  BY <1>11 DEF Waits, allVars, brokerVars, vars, clientVars
<1> QED
  BY <1>1, <1>2, <1>3, <1>4, <1>5, <1>6, <1>7, <1>8, <1>9, <1>10, <1>11
     DEF PresenceNext, NodeSteps, QuietStep, Broker

\* A step keeps the birth message the last word.
LEMMA BirthKept ==
  ASSUME PInv, [PresenceNext]_allVars
  PROVE  BirthInv' /\ BirthOutlivesWill'
<1> USE DEF PInv, BirthOutlivesWill, BirthInv
<1>1. CASE Birth \/ RefreshStatus
  <2>1. uplink' = Sent("online") /\ session' = session
    BY <1>1 DEF Birth, RefreshStatus
  <2>2. session = "open" => uplink' # << >>
    BY <2>1, SentType DEF Packets
  <2>3. BirthInv'
    BY <1>1 DEF Birth, RefreshStatus, BirthSent, SubscribeFails, vars, clientVars
  <2> QED
    BY <2>1, <2>2, <2>3
<1>2. CASE CONNACK
  BY <1>2 DEF CONNACK, ConnectSucceeds
<1>3. CASE CloseConnection \/ SayGoodbye \/ BirthLost
  BY <1>3 DEF CloseConnection, SayGoodbye, BirthLost, Abort, HonourDisconnect, BirthFails
<1>4. CASE QuietStep /\ UNCHANGED brokerVars
  BY <1>4, QuietSteps DEF brokerVars
<1>5. CASE BrokerAccepts
  BY <1>5 DEF BrokerAccepts, vars, clientVars
<1>6. CASE ReadUplink
  <2>1. client' = "connected" => status' = "online"
    BY <1>6, ReadType DEF ReadUplink, vars, clientVars, Courtesy
  <2> QED
    BY <1>6, <2>1 DEF ReadUplink, vars, clientVars
<1>7. CASE KeepaliveExpires
  BY <1>7 DEF KeepaliveExpires, Closes, vars, clientVars
<1>8. CASE UplinkLost
  BY <1>8 DEF UplinkLost, vars, clientVars, Courtesy
<1>9. CASE PowerLoss
  BY <1>9 DEF PowerLoss
<1>10. CASE (Waits /\ UNCHANGED brokerVars) \/ UNCHANGED allVars
  BY <1>10 DEF Waits, allVars, brokerVars, vars, clientVars
<1> QED
  BY <1>1, <1>2, <1>3, <1>4, <1>5, <1>6, <1>7, <1>8, <1>9, <1>10 DEF PresenceNext,
     NodeSteps, QuietStep, Broker

\* A renewed connection has no retry on its way, so nothing is taken: the
\* account of retries is that of a client that is not parked.
LEMMA NothingTaken ==
  ASSUME ServiceInv, client = "connected", ~startRaced
  PROVE  /\ ~InFirstLoop /\ pc # "startClient" /\ notified = 0
         /\ pc \notin {"delay", "reconnect"}
<1>1. ~InFirstLoop /\ pc # "startClient"
  BY DEF ServiceInv, StageInv, InFirstLoop
<1>2. Trackers = Count(client = "parked")
  BY <1>1 DEF ServiceInv, TokenInv, ExactAccount
<1>3. Trackers = 0
  BY <1>2 DEF Count
<1>4. notified \in Nat
  BY DEF ServiceInv, TypeInv
<1>5. /\ Count(Dropping) \in {0, 1} /\ Count(Backing) \in {0, 1}
      /\ Count(reconnectBit) \in {0, 1}
  BY DEF Count
<1>6. notified = 0 /\ Count(Backing) = 0
  BY <1>3, <1>4, <1>5 DEF Trackers
<1> QED BY <1>1, <1>6 DEF Count, Backing

\* What was renewed after a step was so before, or this is its reset.
LEMMA RenewedBefore ==
  ASSUME ServiceInv, [Next]_vars, Renewed', ~ResetBackoff
  PROVE  Renewed /\ startRaced' = startRaced /\ handler # "resetBackoff"
<1> USE DEF Renewed, clientVars, serviceVars
<1>1. CASE MainTask \/ WifiTask
  BY <1>1 DEF MainTask, CreateClient, CreateTask, WifiTask, Start, NotifyStart,
              SeesConnected, RequestDisconnect
<1>2. CASE ServiceTask
  BY <1>2 DEF ServiceTask, CheckStarted, AwaitStart, StartClient, Take, TakeMiscounted,
              DelayEnds, Reconnect, LoadBackoff, StoreBackoff, ServiceInv, StageInv
<1>3. CASE Client
  BY <1>3 DEF Client, BeginReconnect, ConnectSucceeds, TransportError, Abort,
              HonourDisconnect
<1>4. CASE EventHandler
  BY <1>4 DEF EventHandler, StoreConnected, BirthSent, BirthFails, SubscribeFails,
              ConnectCallback, OnError, StoreDisconnected, DropCallback, NotifyDisconnect,
              HandlerReturns, ServiceInv, StageInv, Dropping
<1>5. CASE Waits \/ UNCHANGED vars
  BY <1>5 DEF Waits, vars
<1> QED BY <1>1, <1>2, <1>3, <1>4, <1>5 DEF Next

\* With no notification to take, only the end of a doubling changes the backoff.
LEMMA BackoffAlone ==
  ASSUME [Next]_vars, ~InFirstLoop, pc # "startClient", notified = 0, ~Backing,
         ~ResetBackoff, ~LoadBackoff, ~StoreBackoff
  PROVE  UNCHANGED <<m_backoff_ms, loaded, pc>>
<1> USE DEF clientVars, serviceVars, InFirstLoop, Backing
<1>1. CASE MainTask \/ WifiTask
  BY <1>1 DEF MainTask, CreateClient, CreateTask, WifiTask, Start, NotifyStart,
              SeesConnected, RequestDisconnect
<1>2. CASE ServiceTask
  BY <1>2 DEF ServiceTask, CheckStarted, AwaitStart, StartClient, Take, TakeMiscounted,
              WakesOn, DelayEnds, Reconnect
<1>3. CASE Client
  BY <1>3 DEF Client, BeginReconnect, ConnectSucceeds, TransportError, Abort,
              HonourDisconnect
<1>4. CASE EventHandler
  BY <1>4 DEF EventHandler, StoreConnected, BirthSent, BirthFails, SubscribeFails,
              ConnectCallback, OnError, StoreDisconnected, DropCallback, NotifyDisconnect,
              HandlerReturns
<1>5. CASE Waits \/ UNCHANGED vars
  BY <1>5 DEF Waits, vars
<1> QED BY <1>1, <1>2, <1>3, <1>4, <1>5 DEF Next

\* A step keeps the backoff of a renewed connection, but for the race that
\* RecordsRace remembers.
LEMMA RenewKept ==
  ASSUME PInv, [PresenceAction]_presenceVars
  PROVE  resetRaced' \in BOOLEAN /\ RenewInv'
<1>1. resetRaced' \in BOOLEAN
  BY DEF PInv, BrokerTypes, PresenceAction, presenceVars, RecordsRace
<1>2. SUFFICES ASSUME Renewed', ~startRaced', ~resetRaced' PROVE RenewInv'
  BY <1>1 DEF RenewInv
<1>3. [PresenceNext]_allVars /\ ([Next]_vars \/ PowerLoss)
  BY PresenceStep DEF PresenceAction, presenceVars
<1>4. [Next]_vars
  BY <1>2, <1>3 DEF PowerLoss, Renewed
<1>5. CASE ResetBackoff
  <2>1. pc # "store" /\ pc' = pc /\ m_backoff_ms' = InitialBackoff
    BY <1>2, <1>5 DEF ResetBackoff, PresenceAction, presenceVars, allVars, vars, clientVars,
                      RecordsRace, serviceVars
  <2> QED BY <2>1 DEF RenewInv
<1>6. CASE ~ResetBackoff
  <2>1. Renewed /\ startRaced = startRaced' /\ handler # "resetBackoff"
    BY <1>2, <1>4, <1>6, RenewedBefore DEF PInv
  <2>2. ~resetRaced
    BY <1>2, <2>1 DEF PresenceAction, presenceVars, RecordsRace
  <2>3. /\ m_backoff_ms \in {InitialBackoff, NextBackoff(InitialBackoff)}
        /\ pc \in {"load", "store"} => m_backoff_ms = InitialBackoff
        /\ pc = "store" => loaded = InitialBackoff
    BY <1>2, <2>1, <2>2 DEF PInv, RenewInv
  <2>4. ~InFirstLoop /\ pc # "startClient" /\ notified = 0 /\ ~Backing
    BY <1>2, <2>1, NothingTaken DEF PInv, Renewed, Backing
  <2>5. CASE LoadBackoff
    BY <2>3, <2>5 DEF LoadBackoff, RenewInv
  <2>6. CASE StoreBackoff
    BY <2>3, <2>6 DEF StoreBackoff, RenewInv
  <2>7. CASE ~LoadBackoff /\ ~StoreBackoff
    <3>1. UNCHANGED <<m_backoff_ms, loaded, pc>>
      BY <1>4, <1>6, <2>4, <2>7, BackoffAlone
    <3> QED BY <2>3, <3>1 DEF RenewInv
  <2> QED BY <2>5, <2>6, <2>7
<1> QED BY <1>5, <1>6

----------------------------------------------------------------------------
(* The theorems.                                                           *)

\* The invariant the theorems rest on.
THEOREM PresenceInvariant == PresenceSpec => []PInv
<1>1. PresenceInit => PInv
  <2> SUFFICES ASSUME PresenceInit PROVE PInv
    OBVIOUS
  <2>1. client = "none" /\ uplink = << >> /\ accepted = FALSE
    BY DEF PresenceInit, Init
  <2>2. uplink \in Seq(Packets)
    BY <2>1
  <2>3. BrokerTypes
    BY <2>2 DEF PresenceInit, BrokerTypes
  <2>4. Courtesy /\ BirthInv /\ BirthOutlivesWill /\ RenewInv
    BY <2>1 DEF Courtesy, BirthInv, BirthOutlivesWill, RenewInv, Renewed
  <2> QED
    BY <2>3, <2>4, ServiceAtBoot DEF PresenceInit, PInv
<1>2. PInv /\ [PresenceAction]_presenceVars => PInv'
  <2> SUFFICES ASSUME PInv, [PresenceAction]_presenceVars PROVE PInv'
    OBVIOUS
  <2>1. [PresenceNext]_allVars
    BY DEF PresenceAction, presenceVars
  <2>2. ServiceInv'
    BY <2>1, PresenceStep, ServiceKept, ServiceRestarted DEF PInv
  <2> QED
    BY <2>1, <2>2, CourtesyKept, BirthKept, RenewKept DEF PInv, BrokerTypes
<1> QED BY <1>1, <1>2, PTL DEF PresenceSpec, PresenceAction, presenceVars

\* Every variable of the node and of the broker keeps its type.
THEOREM PresenceTypeCorrect == PresenceSpec => []PresenceTypeOK
<1>1. PInv => PresenceTypeOK
  BY ServiceTypes DEF PInv, BrokerTypes, Packets, PresenceTypeOK
<1> QED BY <1>1, PresenceInvariant, PTL

\* However late the broker publishes the will of an older connection, the birth
\* message of onConnected comes after it: a connected node, once the broker has
\* read what it sent, is shown online.
THEOREM BirthIsLastWord == PresenceSpec => []BirthOutlivesWill
<1>1. PInv => BirthOutlivesWill
  BY DEF PInv
<1> QED BY <1>1, PresenceInvariant, PTL

\* A session starts with the initial backoff, or its double, unless its reset fell
\* between the read and the write of the doubling, or start() raced.
THEOREM BackoffIsRenewed == PresenceSpec => []ResetLostOnlyByRace
<1>1. PInv => ResetLostOnlyByRace
  BY DEF PInv, RenewInv, ResetLostOnlyByRace
<1> QED BY <1>1, PresenceInvariant, PTL

\* With a broker and power losses around it, the service keeps what it keeps
\* alone: the flag,
THEOREM PresenceFlag == PresenceSpec => []FlagFollowsClient
<1>1. PInv => FlagFollowsClient
  BY DEF PInv, ServiceInv, FlagInv
<1> QED BY <1>1, PresenceInvariant, PTL

\* the account of retries,
THEOREM PresenceRetries == PresenceSpec => []OneRetryPerDrop
<1>1. PInv => OneRetryPerDrop
  BY ServiceParts DEF PInv
<1> QED BY <1>1, PresenceInvariant, PTL

\* and who can be stranded.
THEOREM PresenceStranded == PresenceSpec => []StrandedOnlyByStartRace
<1>1. PInv => StrandedOnlyByStartRace
  BY ServiceStranded DEF PInv
<1> QED BY <1>1, PresenceInvariant, PTL

\* The safety part of ImplementsBrokerRetry, where power losses come between: a
\* reset forgets the connection and the race, and every other step is the
\* service's, which makes no retry that BrokerRetry would not.
THEOREM PresenceImplementsRetry ==
    PresenceSpec => Retries!Init /\ [][Retries!Next]_(Retries!retryVars)
<1>1. PresenceInit => Retries!Init
  BY DEF PresenceInit, Init, Retries!Init
<1>2. PInv => ServiceInv /\ StrandedOnlyByStartRace
  BY ServiceStranded DEF PInv
<1>3. ServiceInv /\ ServiceInv' /\ StrandedOnlyByStartRace' /\ [PresenceAction]_presenceVars
         => [Retries!Next]_(Retries!retryVars)
  <2> SUFFICES ASSUME ServiceInv, ServiceInv', StrandedOnlyByStartRace',
                      [PresenceAction]_presenceVars
               PROVE  [Retries!Next]_(Retries!retryVars)
    OBVIOUS
  <2>1. CASE [Next]_vars
    BY <2>1, BrokerRetryStep
  <2>2. CASE PowerLoss
    <3>1. Retries!PowerLoss
      BY <2>2 DEF PowerLoss, Retries!PowerLoss
    <3> QED BY <3>1 DEF Retries!Next
  <2>3. [PresenceNext]_allVars
    BY DEF PresenceAction, presenceVars
  <2> QED BY <2>1, <2>2, <2>3, PresenceStep
<1> QED BY <1>1, <1>2, <1>3, PresenceInvariant, PTL DEF PresenceSpec, PresenceAction,
           presenceVars
=============================================================================
