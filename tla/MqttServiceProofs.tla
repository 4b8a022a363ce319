------------------------- MODULE MqttServiceProofs -------------------------
(***************************************************************************)
(* What MqttService guarantees for every initial and every largest backoff.*)
(***************************************************************************)
EXTENDS MqttService, TLAPS

\* The specification without its fairness, which no safety property needs: a
\* system that contains the service takes its steps, as module Node does.
Steps == Init /\ [][Next]_vars

\* TypeOK without the bound of the notification count, which needs the
\* accounting below.
TypeInv ==
    /\ client \in {"none", "idle", "dead", "connecting", "connected", "parked"}
    /\ reconnectBit \in BOOLEAN /\ disconnectBit \in BOOLEAN
    /\ handler \in {"none", "connected", "resetBackoff", "birth",
                    "connectCallback", "error", "aborting", "disconnected",
                    "dropCallback", "notify"}
    /\ birthFailed \in BOOLEAN
    /\ m_connected \in BOOLEAN /\ m_started \in BOOLEAN
    /\ m_backoff_ms \in Nat /\ loaded \in Nat /\ wait_ms \in Nat
    /\ notified \in Nat
    /\ pc \in {"none", "checkStart", "awaitStart", "startClient", "take",
               "delay", "reconnect", "load", "store"}
    /\ caller \in {"none", "notify", "disconnect"}
    /\ startRaced \in BOOLEAN

\* A wait is never negative.
LEMMA WaitTimesNat == \A b \in Nat : WaitTimes(b) \subseteq Nat
<1> SUFFICES ASSUME NEW b \in Nat, NEW j \in Jitter(b) PROVE b - b \div 10 + j \in Nat
  BY DEF WaitTimes
<1>1. b \div 10 \in Nat /\ b \div 10 <= b /\ b \div 5 \in Nat
  OBVIOUS
<1>2. j \in Nat
  BY <1>1 DEF Jitter
<1> QED BY <1>1, <1>2

\* The doubled backoff is one, too.
LEMMA NextBackoffNat == \A b \in Nat : NextBackoff(b) \in Nat
BY MqttConstants DEF NextBackoff

\* The types at the boot ...
LEMMA TypeInvInit == Init => TypeInv
<1> SUFFICES ASSUME Init PROVE TypeInv
  OBVIOUS
<1>1. m_backoff_ms \in Nat /\ loaded \in Nat /\ wait_ms \in Nat /\ notified \in Nat
  BY MqttConstants DEF Init
<1> QED BY <1>1 DEF Init, TypeInv

\* ... and after each step.
LEMMA TypeInvKept == TypeInv /\ [Next]_vars => TypeInv'
<1> SUFFICES ASSUME TypeInv, [Next]_vars PROVE TypeInv'
  OBVIOUS
<1>1. CASE MainTask
  BY <1>1 DEF MainTask, CreateClient, CreateTask, serviceVars, clientVars, TypeInv
<1>2. CASE WifiTask
  <2>1. CASE NotifyStart
    <3>1. notified' \in Nat
      BY <2>1 DEF NotifyStart, TypeInv
    <3> QED BY <2>1, <3>1 DEF NotifyStart, serviceVars, clientVars, TypeInv
  <2>2. CASE Start \/ SeesConnected \/ RequestDisconnect
    BY <2>2 DEF Start, SeesConnected, RequestDisconnect, serviceVars, clientVars, TypeInv
  <2> QED BY <1>2, <2>1, <2>2 DEF WifiTask
<1>3. CASE ServiceTask
  <2>1. CASE CheckStarted
    <3>1. startRaced' \in BOOLEAN /\ pc' \in {"awaitStart", "startClient"}
      BY <2>1 DEF CheckStarted, TypeInv
    <3> QED BY <2>1, <3>1 DEF CheckStarted, clientVars, TypeInv
  <2>2. CASE Take
    <3>1. wait_ms' \in Nat /\ notified' \in Nat
      BY <2>2, WaitTimesNat DEF Take, TypeInv
    <3> QED BY <2>2, <3>1 DEF Take, clientVars, TypeInv
  <2>3. CASE Reconnect
    BY <2>3 DEF Reconnect, TypeInv
  <2>4. CASE StoreBackoff
    <3>1. m_backoff_ms' \in Nat /\ loaded' \in Nat
      BY <2>4, NextBackoffNat DEF StoreBackoff, TypeInv
    <3> QED BY <2>4, <3>1 DEF StoreBackoff, clientVars, TypeInv
  <2>5. CASE AwaitStart \/ TakeMiscounted \/ DelayEnds
    <3>1. notified' \in Nat /\ wait_ms' \in Nat
      BY <2>5 DEF AwaitStart, TakeMiscounted, DelayEnds, serviceVars, TypeInv
    <3> QED BY <2>5, <3>1 DEF AwaitStart, TakeMiscounted, DelayEnds,
                              serviceVars, clientVars, TypeInv
  <2>6. CASE StartClient \/ LoadBackoff
    BY <2>6 DEF StartClient, LoadBackoff, clientVars, TypeInv
  <2> QED BY <1>3, <2>1, <2>2, <2>3, <2>4, <2>5, <2>6 DEF ServiceTask
<1>4. CASE Client
  BY <1>4 DEF Client, BeginReconnect, ConnectSucceeds, TransportError, Abort,
              HonourDisconnect, serviceVars, TypeInv
<1>5. CASE EventHandler
  <2>1. CASE ResetBackoff
    <3>1. m_backoff_ms' \in Nat
      BY <2>1, MqttConstants DEF ResetBackoff
    <3> QED BY <2>1, <3>1 DEF ResetBackoff, serviceVars, TypeInv
  <2>2. CASE NotifyDisconnect
    <3>1. notified' \in Nat
      BY <2>2 DEF NotifyDisconnect, TypeInv
    <3>2. handler' \in {"connectCallback", "none"}
      BY <2>2 DEF NotifyDisconnect, HandlerReturns
    <3> QED BY <2>2, <3>1, <3>2 DEF NotifyDisconnect, HandlerReturns, serviceVars, TypeInv
  <2>3. CASE ConnectCallback
    <3>1. handler' \in {"aborting", "none"}
      BY <2>3 DEF ConnectCallback
    <3> QED BY <2>3, <3>1 DEF ConnectCallback, serviceVars, TypeInv
  <2>4. CASE BirthSent \/ BirthFails \/ SubscribeFails
    BY <2>4 DEF BirthSent, BirthFails, SubscribeFails, serviceVars, TypeInv
  <2>5. CASE StoreConnected \/ OnError \/ StoreDisconnected \/ DropCallback
    BY <2>5 DEF StoreConnected, OnError, StoreDisconnected, DropCallback, serviceVars,
                TypeInv
  <2> QED BY <1>5, <2>1, <2>2, <2>3, <2>4, <2>5 DEF EventHandler
<1>6. CASE Waits \/ UNCHANGED vars
  BY <1>6 DEF Waits, vars, serviceVars, clientVars, TypeInv
<1> QED BY <1>1, <1>2, <1>3, <1>4, <1>5, <1>6 DEF Next

----------------------------------------------------------------------------
(* Where the tasks can be together: the service task starts the client, a  *)
(* stage of the handler goes with a state of the client, and the flag with *)
(* both.                                                                   *)

StageInv ==
    /\ pc \in {"none", "checkStart", "awaitStart", "startClient"}
           <=> client \in {"none", "idle"}
    /\ client = "none" => pc = "none"
    /\ ~m_started => InFirstLoop
    /\ startRaced => ~InFirstLoop
    /\ handler \in {"connected", "resetBackoff", "birth"} => client = "connected"
    /\ handler = "connectCallback" => client \in {"connected", "parked"}
    /\ handler \in {"error", "aborting"} => client \in {"connecting", "connected"}
    /\ Dropping => client = "parked"
    /\ reconnectBit => client = "parked"

FlagInv ==
    /\ FlagFollowsClient
    /\ handler \in {"resetBackoff", "birth"} => m_connected
    /\ handler = "connectCallback" =>
          (m_connected => client = "connected") /\ (client = "connected" \/ birthFailed)
    /\ handler \in {"aborting", "dropCallback", "notify"} => ~m_connected

\* The tasks at the boot ...
LEMMA StageInit == Init => StageInv
BY DEF Init, StageInv, InFirstLoop, Dropping

\* ... and after each step.
LEMMA StageKept == TypeInv /\ StageInv /\ [Next]_vars => StageInv'
<1> SUFFICES ASSUME TypeInv, StageInv, [Next]_vars PROVE StageInv'
  OBVIOUS
<1> USE DEF StageInv, InFirstLoop, Dropping
<1>1. CASE MainTask
  BY <1>1 DEF MainTask, CreateClient, CreateTask, clientVars, serviceVars
<1>2. CASE WifiTask
  BY <1>2 DEF WifiTask, Start, NotifyStart, SeesConnected, RequestDisconnect,
              clientVars, serviceVars
<1>3. CASE ServiceTask
  <2>1. CASE CheckStarted
    BY <2>1 DEF CheckStarted, clientVars
  <2>2. CASE StartClient
    BY <2>2 DEF StartClient
  <2>3. CASE Reconnect
    BY <2>3 DEF Reconnect
  <2>4. CASE AwaitStart \/ Take \/ TakeMiscounted \/ DelayEnds \/ LoadBackoff \/ StoreBackoff
    BY <2>4 DEF AwaitStart, Take, TakeMiscounted, DelayEnds, LoadBackoff,
                StoreBackoff, clientVars, serviceVars
  <2> QED BY <1>3, <2>1, <2>2, <2>3, <2>4 DEF ServiceTask
<1>4. CASE Client
  BY <1>4 DEF Client, BeginReconnect, ConnectSucceeds, TransportError, Abort,
              HonourDisconnect, serviceVars, TypeInv
<1>5. CASE EventHandler
  <2>1. CASE StoreConnected \/ ResetBackoff \/ OnError \/ StoreDisconnected \/ DropCallback
    BY <2>1 DEF StoreConnected, ResetBackoff, OnError, StoreDisconnected, DropCallback,
                serviceVars
  <2>2. CASE BirthSent \/ BirthFails \/ SubscribeFails
    BY <2>2 DEF BirthSent, BirthFails, SubscribeFails, serviceVars
  <2>3. CASE ConnectCallback
    BY <2>3 DEF ConnectCallback, serviceVars
  <2>4. CASE NotifyDisconnect
    BY <2>4 DEF NotifyDisconnect, HandlerReturns, serviceVars
  <2> QED BY <1>5, <2>1, <2>2, <2>3, <2>4 DEF EventHandler
<1>6. CASE Waits \/ UNCHANGED vars
  BY <1>6 DEF Waits, vars, clientVars, serviceVars
<1> QED BY <1>1, <1>2, <1>3, <1>4, <1>5, <1>6 DEF Next

\* The flag at the boot ...
LEMMA FlagInit == Init => FlagInv
BY DEF Init, FlagInv, FlagFollowsClient

\* ... and after each step.
LEMMA FlagKept == TypeInv /\ StageInv /\ FlagInv /\ [Next]_vars => FlagInv'
<1> SUFFICES ASSUME TypeInv, StageInv, FlagInv, [Next]_vars PROVE FlagInv'
  OBVIOUS
<1> USE DEF FlagInv, FlagFollowsClient
<1>1. CASE MainTask
  BY <1>1 DEF MainTask, CreateClient, CreateTask, clientVars, StageInv
<1>2. CASE WifiTask
  BY <1>2 DEF WifiTask, Start, NotifyStart, SeesConnected, RequestDisconnect, clientVars
<1>3. CASE ServiceTask
  <2>1. CASE StartClient
    BY <2>1 DEF StartClient, StageInv
  <2>2. CASE ~StartClient
    BY <1>3, <2>2 DEF ServiceTask, CheckStarted, AwaitStart, Take, TakeMiscounted,
                      DelayEnds, Reconnect, LoadBackoff, StoreBackoff, clientVars
  <2> QED BY <2>1, <2>2
<1>4. CASE Client
  BY <1>4 DEF Client, BeginReconnect, ConnectSucceeds, TransportError, Abort,
              HonourDisconnect
<1>5. CASE EventHandler
  <2>1. CASE StoreConnected \/ ResetBackoff \/ OnError \/ StoreDisconnected \/ DropCallback
    BY <2>1 DEF StoreConnected, ResetBackoff, OnError, StoreDisconnected, DropCallback
  <2>2. CASE BirthSent \/ BirthFails \/ SubscribeFails
    BY <2>2 DEF BirthSent, BirthFails, SubscribeFails, StageInv
  <2>3. CASE ConnectCallback
    BY <2>3 DEF ConnectCallback, StageInv
  <2>4. CASE NotifyDisconnect
    BY <2>4 DEF NotifyDisconnect, HandlerReturns, StageInv, Dropping
  <2> QED BY <1>5, <2>1, <2>2, <2>3, <2>4 DEF EventHandler
<1>6. CASE Waits \/ UNCHANGED vars
  BY <1>6 DEF Waits, vars, clientVars
<1> QED BY <1>1, <1>2, <1>3, <1>4, <1>5, <1>6 DEF Next

----------------------------------------------------------------------------
(* The accounting of notifications.  Before the first loop ends there is   *)
(* at most the notification of start(), given or still to be given.        *)
(* Afterwards a parked client accounts for one tracker and the race for    *)
(* one more; without the race, or while start() still has its notification *)
(* to give, the account is exact.                                          *)

ExactAccount ==
    (~InFirstLoop /\ (~startRaced \/ caller = "notify"))
        => Trackers = Count(client = "parked")

TokenInv ==
    /\ ~m_started => notified = 0 /\ caller # "notify"
    /\ InFirstLoop => notified + Count(caller = "notify") <= 1
    /\ ~InFirstLoop => Trackers + Count(caller = "notify")
                           <= Count(client = "parked") + Count(startRaced)
    /\ ExactAccount

\* What a step does to the account: t more trackers, c more notifications of
\* start() to be given, p more parked clients.
Shift(t, c, p) ==
    /\ Trackers' = Trackers + t
    /\ Count(caller = "notify")' = Count(caller = "notify") + c
    /\ Count(client = "parked")' = Count(client = "parked") + p

\* The terms of the account are numbers.
LEMMA TrackersNat ==
    ASSUME TypeInv
    PROVE  /\ Count(Dropping) \in {0, 1} /\ Count(Backing) \in {0, 1}
           /\ Count(reconnectBit) \in {0, 1} /\ Count(caller = "notify") \in {0, 1}
           /\ Count(client = "parked") \in {0, 1} /\ Count(startRaced) \in {0, 1}
           /\ Trackers \in Nat
<1>1. \A b \in BOOLEAN : Count(b) \in {0, 1}
  BY DEF Count
<1>2. /\ Count(Dropping) \in {0, 1} /\ Count(Backing) \in {0, 1}
      /\ Count(reconnectBit) \in {0, 1} /\ Count(caller = "notify") \in {0, 1}
      /\ Count(client = "parked") \in {0, 1} /\ Count(startRaced) \in {0, 1}
  <2>1. /\ Dropping \in BOOLEAN /\ Backing \in BOOLEAN /\ reconnectBit \in BOOLEAN
        /\ (caller = "notify") \in BOOLEAN /\ (client = "parked") \in BOOLEAN
        /\ startRaced \in BOOLEAN
    BY DEF TypeInv, Dropping, Backing
  <2> QED BY <1>1, <2>1, Zenon
<1>3. Trackers \in Nat
  BY <1>2 DEF Trackers, TypeInv
<1> QED BY <1>2, <1>3

\* A step after the first loop that adds no tracker without its parked client
\* or its pending notification keeps the account.
LEMMA TokensAfterShift ==
    ASSUME TypeInv, TypeInv', TokenInv, ~InFirstLoop, ~InFirstLoop', m_started',
           UNCHANGED startRaced,
           NEW t \in Int, NEW c \in Int, NEW p \in Int, Shift(t, c, p),
           t + c <= p, caller' = "notify" => caller = "notify",
           ~startRaced \/ caller' = "notify" => t = p
    PROVE  TokenInv'
<1>1. /\ Trackers + Count(caller = "notify") <= Count(client = "parked") + Count(startRaced)
      /\ ~startRaced \/ caller = "notify" => Trackers = Count(client = "parked")
  BY DEF TokenInv, ExactAccount
<1>2. /\ Trackers \in Nat /\ Count(caller = "notify") \in Nat
      /\ Count(client = "parked") \in Nat /\ Count(startRaced) \in Nat
  BY TrackersNat
<1>3. Count(startRaced)' = Count(startRaced)
  OBVIOUS
<1>4. Trackers' + Count(caller = "notify")' <= Count(client = "parked")' + Count(startRaced)'
  BY <1>1, <1>2, <1>3 DEF Shift
<1>5. ~startRaced' \/ caller' = "notify" => Trackers' = Count(client = "parked")'
  BY <1>1, <1>2 DEF Shift
<1>6. (~m_started => notified = 0 /\ caller # "notify")'
  OBVIOUS
<1>7. (InFirstLoop => notified + Count(caller = "notify") <= 1)'
  OBVIOUS
<1>8. (~InFirstLoop => Trackers + Count(caller = "notify")
                           <= Count(client = "parked") + Count(startRaced))'
  BY <1>4
<1>9. ExactAccount'
  BY <1>5 DEF ExactAccount
<1> QED BY <1>6, <1>7, <1>8, <1>9 DEF TokenInv

\* A step that touches no part of the account keeps it.
LEMMA TokensKept ==
    ASSUME TokenInv,
           UNCHANGED <<m_started, notified, reconnectBit, startRaced>>,
           (caller = "notify")' = (caller = "notify"),
           (client = "parked")' = (client = "parked"),
           Dropping' = Dropping, Backing' = Backing, InFirstLoop' = InFirstLoop
    PROVE  TokenInv'
<1>1. /\ Count(caller = "notify")' = Count(caller = "notify")
      /\ Count(client = "parked")' = Count(client = "parked")
      /\ Count(startRaced)' = Count(startRaced)
      /\ Trackers' = Trackers
  BY Zenon DEF Trackers
<1>2. (~m_started => notified = 0 /\ caller # "notify")'
  BY DEF TokenInv
<1>3. (InFirstLoop => notified + Count(caller = "notify") <= 1)'
  BY <1>1 DEF TokenInv
<1>4. (~InFirstLoop => Trackers + Count(caller = "notify")
                           <= Count(client = "parked") + Count(startRaced))'
  BY <1>1 DEF TokenInv
<1>5. ExactAccount'
  BY <1>1 DEF TokenInv, ExactAccount
<1> QED BY <1>2, <1>3, <1>4, <1>5 DEF TokenInv

\* The account at the boot ...
LEMMA TokenInit == Init => TokenInv
<1> SUFFICES ASSUME Init PROVE TokenInv
  OBVIOUS
<1>1. InFirstLoop /\ notified = 0 /\ caller # "notify"
  BY DEF Init, InFirstLoop
<1>2. Count(caller = "notify") = 0
  BY <1>1 DEF Count
<1> QED BY <1>1, <1>2 DEF TokenInv, ExactAccount

\* ... and after each step.
LEMMA TokenKept == TypeInv /\ TypeInv' /\ StageInv /\ TokenInv /\ [Next]_vars => TokenInv'
<1> SUFFICES ASSUME TypeInv, TypeInv', StageInv, TokenInv, [Next]_vars PROVE TokenInv'
  OBVIOUS
<1>1. CASE MainTask
  <2>1. InFirstLoop /\ InFirstLoop'
    BY <1>1 DEF MainTask, CreateClient, CreateTask, StageInv, InFirstLoop, serviceVars
  <2>2. UNCHANGED <<m_started, notified, caller>>
    BY <1>1 DEF MainTask, CreateClient, CreateTask
  <2>3. Count(caller = "notify")' = Count(caller = "notify")
    BY <2>2
  <2> QED BY <2>1, <2>2, <2>3 DEF TokenInv, ExactAccount
<1>2. CASE Start
  <2>1. InFirstLoop /\ InFirstLoop' /\ m_started' /\ notified = 0 /\ notified' = 0
    BY <1>2 DEF Start, StageInv, TokenInv, InFirstLoop, serviceVars
  <2>2. Count(caller = "notify")' \in {0, 1}
    BY DEF Count
  <2> QED BY <2>1, <2>2 DEF TokenInv, ExactAccount
<1>3. CASE NotifyStart
  <2>1. /\ caller = "notify" /\ caller' = "none" /\ m_started /\ m_started'
        /\ UNCHANGED <<client, reconnectBit, handler, pc, startRaced>>
        /\ InFirstLoop' = InFirstLoop
    BY <1>3 DEF NotifyStart, StageInv, TokenInv, InFirstLoop, clientVars, serviceVars
  <2>2. Count(caller = "notify") = 1 /\ Count(caller = "notify")' = 0
    BY <2>1 DEF Count
  <2>3. CASE InFirstLoop
    <3>1. notified \in Nat
      BY DEF TypeInv
    <3>2. notified = 0
      BY <2>2, <2>3, <3>1 DEF TokenInv
    <3>3. notified' \in {0, 1}
      BY <1>3, <3>2 DEF NotifyStart
    <3> QED BY <2>1, <2>2, <2>3, <3>3 DEF TokenInv, ExactAccount
  <2>4. CASE ~InFirstLoop
    <3>1. notified' = notified + 1 /\ notified \in Nat
      BY <1>3, <2>4 DEF NotifyStart, InFirstLoop, TypeInv
    <3>2. Trackers' = Trackers + 1
      BY <2>1, <3>1, TrackersNat DEF Trackers, Dropping, Backing
    <3>3. Count(client = "parked")' = Count(client = "parked") /\ Count(startRaced) \in {0, 1}
      BY <2>1, TrackersNat
    <3>4. startRaced
      <4>1. CASE ~startRaced
        <5>1. Count(startRaced) = 0
          BY <4>1 DEF Count
        <5> QED BY <2>2, <2>4, <4>1, <5>1, TrackersNat DEF TokenInv, ExactAccount
      <4> QED BY <4>1
    <3>5. Shift(1, 0 - 1, 0)
      BY <2>2, <3>2, <3>3, TrackersNat DEF Shift
    <3> QED BY <2>1, <2>4, <3>4, <3>5, TokensAfterShift
  <2> QED BY <2>3, <2>4
<1>4. CASE SeesConnected \/ RequestDisconnect
  BY <1>4, TokensKept DEF SeesConnected, RequestDisconnect, clientVars, serviceVars,
                          Dropping, Backing, InFirstLoop
<1>5. CASE CheckStarted
  <2>1. /\ UNCHANGED <<client, reconnectBit, handler, notified, caller, m_started>>
        /\ pc = "checkStart" /\ InFirstLoop
    BY <1>5 DEF CheckStarted, clientVars, InFirstLoop
  <2>2. CASE ~m_started /\ pc' = "awaitStart" /\ UNCHANGED startRaced
    BY <2>1, <2>2, TokensKept DEF Dropping, Backing, InFirstLoop
  <2>3. CASE /\ m_started /\ pc' = "startClient"
             /\ startRaced' = (notified > 0 \/ caller = "notify")
    <3>1. client # "parked" /\ client' # "parked"
      BY <2>1 DEF StageInv
    <3>2. ~Dropping' /\ ~reconnectBit' /\ ~Backing' /\ ~InFirstLoop'
      BY <2>1, <2>3, <3>1 DEF StageInv, Dropping, Backing, InFirstLoop
    <3>3. /\ Count(Dropping)' = 0 /\ Count(reconnectBit)' = 0
          /\ Count(Backing)' = 0 /\ Count(client = "parked")' = 0
      BY <3>1, <3>2 DEF Count
    <3>4. Trackers' = notified /\ notified \in Nat
      BY <2>1, <3>3 DEF Trackers, TypeInv
    <3>5. Count(caller = "notify")' = Count(caller = "notify")
      BY <2>1
    <3>6. notified + Count(caller = "notify") <= 1
      BY <2>1 DEF TokenInv
    <3>7. CASE startRaced'
      <4>1. Count(startRaced)' = 1
        BY <3>7 DEF Count
      <4> QED BY <2>1, <2>3, <3>2, <3>3, <3>4, <3>5, <3>6, <3>7, <4>1
              DEF TokenInv, ExactAccount
    <3>8. CASE ~startRaced'
      <4>1. ~(notified > 0) /\ caller # "notify"
        BY <2>3, <3>8
      <4>2. Trackers' = 0
        BY <3>4, <4>1
      <4>3. Count(caller = "notify")' = 0 /\ Count(startRaced)' = 0
        BY <2>1, <3>8, <4>1 DEF Count
      <4> QED BY <2>3, <2>1, <3>2, <3>3, <4>2, <4>3 DEF TokenInv, ExactAccount
    <3> QED BY <3>7, <3>8
  <2> QED BY <1>5, <2>2, <2>3 DEF CheckStarted
<1>6. CASE AwaitStart
  <2>1. /\ InFirstLoop /\ InFirstLoop' /\ notified' = 0
        /\ UNCHANGED <<m_started, caller>>
    BY <1>6 DEF AwaitStart, InFirstLoop
  <2>2. Count(caller = "notify")' \in {0, 1}
    BY DEF Count
  <2>3. (~m_started => notified = 0 /\ caller # "notify")'
    BY <2>1 DEF TokenInv
  <2> QED BY <2>1, <2>2, <2>3 DEF TokenInv, ExactAccount
<1>7. CASE StartClient \/ DelayEnds \/ LoadBackoff \/ StoreBackoff
  <2>1. (client = "parked")' = (client = "parked")
    BY <1>7 DEF StartClient, DelayEnds, LoadBackoff, StoreBackoff, clientVars, StageInv
  <2> QED BY <1>7, <2>1, TokensKept
          DEF StartClient, DelayEnds, LoadBackoff, StoreBackoff, clientVars,
              Dropping, Backing, InFirstLoop
<1> DEFINE Busy == ~InFirstLoop /\ ~InFirstLoop' /\ m_started' /\ UNCHANGED startRaced
<1>nat. notified \in Nat /\ notified' \in Nat
  BY DEF TypeInv
<1>counts. /\ Count(Dropping) \in {0, 1} /\ Count(Backing) \in {0, 1}
           /\ Count(reconnectBit) \in {0, 1}
  BY TrackersNat
<1>8. CASE Take
  <2>1. Busy /\ UNCHANGED <<client, reconnectBit, handler, caller>>
    BY <1>8 DEF Take, StageInv, InFirstLoop, clientVars
  <2>2. notified = 1 /\ notified' = 0
    BY <1>8 DEF Take, WakesOn
  <2>3. Count(Backing) = 0 /\ Count(Backing)' = 1
    BY <1>8 DEF Take, Backing, Count
  <2>4. Count(Dropping)' = Count(Dropping) /\ Count(reconnectBit)' = Count(reconnectBit)
    BY <2>1 DEF Dropping
  <2>5. Trackers' = Trackers
    BY <2>2, <2>3, <2>4, <1>nat, <1>counts DEF Trackers
  <2>6. Shift(0, 0, 0)
    BY <2>1, <2>5, TrackersNat DEF Shift
  <2> QED BY <2>1, <2>6, TokensAfterShift
<1>9. CASE TakeMiscounted
  <2>1. /\ Busy /\ UNCHANGED <<client, reconnectBit, handler, caller>>
        /\ ~Backing /\ ~Backing'
    BY <1>9 DEF TakeMiscounted, StageInv, InFirstLoop, clientVars, serviceVars, Backing
  <2>2. notified \in Nat /\ notified > 1 /\ notified' = 0
    BY <1>9 DEF TakeMiscounted, WakesOn, TypeInv
  <2>3. /\ Count(Dropping)' = Count(Dropping) /\ Count(reconnectBit)' = Count(reconnectBit)
        /\ Count(Backing)' = Count(Backing)
    BY <2>1 DEF Dropping, Count
  <2>4. Trackers' = Trackers + (0 - notified)
    BY <2>2, <2>3, <1>nat, <1>counts DEF Trackers
  <2>5. Shift(0 - notified, 0, 0)
    BY <2>1, <2>4, TrackersNat DEF Shift
  <2>6. startRaced /\ caller # "notify"
    <3>1. Trackers > 1
      BY <2>2, <1>nat, <1>counts DEF Trackers
    <3> QED BY <2>1, <3>1, TrackersNat DEF TokenInv, ExactAccount
  <2> QED BY <2>1, <2>2, <2>5, <2>6, TokensAfterShift
<1>10. CASE Reconnect
  <2>1. Busy /\ UNCHANGED <<client, handler, notified, caller>> /\ Backing /\ ~Backing'
    BY <1>10 DEF Reconnect, StageInv, InFirstLoop, Backing
  <2>2. notified' = notified
    BY <2>1
  <2>3. CASE client = "parked" /\ ~reconnectBit
    <3>1. reconnectBit'
      BY <1>10, <2>3 DEF Reconnect
    <3>2. /\ Count(Backing) = 1 /\ Count(Backing)' = 0
          /\ Count(reconnectBit) = 0 /\ Count(reconnectBit)' = 1
      BY <2>1, <2>3, <3>1 DEF Count
    <3>3. Count(Dropping)' = Count(Dropping)
      BY <2>1 DEF Dropping
    <3>4. Trackers' = Trackers
      BY <2>2, <3>2, <3>3, <1>nat, <1>counts DEF Trackers
    <3>5. Shift(0, 0, 0)
      BY <2>1, <3>4, TrackersNat DEF Shift
    <3> QED BY <2>1, <3>5, TokensAfterShift
  <2>4. CASE ~(client = "parked" /\ ~reconnectBit)
    <3>1. reconnectBit' = reconnectBit
      BY <1>10, <2>4 DEF Reconnect, TypeInv
    <3>2. Count(Backing) = 1 /\ Count(Backing)' = 0
      BY <2>1 DEF Count
    <3>3. Count(Dropping)' = Count(Dropping) /\ Count(reconnectBit)' = Count(reconnectBit)
      BY <2>1, <3>1 DEF Dropping
    <3>4. Trackers' = Trackers + (0 - 1)
      BY <2>2, <3>2, <3>3, <1>nat, <1>counts DEF Trackers
    <3>5. Shift(0 - 1, 0, 0)
      BY <2>1, <3>4, TrackersNat DEF Shift
    <3>6. startRaced /\ caller # "notify"
      <4>1. CASE client # "parked"
        <5>1. Count(client = "parked") = 0
          BY <4>1 DEF Count
        <5>2. Trackers > 0
          BY <3>2, <1>nat, <1>counts DEF Trackers
        <5> QED BY <2>1, <5>1, <5>2, TrackersNat DEF TokenInv, ExactAccount
      <4>2. CASE reconnectBit
        <5>1. Count(reconnectBit) = 1
          BY <4>2 DEF Count
        <5>2. Trackers > 1
          BY <5>1, <3>2, <1>nat, <1>counts DEF Trackers
        <5> QED BY <2>1, <5>2, TrackersNat DEF TokenInv, ExactAccount
      <4> QED BY <2>4, <4>1, <4>2
    <3> QED BY <2>1, <3>5, <3>6, TokensAfterShift
  <2> QED BY <2>3, <2>4
<1>11. CASE BeginReconnect
  <2>1. /\ Busy /\ UNCHANGED <<notified, caller, handler, pc>>
        /\ client = "parked" /\ client' # "parked" /\ reconnectBit /\ ~reconnectBit'
    BY <1>11 DEF BeginReconnect, StageInv, InFirstLoop, serviceVars
  <2>2. /\ Count(reconnectBit) = 1 /\ Count(reconnectBit)' = 0
        /\ Count(client = "parked") = 1 /\ Count(client = "parked")' = 0
    BY <2>1 DEF Count
  <2>3. Count(Dropping)' = Count(Dropping) /\ Count(Backing)' = Count(Backing)
    BY <2>1 DEF Dropping, Backing
  <2>4. notified' = notified
    BY <2>1
  <2>5. Trackers' = Trackers + (0 - 1)
    BY <2>2, <2>3, <2>4, <1>nat, <1>counts DEF Trackers
  <2>6. Shift(0 - 1, 0, 0 - 1)
    BY <2>1, <2>2, <2>5, TrackersNat DEF Shift
  <2> QED BY <2>1, <2>6, TokensAfterShift
<1>12. CASE ConnectSucceeds \/ TransportError
  BY <1>12, TokensKept DEF ConnectSucceeds, TransportError, serviceVars,
                           Dropping, Backing, InFirstLoop
<1>13. CASE Abort \/ HonourDisconnect \/ (BirthFails /\ client' = "parked")
  <2>1. /\ Busy /\ UNCHANGED <<notified, caller, reconnectBit, pc>>
        /\ client # "parked" /\ client' = "parked" /\ ~Dropping /\ Dropping'
    BY <1>13 DEF Abort, HonourDisconnect, BirthFails, StageInv, InFirstLoop, Dropping,
           serviceVars
  <2>2. /\ Count(Dropping) = 0 /\ Count(Dropping)' = 1
        /\ Count(client = "parked") = 0 /\ Count(client = "parked")' = 1
    BY <2>1 DEF Count
  <2>3. Count(reconnectBit)' = Count(reconnectBit) /\ Count(Backing)' = Count(Backing)
    BY <2>1 DEF Backing
  <2>4. notified' = notified
    BY <2>1
  <2>5. Trackers' = Trackers + 1
    BY <2>2, <2>3, <2>4, <1>nat, <1>counts DEF Trackers
  <2>6. Shift(1, 0, 1)
    BY <2>1, <2>2, <2>5, TrackersNat DEF Shift
  <2> QED BY <2>1, <2>6, TokensAfterShift
<1>14. CASE EventHandler /\ ~NotifyDisconnect /\ ~(BirthFails /\ client' = "parked")
  <2>1. CASE ConnectCallback
    BY <2>1, TokensKept DEF ConnectCallback, serviceVars, Dropping, Backing, InFirstLoop
  <2>2. CASE BirthSent \/ SubscribeFails
    BY <2>2, TokensKept DEF BirthSent, SubscribeFails, serviceVars, Dropping, Backing,
                            InFirstLoop
  <2>3. CASE BirthFails /\ client' # "parked"
    BY <2>3, TokensKept DEF BirthFails, serviceVars, Dropping, Backing, InFirstLoop
  <2>4. CASE StoreConnected \/ ResetBackoff \/ OnError \/ StoreDisconnected \/ DropCallback
    BY <2>4, TokensKept DEF StoreConnected, ResetBackoff, OnError, StoreDisconnected,
                            DropCallback, serviceVars, Dropping, Backing, InFirstLoop
  <2> QED BY <1>14, <2>1, <2>2, <2>3, <2>4 DEF EventHandler
<1>15. CASE NotifyDisconnect
  <2>1. /\ Busy /\ UNCHANGED <<client, caller, reconnectBit, pc>>
        /\ Dropping /\ ~Dropping'
    BY <1>15 DEF NotifyDisconnect, HandlerReturns, StageInv, InFirstLoop, Dropping, serviceVars
  <2>2. Count(Dropping) = 1 /\ Count(Dropping)' = 0
    BY <2>1 DEF Count
  <2>3. Count(reconnectBit)' = Count(reconnectBit) /\ Count(Backing)' = Count(Backing)
    BY <2>1 DEF Backing
  <2>4. notified \in Nat /\ notified' = notified + 1
    BY <1>15 DEF NotifyDisconnect, TypeInv
  <2>5. Trackers' = Trackers
    BY <2>2, <2>3, <2>4, <1>nat, <1>counts DEF Trackers
  <2>6. Shift(0, 0, 0)
    BY <2>1, <2>5, TrackersNat DEF Shift
  <2> QED BY <2>1, <2>6, TokensAfterShift
<1>16. CASE Waits \/ UNCHANGED vars
  BY <1>16, TokensKept DEF Waits, vars, clientVars, serviceVars,
                           Dropping, Backing, InFirstLoop
<1> QED BY <1>1, <1>2, <1>3, <1>4, <1>5, <1>6, <1>7, <1>8, <1>9, <1>10, <1>11,
           <1>12, <1>13, <1>14, <1>15, <1>16 DEF Next, WifiTask, ServiceTask, Client

----------------------------------------------------------------------------
(* What the theorems rest on, in one invariant.                            *)

ServiceInv == TypeInv /\ StageInv /\ FlagInv /\ TokenInv

\* It holds at the boot ...
LEMMA ServiceAtBoot == Init => ServiceInv
BY TypeInvInit, StageInit, FlagInit, TokenInit DEF ServiceInv

\* ... and after each step.
LEMMA ServiceKept == ServiceInv /\ [Next]_vars => ServiceInv'
<1> SUFFICES ASSUME ServiceInv, [Next]_vars PROVE ServiceInv'
  OBVIOUS
<1>1. TypeInv' /\ StageInv' /\ FlagInv'
  BY TypeInvKept, StageKept, FlagKept DEF ServiceInv
<1>2. TokenInv'
  BY <1>1, TokenKept DEF ServiceInv
<1> QED BY <1>1, <1>2 DEF ServiceInv

\* The bound of the notification count in TypeOK is the account's: a
\* notification is a tracker.
LEMMA ServiceTypes == ServiceInv => TypeOK
<1> SUFFICES ASSUME TypeInv, TokenInv PROVE TypeOK
  BY DEF ServiceInv
<1>1. notified \in Nat
  BY DEF TypeInv
<1>2. CASE InFirstLoop
  <2>1. notified <= 1
    BY <1>1, <1>2, TrackersNat DEF TokenInv
  <2>2. notified \in 0..2
    BY <1>1, <2>1
  <2> QED BY <2>2 DEF TypeInv, TypeOK
<1>3. CASE ~InFirstLoop
  <2>1. Trackers <= 2
    BY <1>3, TrackersNat DEF TokenInv
  <2>2. /\ Count(Dropping) \in {0, 1} /\ Count(Backing) \in {0, 1}
        /\ Count(reconnectBit) \in {0, 1}
    BY TrackersNat
  <2>3. notified \in 0..2
    BY <1>1, <2>1, <2>2 DEF Trackers
  <2> QED BY <2>3 DEF TypeInv, TypeOK
<1> QED BY <1>2, <1>3

\* A parked client that nobody wakes has no tracker, which the account allows
\* only after the race, with the notification of start() given.
LEMMA StrandedAfterNotice ==
    ServiceInv => (Stranded => startRaced /\ caller # "notify")
<1> SUFFICES ASSUME StageInv, ExactAccount, Stranded
             PROVE  startRaced /\ caller # "notify"
  BY DEF ServiceInv, TokenInv
<1>1. ~InFirstLoop
  BY DEF Stranded, StageInv, InFirstLoop
<1>2. Count(Dropping) = 0 /\ Count(Backing) = 0 /\ Count(reconnectBit) = 0
  BY DEF Stranded, Dropping, Count
<1>3. notified = 0 /\ client = "parked"
  BY DEF Stranded
<1>4. Trackers = 0
  BY <1>2, <1>3 DEF Trackers
<1>5. Count(client = "parked") = 1
  BY <1>3 DEF Count
<1> QED BY <1>1, <1>4, <1>5 DEF ExactAccount

\* Only after the race.
LEMMA ServiceStranded == ServiceInv => StrandedOnlyByStartRace
BY StrandedAfterNotice DEF StrandedOnlyByStartRace

\* The properties that are parts of the invariant.
LEMMA ServiceParts == ServiceInv => FlagFollowsClient /\ OneRetryPerDrop
BY DEF ServiceInv, FlagInv, TokenInv, ExactAccount, OneRetryPerDrop

----------------------------------------------------------------------------
(* The service implements BrokerRetry.                                     *)

\* A step that leaves the client alone, and wakes nobody who was stranded, keeps
\* the retry due, or forgets it because the start raced.
LEMMA DueOrForgotten ==
    ASSUME TypeInv, TypeInv', StrandedOnlyByStartRace',
           UNCHANGED <<client, startRaced>>, Stranded => Stranded'
    PROVE  [Retries!Next]_(Retries!retryVars)
<1> DEFINE due == client = "parked" /\ ~Stranded
<1>1. due \in BOOLEAN /\ due' \in BOOLEAN
  OBVIOUS
<1>2. due' => due
  BY DEF Stranded
<1>3. CASE due /\ ~due'
  <2>1. client = "parked" /\ startRaced
    BY <1>3 DEF StrandedOnlyByStartRace
  <2>2. Retries!Forget
    BY <1>3, <2>1 DEF Retries!Forget
  <2> QED BY <2>2 DEF Retries!Next
<1>4. CASE due' = due
  BY <1>4 DEF Retries!retryVars
<1> QED BY <1>1, <1>2, <1>3, <1>4

\* A step of the service is a step of BrokerRetry, or none.
LEMMA BrokerRetryStep ==
    ASSUME ServiceInv, ServiceInv', StrandedOnlyByStartRace', [Next]_vars
    PROVE  [Retries!Next]_(Retries!retryVars)
<1>types. TypeInv /\ TypeInv' /\ StageInv /\ StageInv'
  BY DEF ServiceInv
<1> USE DEF Retries!Next
<1>quiet. ASSUME UNCHANGED <<client, startRaced>>, Stranded => Stranded'
          PROVE  [Retries!Next]_(Retries!retryVars)
  BY <1>types, <1>quiet, DueOrForgotten
<1>1. CASE CreateClient
  <2>1. Retries!Create
    BY <1>1 DEF CreateClient, serviceVars, Retries!Create, Stranded
  <2> QED BY <2>1
<1>2. CASE CheckStarted
  <2>1. client = "idle" /\ UNCHANGED client /\ ~startRaced
    BY <1>2, <1>types DEF CheckStarted, clientVars, StageInv, InFirstLoop
  <2>2. CASE startRaced'
    <3>1. startRaced' = TRUE
      BY <2>2, <1>types DEF TypeInv
    <3>2. Retries!Race
      BY <2>1, <3>1 DEF Retries!Race
    <3> QED BY <3>2
  <2>3. CASE ~startRaced'
    <3>1. UNCHANGED startRaced
      BY <2>1, <2>3, <1>types DEF TypeInv
    <3> QED BY <2>1, <3>1, <1>quiet DEF Stranded
  <2> QED BY <2>2, <2>3
<1>3. CASE StartClient
  <2>1. client = "idle"
    BY <1>3, <1>types DEF StartClient, StageInv
  <2>2. Retries!Begin
    BY <1>3, <2>1 DEF StartClient, Retries!Begin
  <2> QED BY <2>2
<1>4. CASE ConnectSucceeds
  <2>1. Retries!Connect
    BY <1>4 DEF ConnectSucceeds, serviceVars, Retries!Connect
  <2> QED BY <2>1
<1>5. CASE Abort \/ HonourDisconnect \/ (BirthFails /\ client' = "parked")
  <2>1. /\ client \in {"connecting", "connected"} /\ client' = "parked"
        /\ handler' = "disconnected" /\ UNCHANGED startRaced
    BY <1>5, <1>types DEF Abort, HonourDisconnect, BirthFails, serviceVars, StageInv
  <2>2. Retries!Lose
    BY <2>1 DEF Retries!Lose, Stranded
  <2> QED BY <2>2
<1>6. CASE BeginReconnect
  <2>1. /\ client = "parked" /\ reconnectBit /\ client' = "connecting"
        /\ UNCHANGED startRaced
    BY <1>6 DEF BeginReconnect, serviceVars
  <2>2. Retries!Retry
    BY <2>1 DEF Retries!Retry, Stranded
  <2> QED BY <2>2
<1>7. CASE CreateTask
  BY <1>7, <1>quiet, <1>types DEF CreateTask, clientVars, StageInv, Stranded
<1>8. CASE NotifyStart
  <2>1. ~Stranded
    BY <1>8, StrandedAfterNotice DEF NotifyStart
  <2> QED BY <1>8, <2>1, <1>quiet DEF NotifyStart, clientVars, serviceVars
<1>9. CASE Start \/ SeesConnected \/ RequestDisconnect
  BY <1>9, <1>quiet DEF Start, SeesConnected, RequestDisconnect, clientVars, serviceVars,
                        Stranded, Backing
<1>10. CASE AwaitStart
  BY <1>10, <1>quiet, <1>types DEF AwaitStart, clientVars, StageInv, Stranded
<1>11. CASE Take \/ TakeMiscounted
  <2>1. notified # 0
    BY <1>11 DEF Take, TakeMiscounted, WakesOn
  <2> QED BY <1>11, <2>1, <1>quiet DEF Take, TakeMiscounted, clientVars, serviceVars, Stranded
<1>12. CASE DelayEnds \/ Reconnect
  BY <1>12, <1>quiet DEF DelayEnds, Reconnect, clientVars, Stranded, Backing
<1>13. CASE LoadBackoff \/ StoreBackoff
  BY <1>13, <1>quiet DEF LoadBackoff, StoreBackoff, clientVars, Stranded, Backing
<1>14. CASE TransportError
  BY <1>14, <1>quiet DEF TransportError, serviceVars, Stranded
<1>15. CASE EventHandler /\ ~(BirthFails /\ client' = "parked")
  <2>1. handler # "none" /\ ~Stranded
    BY <1>15 DEF EventHandler, StoreConnected, ResetBackoff, BirthSent, BirthFails,
                 SubscribeFails, ConnectCallback, OnError, StoreDisconnected, DropCallback,
                 NotifyDisconnect, HandlerReturns, Stranded
  <2>2. UNCHANGED <<client, startRaced>>
    BY <1>15, <1>types DEF EventHandler, StoreConnected, ResetBackoff, BirthSent,
                 BirthFails, SubscribeFails, ConnectCallback, OnError, StoreDisconnected,
                 DropCallback, NotifyDisconnect, HandlerReturns, serviceVars, StageInv
  <2> QED BY <2>1, <2>2, <1>quiet
<1>16. CASE Waits \/ UNCHANGED vars
  BY <1>16, <1>quiet DEF Waits, vars, clientVars, serviceVars, Stranded, Backing
<1> QED BY <1>1, <1>2, <1>3, <1>4, <1>5, <1>6, <1>7, <1>8, <1>9, <1>10, <1>11, <1>12,
           <1>13, <1>14, <1>15, <1>16 DEF Next, MainTask, WifiTask, ServiceTask, Client

\* BrokerRetry without its fairness.
RetrySteps == Retries!Init /\ [][Retries!Next]_(Retries!retryVars)

----------------------------------------------------------------------------
(* The theorems, for every initial and every largest backoff.              *)

\* The invariant, wherever the service takes its steps ...
LEMMA ServiceHolds == Steps => []ServiceInv
BY ServiceAtBoot, ServiceKept, PTL DEF Steps

\* The refinement, likewise ...
LEMMA RetriesBroker == Steps => RetrySteps
<1>1. Init => Retries!Init
  BY DEF Init, Retries!Init
<1>2. ServiceInv /\ ServiceInv' /\ StrandedOnlyByStartRace' /\ [Next]_vars
         => [Retries!Next]_(Retries!retryVars)
  BY BrokerRetryStep
<1> QED BY <1>1, <1>2, ServiceHolds, ServiceStranded, PTL DEF Steps, RetrySteps

\* ... and in every behaviour of the service.
THEOREM ServiceInvariant == Spec => []ServiceInv
<1>1. Spec => Steps
  BY PTL DEF Spec, Steps
<1> QED BY <1>1, ServiceHolds, PTL

\* Every variable keeps its type; at most two notifications are ever pending.
THEOREM TypeCorrect == Spec => []TypeOK
BY ServiceTypes, ServiceInvariant, PTL

\* FlagFollowsClient: between two events, isConnected() is the state of the
\* client.
THEOREM FlagCorrect == Spec => []FlagFollowsClient
BY ServiceParts, ServiceInvariant, PTL

\* OneRetryPerDrop: without the race of start(), a parked client is tracked
\* once, and nothing else is.
THEOREM OneRetry == Spec => []OneRetryPerDrop
BY ServiceParts, ServiceInvariant, PTL

\* StrandedOnlyByStartRace: only the race of start() with the first loop can
\* leave a parked client that nobody wakes.
THEOREM StrandedByRace == Spec => []StrandedOnlyByStartRace
BY ServiceStranded, ServiceInvariant, PTL

\* The safety part of ImplementsBrokerRetry: the four tasks never lose, double or
\* invent the retry of a lost connection, unless the start raced.
THEOREM BrokerRetryImplemented ==
    Spec => Retries!Init /\ [][Retries!Next]_(Retries!retryVars)
<1>1. Spec => Steps
  BY PTL DEF Spec, Steps
<1> QED BY <1>1, RetriesBroker, PTL DEF RetrySteps
=============================================================================
