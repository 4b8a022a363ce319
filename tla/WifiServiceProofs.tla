------------------------- MODULE WifiServiceProofs -------------------------
(***************************************************************************)
(* What WifiService guarantees for every queue length and every number of  *)
(* attempts.                                                               *)
(***************************************************************************)
EXTENDS WifiService, SequenceTheorems, TLAPS

\* The specification without its fairness, which no safety property needs: a
\* system that contains the service takes its steps, as module Node does.
Steps == Init /\ [][Next]_vars

\* Fairness is all that the specification adds.
LEMMA SpecTakesSteps == Spec => Steps
BY PTL DEF Spec, Steps

\* Whatever event is posted, the queue stays a queue of events that fits, and
\* an event that does not fit is recorded as dropped.
LEMMA PostType ==
    ASSUME TypeOK, NEW e \in Event, Post(e)
    PROVE  /\ queue' \in Seq(Event) /\ Len(queue') <= EventQueueSize
           /\ dropped' \in BOOLEAN
<1>1. CASE HasRoom /\ queue' = Append(queue, e) /\ UNCHANGED dropped
  <2>1. /\ Append(queue, e) \in Seq(Event)
        /\ Len(Append(queue, e)) = Len(queue) + 1
    BY DEF TypeOK
  <2>2. Len(queue) + 1 <= EventQueueSize
    BY <1>1, WifiConstants DEF TypeOK, HasRoom
  <2>3. dropped' \in BOOLEAN
    BY <1>1 DEF TypeOK
  <2> QED BY <1>1, <2>1, <2>2, <2>3
<1>2. CASE ~HasRoom /\ dropped' = TRUE /\ UNCHANGED queue
  BY <1>2 DEF TypeOK
<1> QED BY <1>1, <1>2 DEF Post

\* Every variable keeps its type, the queue its bound and the attempts theirs.
LEMMA TypesHold == Steps => []TypeOK
<1>1. Init => TypeOK
  <2> SUFFICES ASSUME Init PROVE TypeOK
    OBVIOUS
  <2>1. queue \in Seq(Event) /\ Len(queue) = 0
    BY DEF Init
  <2>2. 0 <= EventQueueSize /\ m_reconnect_attempts \in 0..MaxAttempts
    BY WifiConstants DEF Init
  <2> QED BY <2>1, <2>2 DEF Init, TypeOK
<1>2. TypeOK /\ [Next]_vars => TypeOK'
  <2> SUFFICES ASSUME TypeOK, [Next]_vars PROVE TypeOK'
    OBVIOUS
  <2>1. CASE Boot
    <3>1. CASE Connect
      <4>1. Post("sta_start")
        BY <3>1 DEF Connect
      <4>2. /\ queue' \in Seq(Event) /\ Len(queue') <= EventQueueSize
            /\ dropped' \in BOOLEAN
        BY <4>1, PostType DEF Event
      <4> QED BY <3>1, <4>2 DEF TypeOK, Connect, view
    <3>2. CASE Initialize \/ InitializeFails \/ SetInitialized \/ SetReconnect \/ ConnectFails
      BY <3>2 DEF TypeOK, Initialize, InitializeFails, SetInitialized,
                  SetReconnect, ConnectFails, view
    <3> QED BY <2>1, <3>1, <3>2 DEF Boot
  <2>2. CASE Task
    <3>1. CASE Receive
      <4>1. /\ Head(queue) \in Event /\ Tail(queue) \in Seq(Event)
            /\ Len(Tail(queue)) = Len(queue) - 1
        BY <3>1 DEF Receive, TypeOK
      <4>2. /\ m_connected' \in BOOLEAN /\ m_should_reconnect' \in BOOLEAN
            /\ m_reconnect_attempts' \in 0..MaxAttempts
        <5>1. CASE HandleStaStart
          BY <5>1 DEF HandleStaStart, TypeOK
        <5>2. CASE HandleGotIp
          <6>1. 0 \in 0..MaxAttempts
            BY WifiConstants
          <6> QED BY <5>2, <6>1 DEF HandleGotIp
        <5>3. CASE HandleDisconnected
          BY <5>3 DEF HandleDisconnected, TypeOK
        <5> QED BY <3>1, <5>1, <5>2, <5>3 DEF Receive, HandleWifiEvent
      <4> QED BY <3>1, <4>1, <4>2, WifiConstants DEF Receive, TypeOK
    <3>2. CASE Reconnect
      <4>1. m_reconnect_attempts + 1 \in 0..MaxAttempts
        BY <3>2, WifiConstants DEF Reconnect, MayRetry, TypeOK
      <4>2. link' \in {"off", "idle", "connecting", "up"}
        BY <3>2 DEF Reconnect, Associate, TypeOK
      <4> QED BY <3>2, <4>1, <4>2 DEF Reconnect, TypeOK
    <3>3. CASE Callback \/ ReceiveTimesOut \/ GiveUp \/ SkipReconnect
      BY <3>3 DEF Callback, ReceiveTimesOut, GiveUp, SkipReconnect, TypeOK, view
    <3> QED BY <2>2, <3>1, <3>2, <3>3 DEF Task
  <2>3. CASE RetryIntervalElapses
    BY <2>3 DEF RetryIntervalElapses, TypeOK, view
  <2>4. CASE Driver
    <3>1. \/ \E e \in {"got_ip", "disconnected"} : Post(e)
          \/ UNCHANGED <<queue, dropped>>
      BY <2>4 DEF Driver, GetIp, AssociationFails, LinkLost, AddressChanges, PostAddress
    <3>2. /\ queue' \in Seq(Event) /\ Len(queue') <= EventQueueSize
          /\ dropped' \in BOOLEAN
      BY <3>1, PostType DEF Event, TypeOK
    <3> QED
      BY <2>4, <3>2 DEF Driver, GetIp, AssociationFails, LinkLost,
                        AddressChanges, TypeOK, view
  <2>5. CASE Halted \/ UNCHANGED vars
    BY <2>5 DEF Halted, vars, view, TypeOK
  <2> QED BY <2>1, <2>2, <2>3, <2>4, <2>5 DEF Next
<1> QED BY <1>1, <1>2, PTL DEF Steps

----------------------------------------------------------------------------
(* The view of the link.                                                   *)

\* Posting a link event that tells the truth makes the queue tell it.
LEMMA AgreesAfterLinkEvent ==
    ASSUME NEW q \in Seq(Event), NEW e \in {"got_ip", "disconnected"},
           NEW up \in BOOLEAN, NEW c \in BOOLEAN, up <=> e = "got_ip"
    PROVE  Agrees(Append(q, e), up, c)
<1> DEFINE r == Append(q, e)
<1>1. /\ Len(r) = Len(q) + 1 /\ Len(q) \in Nat
      /\ r[Len(q) + 1] = e
  OBVIOUS
<1>2. ASSUME NEW i \in 1..Len(r), Newest(r, i) PROVE i = Len(q) + 1
  <2> SUFFICES ASSUME i # Len(q) + 1 PROVE FALSE
    OBVIOUS
  <2>1. Len(q) + 1 \in (i + 1)..Len(r)
    BY <1>1
  <2>2. IsLinkEvent(r[Len(q) + 1])
    BY <1>1 DEF IsLinkEvent
  <2> QED BY <1>2, <2>1, <2>2 DEF Newest
<1>3. Len(q) + 1 \in 1..Len(r) /\ IsLinkEvent(r[Len(q) + 1])
  BY <1>1 DEF IsLinkEvent
<1> QED BY <1>1, <1>2, <1>3 DEF Agrees

\* STA_START says nothing about the link.
LEMMA AgreesAfterStaStart ==
    ASSUME NEW q \in Seq(Event), NEW up \in BOOLEAN, NEW c \in BOOLEAN,
           Agrees(q, up, c)
    PROVE  Agrees(Append(q, "sta_start"), up, c)
<1> DEFINE r == Append(q, "sta_start")
<1>1. /\ Len(r) = Len(q) + 1 /\ Len(q) \in Nat
      /\ r[Len(q) + 1] = "sta_start" /\ ~IsLinkEvent(r[Len(q) + 1])
      /\ \A i \in 1..Len(q) : r[i] = q[i]
  BY DEF IsLinkEvent
<1>2. ASSUME NEW i \in 1..Len(r), Newest(r, i) PROVE i \in 1..Len(q) /\ Newest(q, i)
  <2>1. i # Len(q) + 1
    BY <1>1, <1>2 DEF Newest
  <2>2. i \in 1..Len(q)
    BY <1>1, <2>1
  <2>3. \A j \in (i + 1)..Len(q) : j \in (i + 1)..Len(r) /\ j \in 1..Len(q)
    BY <1>1, <2>2
  <2> QED BY <1>1, <1>2, <2>2, <2>3 DEF Newest
<1>3. (\A i \in 1..Len(r) : ~IsLinkEvent(r[i])) => \A i \in 1..Len(q) : ~IsLinkEvent(q[i])
  <2>1. \A i \in 1..Len(q) : i \in 1..Len(r)
    BY <1>1
  <2> QED BY <1>1, <2>1
<1> QED BY <1>1, <1>2, <1>3 DEF Agrees

\* Handling the oldest event moves its news from the queue to the view.
ViewOf(e, c) == IF e = "got_ip" THEN TRUE ELSE IF e = "disconnected" THEN FALSE ELSE c

\* The view and what is left of the queue agree as the two did before.
LEMMA AgreesAfterReceive ==
    ASSUME NEW q \in Seq(Event), q # <<>>, NEW up \in BOOLEAN, NEW c \in BOOLEAN,
           Agrees(q, up, c)
    PROVE  Agrees(Tail(q), up, ViewOf(Head(q), c))
<1> DEFINE r == Tail(q)
<1>1. /\ Len(q) \in Nat \ {0} /\ Len(r) = Len(q) - 1 /\ Head(q) = q[1]
      /\ \A i \in 1..Len(r) : r[i] = q[i + 1]
  OBVIOUS
<1>2. ASSUME NEW i \in 1..Len(r), Newest(r, i) PROVE i + 1 \in 1..Len(q) /\ Newest(q, i + 1)
  <2>1. i + 1 \in 1..Len(q) /\ IsLinkEvent(q[i + 1])
    BY <1>1, <1>2 DEF Newest
  <2>2. ASSUME NEW j \in (i + 2)..Len(q) PROVE ~IsLinkEvent(q[j])
    <3>1. j - 1 \in (i + 1)..Len(r) /\ j - 1 \in 1..Len(r) /\ (j - 1) + 1 = j
      BY <1>1
    <3> QED BY <1>1, <1>2, <3>1 DEF Newest
  <2>3. (i + 1) + 1 = i + 2
    BY <1>1
  <2> QED BY <2>1, <2>2, <2>3 DEF Newest
<1>3. ASSUME \A i \in 1..Len(r) : ~IsLinkEvent(r[i])
      PROVE  up <=> ViewOf(Head(q), c)
  <2>1. ASSUME NEW j \in 2..Len(q) PROVE ~IsLinkEvent(q[j])
    <3>1. j - 1 \in 1..Len(r) /\ (j - 1) + 1 = j
      BY <1>1
    <3> QED BY <1>1, <1>3, <3>1
  <2>2. 1 \in 1..Len(q) /\ 1 + 1 = 2
    BY <1>1
  <2>3. CASE IsLinkEvent(q[1])
    <3>1. Newest(q, 1)
      BY <2>1, <2>2, <2>3 DEF Newest
    <3>2. up <=> q[1] = "got_ip"
      BY <2>2, <3>1 DEF Agrees
    <3> QED BY <1>1, <2>3, <3>2 DEF IsLinkEvent, ViewOf
  <2>4. CASE ~IsLinkEvent(q[1])
    <3>1. ASSUME NEW j \in 1..Len(q) PROVE ~IsLinkEvent(q[j])
      <4>1. j = 1 \/ j \in 2..Len(q)
        BY <1>1
      <4> QED BY <2>1, <2>4, <4>1
    <3>2. up <=> c
      BY <3>1 DEF Agrees
    <3> QED BY <1>1, <2>4, <3>2 DEF IsLinkEvent, ViewOf
  <2> QED BY <2>3, <2>4
<1>4. ASSUME NEW i \in 1..Len(r), Newest(r, i) PROVE up <=> r[i] = "got_ip"
  BY <1>1, <1>2, <1>4 DEF Agrees
<1> QED BY <1>3, <1>4 DEF Agrees

\* The radio is off, and the queue empty, until connect() succeeds.
RadioOff == boot # "started" => (link = "off" /\ queue = <<>>)

\* Nothing but connect() turns the radio on.
LEMMA RadioStaysOff == Steps => []RadioOff
<1>1. Init => RadioOff
  BY DEF Init, RadioOff
<1>2. TypeOK /\ RadioOff /\ [Next]_vars => RadioOff'
  <2> SUFFICES ASSUME TypeOK, RadioOff, [Next]_vars PROVE RadioOff'
    OBVIOUS
  <2>1. CASE Boot
    BY <2>1 DEF Boot, Initialize, InitializeFails, SetInitialized, SetReconnect,
                Connect, ConnectFails, RadioOff
  <2>2. CASE Task
    <3>1. CASE Receive
      BY <3>1 DEF Receive, RadioOff
    <3>2. CASE ~Receive
      BY <2>2, <3>2 DEF Task, Callback, ReceiveTimesOut, Reconnect, Associate,
                        GiveUp, SkipReconnect, RadioOff
    <3> QED BY <3>1, <3>2
  <2>3. CASE Driver
    BY <2>3 DEF Driver, GetIp, AssociationFails, LinkLost, AddressChanges, RadioOff
  <2>4. CASE RetryIntervalElapses \/ Halted \/ UNCHANGED vars
    BY <2>4 DEF RetryIntervalElapses, Halted, vars, RadioOff
  <2> QED BY <2>1, <2>2, <2>3, <2>4 DEF Next
<1> QED BY <1>1, <1>2, TypesHold, PTL DEF Steps

\* A post adds what it posts.
LEMMA QueuedAfterAppend ==
    ASSUME NEW q \in Seq(Event), NEW e \in Event
    PROVE  AddressQueued(Append(q, e)) <=> (e = "got_ip" \/ AddressQueued(q))
<1> DEFINE r == Append(q, e)
<1>1. /\ Len(q) \in Nat /\ Len(r) = Len(q) + 1 /\ r[Len(q) + 1] = e
      /\ \A i \in 1..Len(q) : r[i] = q[i]
  OBVIOUS
<1>2. /\ Len(q) + 1 \in 1..Len(r)
      /\ \A i \in 1..Len(r) : i = Len(q) + 1 \/ i \in 1..Len(q)
      /\ \A i \in 1..Len(q) : i \in 1..Len(r)
  BY <1>1
<1> HIDE DEF r
<1> QED BY <1>1, <1>2 DEF AddressQueued, r

\* An address that was queued is the one handled, or still queued.
LEMMA QueuedAfterReceive ==
    ASSUME NEW q \in Seq(Event), q # <<>>
    PROVE  /\ Head(q) = "got_ip" => AddressQueued(q)
           /\ Head(q) # "got_ip" => (AddressQueued(Tail(q)) <=> AddressQueued(q))
<1> DEFINE r == Tail(q)
<1>1. /\ Len(q) \in Nat \ {0} /\ Len(r) = Len(q) - 1 /\ Head(q) = q[1]
      /\ \A i \in 1..Len(r) : r[i] = q[i + 1]
  OBVIOUS
<1>2. 1 \in 1..Len(q) /\ \A i \in 1..Len(r) : i + 1 \in 1..Len(q)
  BY <1>1
<1>3. ASSUME NEW i \in 1..Len(q), i # 1 PROVE i - 1 \in 1..Len(r) /\ r[i - 1] = q[i]
  <2>1. i - 1 \in 1..Len(r) /\ (i - 1) + 1 = i
    BY <1>1, <1>3
  <2> QED BY <1>1, <2>1
<1> HIDE DEF r
<1> QED BY <1>1, <1>2, <1>3 DEF AddressQueued, r

\* A service that registered no handler for the address is told of none.
Deafness ==
    /\ boot = "new" => deaf = FALSE
    /\ deaf => ~AddressQueued(queue)

\* Only initialize() loses the handler, and the queue is empty then.
LEMMA DeafnessHolds == Steps => []Deafness
<1>1. Init => Deafness
  BY DEF Init, Deafness
<1>2. TypeOK /\ RadioOff /\ Deafness /\ [Next]_vars => Deafness'
  <2> SUFFICES ASSUME TypeOK, RadioOff, Deafness, [Next]_vars PROVE Deafness'
    OBVIOUS
  <2>q. queue \in Seq(Event)
    BY DEF TypeOK
  <2>1. CASE UNCHANGED <<boot, deaf, queue>> \/ (boot' # "new" /\ UNCHANGED <<deaf, queue>>)
    BY <2>1 DEF Deafness
  <2>2. CASE Initialize
    <3>1. queue' = <<>> /\ boot' # "new"
      BY <2>2 DEF Initialize, RadioOff
    <3>2. ~AddressQueued(queue)'
      BY <3>1 DEF AddressQueued
    <3> QED BY <3>1, <3>2 DEF Deafness
  <2>3. ASSUME NEW e \in Event, Post(e), UNCHANGED deaf, boot' # "new", deaf => e # "got_ip"
        PROVE  Deafness'
    <3>1. queue' \in {queue, Append(queue, e)}
      BY <2>3 DEF Post
    <3>2. deaf => ~AddressQueued(queue)'
      BY <2>q, <2>3, <3>1, QueuedAfterAppend DEF Deafness
    <3> QED BY <2>3, <3>2 DEF Deafness
  <2>4. CASE Connect
    BY <2>3, <2>4 DEF Connect, Event
  <2>5. CASE Receive
    <3>1. queue # <<>> /\ queue' = Tail(queue) /\ UNCHANGED <<boot, deaf>>
      BY <2>5 DEF Receive
    <3>2. deaf => ~AddressQueued(queue)'
      BY <2>q, <3>1, QueuedAfterReceive DEF Deafness
    <3> QED BY <3>1, <3>2 DEF Deafness
  <2>6. CASE Driver
    <3>1. boot' # "new" /\ UNCHANGED deaf
      BY <2>6 DEF Driver, GetIp, AssociationFails, LinkLost, AddressChanges, RadioOff
    <3>2. CASE GetIp \/ AddressChanges
      BY <2>1, <2>3, <3>1, <3>2 DEF GetIp, AddressChanges, PostAddress, Event
    <3>3. CASE AssociationFails \/ LinkLost
      BY <2>3, <3>1, <3>3 DEF AssociationFails, LinkLost, Event
    <3> QED BY <2>6, <3>2, <3>3 DEF Driver
  <2>7. CASE Boot /\ ~Initialize /\ ~Connect
    BY <2>1, <2>7 DEF Boot, InitializeFails, SetInitialized, SetReconnect, ConnectFails
  <2>8. CASE Task /\ ~Receive
    BY <2>1, <2>8 DEF Task, Callback, ReceiveTimesOut, Reconnect, GiveUp, SkipReconnect
  <2>9. CASE RetryIntervalElapses \/ Halted \/ UNCHANGED vars
    BY <2>1, <2>9 DEF RetryIntervalElapses, Halted, vars
  <2> QED BY <2>2, <2>4, <2>5, <2>6, <2>7, <2>8, <2>9 DEF Next, Boot
<1> QED BY <1>1, <1>2, TypesHold, RadioStaysOff, PTL DEF Steps

\* ViewAfterDrain for every queue length: what m_connected will be once the
\* queue is drained is the state of the link, as long as nothing was dropped and
\* the node hears of its addresses.
LEMMA ViewHolds == Steps => []ViewAfterDrain
<1>1. Init => ViewAfterDrain
  BY DEF Init, ViewAfterDrain, Agrees
<1>2. TypeOK /\ RadioOff /\ Deafness /\ ViewAfterDrain /\ [Next]_vars => ViewAfterDrain'
  <2> SUFFICES ASSUME TypeOK, RadioOff, Deafness, ViewAfterDrain, [Next]_vars,
                      ~dropped', ~deaf'
               PROVE  Agrees(queue', link' = "up", m_connected')
    BY DEF ViewAfterDrain
  <2>d. ~deaf
    BY DEF Next, Boot, Initialize, InitializeFails, SetInitialized, SetReconnect, Connect,
           ConnectFails, Task, Receive, Callback, ReceiveTimesOut, Reconnect, GiveUp,
           SkipReconnect, RetryIntervalElapses, Driver, GetIp, AssociationFails, LinkLost,
           AddressChanges, Halted, vars, Deafness
  <2>q. queue \in Seq(Event) /\ m_connected \in BOOLEAN
    BY DEF TypeOK
  <2>1. CASE UNCHANGED <<queue, dropped, m_connected>> /\ (link' = "up" <=> link = "up")
    <3>1. (link' = "up") = (link = "up") /\ queue' = queue /\ m_connected' = m_connected
      BY <2>1
    <3>2. Agrees(queue, link = "up", m_connected)
      BY <2>1, <2>d DEF ViewAfterDrain
    <3> QED BY <3>1, <3>2
  <2>2. CASE Connect
    <3>1. /\ ~dropped /\ queue' = Append(queue, "sta_start")
          /\ m_connected' = m_connected
          /\ (link' = "up") = (link = "up")
      BY <2>2 DEF Connect, Post, RadioOff, view
    <3>2. Agrees(queue, link = "up", m_connected)
      BY <3>1, <2>d DEF ViewAfterDrain
    <3> QED BY <2>q, <3>1, <3>2, AgreesAfterStaStart
  <2>3. CASE Receive
    <3>1. /\ ~dropped /\ queue # <<>> /\ queue' = Tail(queue)
          /\ (link' = "up") = (link = "up")
      BY <2>3 DEF Receive
    <3>2. m_connected' = ViewOf(Head(queue), m_connected)
      BY <2>3 DEF Receive, HandleWifiEvent, HandleStaStart, HandleGotIp,
                  HandleDisconnected, ViewOf
    <3>3. Agrees(queue, link = "up", m_connected)
      BY <3>1, <2>d DEF ViewAfterDrain
    <3> QED BY <2>q, <3>1, <3>2, <3>3, AgreesAfterReceive
  <2>4. CASE Driver
    <3>1. PICK e \in {"got_ip", "disconnected"} :
             queue' = Append(queue, e) /\ (link' = "up" <=> e = "got_ip")
      BY <2>4, <2>d DEF Driver, GetIp, AssociationFails, LinkLost, AddressChanges,
                        PostAddress, Post
    <3>2. m_connected' = m_connected
      BY <2>4 DEF Driver, GetIp, AssociationFails, LinkLost, AddressChanges, view
    <3> QED BY <2>q, <3>1, <3>2, AgreesAfterLinkEvent
  <2>5. CASE Boot /\ ~Connect
    BY <2>1, <2>5 DEF Boot, Initialize, InitializeFails, SetInitialized,
                      SetReconnect, ConnectFails, view
  <2>6. CASE Task /\ ~Receive
    BY <2>1, <2>6 DEF Task, Callback, ReceiveTimesOut, Reconnect, Associate,
                      GiveUp, SkipReconnect, view
  <2>7. CASE RetryIntervalElapses \/ Halted \/ UNCHANGED vars
    BY <2>1, <2>7 DEF RetryIntervalElapses, Halted, vars, view
  <2> QED BY <2>2, <2>3, <2>4, <2>5, <2>6, <2>7 DEF Next
<1> QED BY <1>1, <1>2, TypesHold, RadioStaysOff, DeafnessHolds, PTL DEF Steps

----------------------------------------------------------------------------
(* Giving up.                                                              *)

\* NotRetryingMeansSpent for every number of attempts: between initialize()
\* and an address, only the spent budget stops the retries.
LEMMA RetryingHolds == Steps => []NotRetryingMeansSpent
<1>1. Init => NotRetryingMeansSpent
  BY DEF Init, NotRetryingMeansSpent
<1>2. TypeOK /\ NotRetryingMeansSpent /\ [Next]_vars => NotRetryingMeansSpent'
  <2> SUFFICES ASSUME TypeOK, NotRetryingMeansSpent, [Next]_vars
               PROVE  NotRetryingMeansSpent'
    OBVIOUS
  <2>1. CASE Boot
    BY <2>1 DEF Boot, Initialize, InitializeFails, SetInitialized, SetReconnect,
                Connect, ConnectFails, view, NotRetryingMeansSpent
  <2>2. CASE Receive
    BY <2>2 DEF Receive, HandleWifiEvent, HandleStaStart, HandleGotIp,
                HandleDisconnected, NotRetryingMeansSpent
  <2>3. CASE GiveUp
    <3>1. m_reconnect_attempts' = MaxAttempts
      BY <2>3, WifiConstants DEF GiveUp, BudgetSpent, TypeOK
    <3> QED BY <3>1 DEF NotRetryingMeansSpent
  <2>4. CASE Reconnect
    BY <2>4 DEF Reconnect, WantsReconnect, NotRetryingMeansSpent
  <2>5. CASE Callback \/ ReceiveTimesOut \/ SkipReconnect
    BY <2>5 DEF Callback, ReceiveTimesOut, SkipReconnect, view, NotRetryingMeansSpent
  <2>6. CASE RetryIntervalElapses \/ Driver
    BY <2>6 DEF RetryIntervalElapses, Driver, GetIp, AssociationFails, LinkLost,
                AddressChanges, view, NotRetryingMeansSpent
  <2>7. CASE Halted \/ UNCHANGED vars
    BY <2>7 DEF Halted, vars, NotRetryingMeansSpent
  <2> QED BY <2>1, <2>2, <2>3, <2>4, <2>5, <2>6, <2>7 DEF Next, Task
<1> QED BY <1>1, <1>2, TypesHold, PTL DEF Steps

\* BudgetSpentIsFinal for every number of attempts: no step leaves GaveUp.
LEMMA SpentHolds == Steps => BudgetSpentIsFinal
<1>1. TypeOK /\ [Next]_vars => [GaveUp => GaveUp']_vars
  <2> SUFFICES ASSUME TypeOK, Next, GaveUp PROVE GaveUp'
    BY DEF vars, view, GaveUp
  <2>1. CASE Boot
    BY <2>1 DEF Boot, Initialize, InitializeFails, SetInitialized, SetReconnect,
                Connect, ConnectFails, GaveUp
  <2>2. CASE Receive
    <3>1. /\ queue' = Tail(queue) /\ Head(queue) = queue[1]
          /\ Len(queue) \in Nat \ {0} /\ Len(queue') = Len(queue) - 1
          /\ \A i \in 1..Len(queue') : queue'[i] = queue[i + 1]
      BY <2>2 DEF Receive, TypeOK
    <3>2. Head(queue) # "got_ip"
      BY <3>1 DEF GaveUp
    <3>3. \A i \in 1..Len(queue') : queue'[i] # "got_ip"
      BY <3>1 DEF GaveUp
    <3>4. UNCHANGED <<boot, link, m_reconnect_attempts>>
      BY <2>2, <3>2 DEF Receive, HandleWifiEvent, HandleStaStart, HandleDisconnected
    <3> QED BY <3>3, <3>4 DEF GaveUp
  <2>3. CASE Reconnect
    <3>1. FALSE
      BY <2>3, WifiConstants DEF Reconnect, MayRetry, GaveUp
    <3> QED BY <3>1
  <2>4. CASE Callback \/ ReceiveTimesOut \/ GiveUp \/ SkipReconnect
    BY <2>4 DEF Callback, ReceiveTimesOut, GiveUp, SkipReconnect, view, GaveUp
  <2>5. CASE RetryIntervalElapses \/ Driver
    BY <2>5 DEF RetryIntervalElapses, Driver, GetIp, AssociationFails, LinkLost,
                AddressChanges, view, GaveUp
  <2>6. CASE Halted
    BY <2>6 DEF Halted, vars, GaveUp
  <2> QED BY <2>1, <2>2, <2>3, <2>4, <2>5, <2>6 DEF Next, Task
<1> QED BY <1>1, TypesHold, PTL DEF Steps, BudgetSpentIsFinal

----------------------------------------------------------------------------
(* Four slots are enough.  Each event other than GOT_IP stands for a start *)
(* or for an association attempt that ended; an attempt still in progress, *)
(* or up, is outstanding too.  A new attempt comes from the service task,  *)
(* after it handled one of them, so at most two are outstanding; and       *)
(* between two of them there is room for one GOT_IP.                       *)

NoneOutstanding(q) == \A i \in 1..Len(q) : q[i] = "got_ip"

OneOutstanding(q) ==
    \A i, j \in 1..Len(q) : (q[i] # "got_ip" /\ q[j] # "got_ip") => i = j

TwoOutstanding(q) ==
    \A i, j, k \in 1..Len(q) :
        (i < j /\ j < k) => "got_ip" \in {q[i], q[j], q[k]}

AddressesApart(q) ==
    \A i, j \in 1..Len(q) : (j = i + 1 /\ q[i] = "got_ip") => q[j] # "got_ip"

Associated == link \in {"connecting", "up"}

AboutToRetry == pc \in {"callback", "reconnect"} /\ ~m_connected

FewOutstanding ==
    /\ AddressesApart(queue)
    /\ TwoOutstanding(queue)
    /\ (Associated \/ AboutToRetry) => OneOutstanding(queue)
    /\ (Associated /\ AboutToRetry) => NoneOutstanding(queue)

\* With one outstanding event and addresses apart, three slots are in use.
LEMMA ShortQueue ==
    ASSUME NEW q \in Seq(Event), AddressesApart(q), OneOutstanding(q)
    PROVE  Len(q) <= 3
<1> SUFFICES ASSUME Len(q) > 3 PROVE FALSE
  OBVIOUS
<1>1. /\ 1 \in 1..Len(q) /\ 2 \in 1..Len(q) /\ 3 \in 1..Len(q) /\ 4 \in 1..Len(q)
      /\ 2 = 1 + 1 /\ 4 = 3 + 1
  OBVIOUS
<1>2. PICK i \in {1, 2} : q[i] # "got_ip"
  BY <1>1 DEF AddressesApart
<1>3. PICK j \in {3, 4} : q[j] # "got_ip"
  BY <1>1 DEF AddressesApart
<1>4. i = j
  BY <1>1, <1>2, <1>3 DEF OneOutstanding
<1> QED BY <1>4

\* A loss ends an outstanding attempt and takes its place in the queue.
LEMMA OutstandingAfterLoss ==
    ASSUME NEW q \in Seq(Event), NEW e \in {"sta_start", "disconnected"},
           AddressesApart(q)
    PROVE  /\ AddressesApart(Append(q, e))
           /\ OneOutstanding(q) => TwoOutstanding(Append(q, e))
           /\ NoneOutstanding(q) => OneOutstanding(Append(q, e))
<1> DEFINE r == Append(q, e)
<1>1. /\ Len(q) \in Nat /\ Len(r) = Len(q) + 1 /\ r[Len(q) + 1] # "got_ip"
      /\ \A i \in 1..Len(q) : r[i] = q[i]
      /\ \A i \in 1..Len(r) : i \in 1..Len(q) \/ i = Len(q) + 1
  OBVIOUS
<1>2. AddressesApart(r)
  BY <1>1 DEF AddressesApart
<1>3. ASSUME OneOutstanding(q) PROVE TwoOutstanding(r)
  <2> SUFFICES ASSUME NEW i \in 1..Len(r), NEW j \in 1..Len(r), NEW k \in 1..Len(r),
                      i < j, j < k
               PROVE  "got_ip" \in {r[i], r[j]}
    BY DEF TwoOutstanding
  <2>1. i \in 1..Len(q) /\ j \in 1..Len(q) /\ i # j
    BY <1>1
  <2> QED BY <1>1, <1>3, <2>1 DEF OneOutstanding
<1>4. ASSUME NoneOutstanding(q) PROVE OneOutstanding(r)
  BY <1>1, <1>4 DEF NoneOutstanding, OneOutstanding
<1> QED BY <1>2, <1>3, <1>4

\* An address changes nothing about what is outstanding, and follows no other
\* address while the link was not up.
LEMMA OutstandingAfterAddress ==
    ASSUME NEW q \in Seq(Event), NEW c \in BOOLEAN,
           AddressesApart(q), q = <<>> \/ Agrees(q, FALSE, c)
    PROVE  /\ AddressesApart(Append(q, "got_ip"))
           /\ TwoOutstanding(q) => TwoOutstanding(Append(q, "got_ip"))
           /\ OneOutstanding(q) => OneOutstanding(Append(q, "got_ip"))
           /\ NoneOutstanding(q) => NoneOutstanding(Append(q, "got_ip"))
<1> DEFINE r == Append(q, "got_ip")
<1>1. /\ Len(q) \in Nat /\ Len(r) = Len(q) + 1 /\ r[Len(q) + 1] = "got_ip"
      /\ \A i \in 1..Len(q) : r[i] = q[i]
      /\ \A i \in 1..Len(r) : i \in 1..Len(q) \/ i = Len(q) + 1
  OBVIOUS
<1>2. Len(q) # 0 => q[Len(q)] # "got_ip"
  <2> SUFFICES ASSUME Len(q) # 0, q[Len(q)] = "got_ip" PROVE FALSE
    OBVIOUS
  <2>1. Len(q) \in 1..Len(q) /\ (Len(q) + 1)..Len(q) = {} /\ q # <<>>
    BY <1>1
  <2>2. Newest(q, Len(q))
    BY <2>1 DEF Newest, IsLinkEvent
  <2> QED BY <2>1, <2>2 DEF Agrees
<1>3. AddressesApart(r)
  <2> SUFFICES ASSUME NEW i \in 1..Len(r), NEW j \in 1..Len(r), j = i + 1,
                      r[i] = "got_ip"
               PROVE  r[j] # "got_ip"
    BY DEF AddressesApart
  <2>1. i \in 1..Len(q)
    BY <1>1
  <2>2. CASE j \in 1..Len(q)
    BY <1>1, <2>1, <2>2 DEF AddressesApart
  <2>3. CASE j = Len(q) + 1
    BY <1>1, <1>2, <2>1, <2>3
  <2> QED BY <1>1, <2>2, <2>3
<1>4. TwoOutstanding(q) => TwoOutstanding(r)
  <2> SUFFICES ASSUME TwoOutstanding(q),
                      NEW i \in 1..Len(r), NEW j \in 1..Len(r), NEW k \in 1..Len(r),
                      i < j, j < k
               PROVE  "got_ip" \in {r[i], r[j], r[k]}
    BY DEF TwoOutstanding
  <2>1. CASE k = Len(q) + 1
    BY <1>1, <2>1
  <2>2. CASE k \in 1..Len(q)
    <3>1. i \in 1..Len(q) /\ j \in 1..Len(q)
      BY <1>1, <2>2
    <3> QED BY <1>1, <2>2, <3>1 DEF TwoOutstanding
  <2> QED BY <1>1, <2>1, <2>2
<1>5. OneOutstanding(q) => OneOutstanding(r)
  BY <1>1 DEF OneOutstanding
<1>6. NoneOutstanding(q) => NoneOutstanding(r)
  BY <1>1 DEF NoneOutstanding
<1> QED BY <1>3, <1>4, <1>5, <1>6

\* Handling an event other than an address takes one off.
LEMMA OutstandingAfterReceive ==
    ASSUME NEW q \in Seq(Event), q # <<>>, AddressesApart(q)
    PROVE  /\ AddressesApart(Tail(q))
           /\ TwoOutstanding(q) => TwoOutstanding(Tail(q))
           /\ OneOutstanding(q) => OneOutstanding(Tail(q))
           /\ Head(q) # "got_ip" =>
                 /\ TwoOutstanding(q) => OneOutstanding(Tail(q))
                 /\ OneOutstanding(q) => NoneOutstanding(Tail(q))
<1> DEFINE r == Tail(q)
<1>1. /\ Len(q) \in Nat \ {0} /\ Len(r) = Len(q) - 1 /\ Head(q) = q[1]
      /\ \A i \in 1..Len(r) : r[i] = q[i + 1] /\ i + 1 \in 1..Len(q) /\ i + 1 > 1
      /\ 1 \in 1..Len(q)
  OBVIOUS
<1>2. AddressesApart(r)
  <2> SUFFICES ASSUME NEW i \in 1..Len(r), NEW j \in 1..Len(r), j = i + 1,
                      r[i] = "got_ip"
               PROVE  r[j] # "got_ip"
    BY DEF AddressesApart
  <2>1. j + 1 = (i + 1) + 1
    OBVIOUS
  <2> QED BY <1>1, <2>1 DEF AddressesApart
<1>3. TwoOutstanding(q) => TwoOutstanding(r)
  <2> SUFFICES ASSUME TwoOutstanding(q),
                      NEW i \in 1..Len(r), NEW j \in 1..Len(r), NEW k \in 1..Len(r),
                      i < j, j < k
               PROVE  "got_ip" \in {r[i], r[j], r[k]}
    BY DEF TwoOutstanding
  <2>1. i + 1 < j + 1 /\ j + 1 < k + 1
    OBVIOUS
  <2> QED BY <1>1, <2>1 DEF TwoOutstanding
<1>4. OneOutstanding(q) => OneOutstanding(r)
  <2> SUFFICES ASSUME OneOutstanding(q), NEW i \in 1..Len(r), NEW j \in 1..Len(r),
                      r[i] # "got_ip", r[j] # "got_ip"
               PROVE  i = j
    BY DEF OneOutstanding
  <2>1. i + 1 = j + 1
    BY <1>1 DEF OneOutstanding
  <2> QED BY <2>1
<1>5. ASSUME Head(q) # "got_ip", TwoOutstanding(q) PROVE OneOutstanding(r)
  <2> SUFFICES ASSUME NEW i \in 1..Len(r), NEW j \in 1..Len(r),
                      r[i] # "got_ip", r[j] # "got_ip", i < j
               PROVE  FALSE
    BY <1>1 DEF OneOutstanding
  <2>1. 1 < i + 1 /\ i + 1 < j + 1
    BY <1>1
  <2> QED BY <1>1, <1>5, <2>1 DEF TwoOutstanding
<1>6. ASSUME Head(q) # "got_ip", OneOutstanding(q) PROVE NoneOutstanding(r)
  BY <1>1, <1>6 DEF OneOutstanding, NoneOutstanding
<1> QED BY <1>2, <1>3, <1>4, <1>5, <1>6

\* NoEventDropped for every queue of four slots or more, and every number of
\* attempts: the code's five are one more than it needs.
LEMMA QueueHolds ==
    ASSUME EventQueueSize >= 4 PROVE Steps => []NoEventDropped
<1> DEFINE Inv == NoEventDropped /\ FewOutstanding
<1>1. Init => Inv
  BY DEF Init, NoEventDropped, FewOutstanding, AddressesApart, TwoOutstanding,
         OneOutstanding, NoneOutstanding
<1>2. TypeOK /\ RadioOff /\ ViewAfterDrain /\ Inv /\ [Next]_vars => Inv'
  <2> SUFFICES ASSUME TypeOK, RadioOff, ViewAfterDrain, Inv, [Next]_vars PROVE Inv'
    OBVIOUS
  <2>q. queue \in Seq(Event) /\ m_connected \in BOOLEAN
    BY DEF TypeOK
  <2>e. ~deaf => Agrees(queue, link = "up", m_connected)
    BY DEF NoEventDropped, ViewAfterDrain
  <2>r. OneOutstanding(queue) => HasRoom
    BY <2>q, ShortQueue, WifiConstants DEF HasRoom, FewOutstanding
  <2>s. NoneOutstanding(queue) => OneOutstanding(queue)
    BY DEF NoneOutstanding, OneOutstanding
  <2>z. ASSUME queue = <<>>
        PROVE  AddressesApart(queue) /\ TwoOutstanding(queue) /\ NoneOutstanding(queue)
    BY <2>z DEF AddressesApart, TwoOutstanding, NoneOutstanding
  <2>1. CASE Connect
    <3>1. queue = <<>>
      BY <2>1 DEF Connect, RadioOff
    <3>2. queue' = Append(queue, "sta_start") /\ dropped' = dropped
      BY <2>1, <2>r, <2>s, <2>z, <3>1 DEF Connect, Post
    <3>3. AddressesApart(queue') /\ TwoOutstanding(queue') /\ OneOutstanding(queue')
      BY <2>q, <2>s, <2>z, <3>1, <3>2, OutstandingAfterLoss
    <3>4. ~Associated'
      BY <2>1 DEF Connect, Associated
    <3> QED BY <3>2, <3>3, <3>4 DEF NoEventDropped, FewOutstanding
  <2>2. CASE Receive
    <3>1. /\ queue # <<>> /\ queue' = Tail(queue) /\ dropped' = dropped
          /\ Associated' = Associated
      BY <2>2 DEF Receive, Associated
    <3>2. Head(queue) = "got_ip" => ~AboutToRetry'
      BY <2>2 DEF Receive, HandleWifiEvent, HandleGotIp, AboutToRetry
    <3>3. /\ AddressesApart(queue')
          /\ TwoOutstanding(queue') /\ (Associated => OneOutstanding(queue'))
          /\ Head(queue) # "got_ip" =>
               /\ OneOutstanding(queue')
               /\ Associated => NoneOutstanding(queue')
      BY <2>q, <3>1, OutstandingAfterReceive DEF FewOutstanding
    <3> QED BY <3>1, <3>2, <3>3 DEF NoEventDropped, FewOutstanding
  <2>3. CASE ReceiveTimesOut
    <3>1. queue = <<>> /\ UNCHANGED <<queue, dropped>>
      BY <2>3 DEF ReceiveTimesOut
    <3> QED BY <2>s, <2>z, <3>1 DEF NoEventDropped, FewOutstanding
  <2>4. CASE Reconnect
    <3>1. AboutToRetry /\ ~AboutToRetry' /\ UNCHANGED <<queue, dropped>>
      BY <2>4 DEF Reconnect, WantsReconnect, AboutToRetry
    <3> QED BY <3>1 DEF NoEventDropped, FewOutstanding
  <2>5. CASE GetIp
    <3>1. Associated /\ Associated' /\ AboutToRetry' = AboutToRetry /\ ~(link = "up")
      BY <2>5 DEF GetIp, Associated, AboutToRetry, view
    <3>2. CASE ~deaf
      <4>1. queue' = Append(queue, "got_ip") /\ dropped' = dropped
        BY <2>5, <2>r, <3>1, <3>2 DEF GetIp, PostAddress, Post, FewOutstanding
      <4>2. Agrees(queue, FALSE, m_connected)
        BY <2>e, <3>1, <3>2
      <4> QED
        BY <2>q, <3>1, <4>1, <4>2, OutstandingAfterAddress
           DEF NoEventDropped, FewOutstanding
    <3>3. CASE deaf
      <4>1. UNCHANGED <<queue, dropped>>
        BY <2>5, <3>3 DEF GetIp, PostAddress
      <4> QED BY <3>1, <4>1 DEF NoEventDropped, FewOutstanding
    <3> QED BY <3>2, <3>3
  <2>6. CASE AssociationFails \/ LinkLost
    <3>1. Associated /\ ~Associated' /\ AboutToRetry' = AboutToRetry
      BY <2>6 DEF AssociationFails, LinkLost, Associated, AboutToRetry, view
    <3>2. queue' = Append(queue, "disconnected") /\ dropped' = dropped
      BY <2>6, <2>r, <3>1 DEF AssociationFails, LinkLost, Post, FewOutstanding
    <3> QED
      BY <2>q, <3>1, <3>2, OutstandingAfterLoss DEF NoEventDropped, FewOutstanding
  <2>7. CASE AddressChanges
    <3>1. queue = <<>> /\ Associated' = Associated /\ AboutToRetry' = AboutToRetry
      BY <2>7 DEF AddressChanges, Associated, AboutToRetry, view
    <3>2. CASE ~deaf
      <4>1. queue' = Append(queue, "got_ip") /\ dropped' = dropped
        BY <2>7, <2>r, <2>s, <2>z, <3>1, <3>2 DEF AddressChanges, PostAddress, Post
      <4> QED
        BY <2>q, <2>s, <2>z, <3>1, <4>1, OutstandingAfterAddress
           DEF NoEventDropped, FewOutstanding
    <3>3. CASE deaf
      <4>1. UNCHANGED <<queue, dropped>>
        BY <2>7, <3>3 DEF AddressChanges, PostAddress
      <4> QED BY <3>1, <4>1 DEF NoEventDropped, FewOutstanding
    <3> QED BY <3>2, <3>3
  <2>8. CASE \/ Callback \/ GiveUp \/ SkipReconnect \/ RetryIntervalElapses
             \/ Halted \/ UNCHANGED vars \/ (Boot /\ ~Connect)
    <3>1. UNCHANGED <<queue, dropped>> /\ Associated' = Associated
      BY <2>8 DEF Callback, GiveUp, SkipReconnect, RetryIntervalElapses, Halted,
                  vars, Boot, Initialize, InitializeFails, SetInitialized,
                  SetReconnect, ConnectFails, Associated
    <3>2. AboutToRetry' => AboutToRetry
      BY <2>8 DEF Callback, GiveUp, SkipReconnect, RetryIntervalElapses, Halted,
                  vars, view, Boot, Initialize, InitializeFails, SetInitialized,
                  SetReconnect, ConnectFails, AboutToRetry
    <3> QED BY <3>1, <3>2 DEF NoEventDropped, FewOutstanding
  <2> QED BY <2>1, <2>2, <2>3, <2>4, <2>5, <2>6, <2>7, <2>8 DEF Next, Task, Driver
<1>3. Inv => NoEventDropped
  OBVIOUS
<1> QED BY <1>1, <1>2, <1>3, TypesHold, RadioStaysOff, ViewHolds, PTL DEF Steps

----------------------------------------------------------------------------
(* What the service implements.                                            *)

\* Every step is a try, an address, a loss, a renewal, or nothing of the kind.
LEMMA LinkRetryStep ==
    ASSUME TypeOK, RadioOff, Deafness, ~dropped', [Next]_vars
    PROVE  [Supervised!Next]_(Supervised!retryVars)
<1> USE DEF Supervised!retryVars, Supervised!Next
<1>1. queue \in Seq(Event)
  BY DEF TypeOK
<1>2. ASSUME UNCHANGED <<link, m_reconnect_attempts, queue, deaf>>
      PROVE  UNCHANGED Supervised!retryVars
  BY <1>2 DEF AddressQueued
<1>3. ASSUME NEW e \in Event, Post(e)
      PROVE  AddressQueued(queue)' <=> (e = "got_ip" \/ AddressQueued(queue))
  <2>1. queue' = Append(queue, e)
    BY <1>3 DEF Post
  <2> QED BY <1>1, <2>1, QueuedAfterAppend
<1>a. AddressQueued(queue) \in BOOLEAN /\ AddressQueued(queue)' \in BOOLEAN
  BY DEF AddressQueued
<1>b. (AddressQueued(queue)' <=> AddressQueued(queue)) => UNCHANGED AddressQueued(queue)
  BY <1>a
<1>4. CASE Connect
  <2>1. /\ link = "off" /\ link' = "idle" /\ UNCHANGED <<m_reconnect_attempts, deaf>>
        /\ Post("sta_start")
    BY <1>4 DEF Connect, RadioOff, view
  <2>2. UNCHANGED AddressQueued(queue)
    BY <1>3, <1>b, <2>1 DEF Event
  <2>3. Supervised!TurnOn
    BY <2>1, <2>2 DEF Supervised!TurnOn
  <2> QED BY <2>3
<1>5. CASE Receive
  <2>1. queue # <<>> /\ queue' = Tail(queue) /\ UNCHANGED <<link, deaf>>
    BY <1>5 DEF Receive
  <2>2. CASE Head(queue) = "got_ip"
    <3>1. m_reconnect_attempts' = 0
      BY <1>5, <2>2 DEF Receive, HandleWifiEvent, HandleGotIp
    <3>2. AddressQueued(queue) /\ AddressQueued(queue)' \in BOOLEAN
      BY <1>1, <2>1, <2>2, QueuedAfterReceive DEF AddressQueued
    <3>3. Supervised!Renew
      BY <2>1, <3>1, <3>2 DEF Supervised!Renew
    <3> QED BY <3>3
  <2>3. CASE Head(queue) # "got_ip"
    <3>1. UNCHANGED m_reconnect_attempts
      BY <1>5, <2>3 DEF Receive, HandleWifiEvent, HandleStaStart, HandleDisconnected
    <3>2. UNCHANGED AddressQueued(queue)
      BY <1>1, <1>b, <2>1, <2>3, QueuedAfterReceive
    <3> QED BY <2>1, <3>1, <3>2
  <2> QED BY <2>2, <2>3
<1>6. CASE Reconnect
  <2>1. /\ m_reconnect_attempts < MaxAttempts
        /\ m_reconnect_attempts' = m_reconnect_attempts + 1
        /\ link' = IF link = "idle" THEN "connecting" ELSE link
        /\ UNCHANGED <<queue, deaf>>
    BY <1>6 DEF Reconnect, MayRetry, Associate
  <2>2. UNCHANGED AddressQueued(queue)
    BY <2>1 DEF AddressQueued
  <2>3. Supervised!Try
    BY <2>1, <2>2 DEF Supervised!Try
  <2> QED BY <2>3
<1>7. CASE GetIp \/ AddressChanges
  <2>1. /\ link \in {"connecting", "up"} /\ link' = "up"
        /\ UNCHANGED <<m_reconnect_attempts, deaf>>
        /\ IF deaf THEN UNCHANGED queue ELSE Post("got_ip")
    BY <1>7 DEF GetIp, AddressChanges, PostAddress, view
  <2>2. AddressQueued(queue)' <=> ~deaf
    <3>1. CASE deaf
      <4>1. queue' = queue
        BY <2>1, <3>1
      <4> QED BY <3>1, <4>1 DEF Deafness
    <3>2. CASE ~deaf
      BY <1>3, <2>1, <3>2 DEF Event
    <3> QED BY <3>1, <3>2
  <2>3. AddressQueued(queue)' = ~deaf
    BY <1>a, <2>2
  <2>4. Supervised!Obtain
    BY <2>1, <2>3 DEF Supervised!Obtain
  <2> QED BY <2>4
<1>8. CASE AssociationFails \/ LinkLost
  <2>1. /\ link \in {"connecting", "up"} /\ link' = "idle"
        /\ UNCHANGED <<m_reconnect_attempts, deaf>>
        /\ Post("disconnected")
    BY <1>8 DEF AssociationFails, LinkLost, view
  <2>2. UNCHANGED AddressQueued(queue)
    BY <1>3, <1>b, <2>1 DEF Event
  <2>3. Supervised!Lose
    BY <2>1, <2>2 DEF Supervised!Lose
  <2> QED BY <2>3
<1>9. CASE Initialize
  <2>1. UNCHANGED <<link, m_reconnect_attempts, queue>> /\ link = "off" /\ ~deaf
    BY <1>9 DEF Initialize, view, RadioOff, Deafness
  <2>2. deaf' \in BOOLEAN /\ deaf \in BOOLEAN
    BY <1>9 DEF Initialize, TypeOK
  <2>3. CASE deaf'
    <3>1. Supervised!Deafen
      BY <2>1, <2>2, <2>3 DEF Supervised!Deafen, AddressQueued
    <3> QED BY <3>1
  <2>4. CASE ~deaf'
    BY <1>2, <2>1, <2>2, <2>4
  <2> QED BY <2>3, <2>4
<1>10. CASE \/ (Boot /\ ~Connect /\ ~Initialize) \/ Callback \/ ReceiveTimesOut
            \/ GiveUp \/ SkipReconnect \/ RetryIntervalElapses \/ Halted
            \/ UNCHANGED vars
  <2>1. UNCHANGED <<link, m_reconnect_attempts, queue, deaf>>
    BY <1>10 DEF Boot, InitializeFails, SetInitialized, SetReconnect,
                 ConnectFails, Callback, ReceiveTimesOut, GiveUp, SkipReconnect,
                 RetryIntervalElapses, Halted, vars, view
  <2> QED BY <1>2, <2>1
<1> QED BY <1>4, <1>5, <1>6, <1>7, <1>8, <1>9, <1>10 DEF Next, Boot, Task, Driver

\* The steps of LinkRetry, without its fairness.
RetrySteps == Supervised!Init /\ [][Supervised!Next]_(Supervised!retryVars)

\* With four slots or more no event is dropped, and the service takes them.
LEMMA RetriesLink == ASSUME EventQueueSize >= 4 PROVE Steps => RetrySteps
<1>1. Init => Supervised!Init
  BY DEF Init, Supervised!Init, AddressQueued
<1>2. /\ TypeOK /\ RadioOff /\ Deafness /\ NoEventDropped' /\ [Next]_vars
         => [Supervised!Next]_(Supervised!retryVars)
  BY LinkRetryStep DEF NoEventDropped
<1> QED BY <1>1, <1>2, TypesHold, RadioStaysOff, DeafnessHolds, QueueHolds, PTL
       DEF Steps, RetrySteps

----------------------------------------------------------------------------
(* The theorems, for every queue length and every number of attempts.      *)

\* TypeOK: the queue keeps its bound and the attempts theirs.
THEOREM TypeCorrect == Spec => []TypeOK
BY TypesHold, SpecTakesSteps, PTL

\* Nothing happens to the link before connect().
THEOREM RadioOffUntilConnect == Spec => []RadioOff
BY RadioStaysOff, SpecTakesSteps, PTL

\* ViewAfterDrain: what m_connected will be once the queue is drained is the
\* state of the link, as long as nothing was dropped and the node hears of its
\* addresses.
THEOREM ViewCorrect == Spec => []ViewAfterDrain
BY ViewHolds, SpecTakesSteps, PTL

\* NotRetryingMeansSpent: taskLoop stops trying a link that is down only with
\* its attempts spent.
THEOREM RetriesUntilSpent == Spec => []NotRetryingMeansSpent
BY RetryingHolds, SpecTakesSteps, PTL

\* BudgetSpentIsFinal: a link that was given up is never tried again.
THEOREM GivingUpIsFinal == Spec => BudgetSpentIsFinal
BY SpentHolds, SpecTakesSteps, PTL

\* NoEventDropped for every queue of four slots or more: the code's five are
\* one more than it needs.
THEOREM NothingDropped ==
    ASSUME EventQueueSize >= 4 PROVE Spec => []NoEventDropped
BY QueueHolds, SpecTakesSteps, PTL

\* The safety part of ImplementsLinkRetry: with its view of the link, its queue
\* and its task, the service makes no try that LinkRetry would not.
THEOREM LinkRetryImplemented ==
    ASSUME EventQueueSize >= 4
    PROVE  Spec => Supervised!Init /\ [][Supervised!Next]_(Supervised!retryVars)
BY RetriesLink, SpecTakesSteps, PTL DEF RetrySteps
=============================================================================
