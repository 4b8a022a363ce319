----------------------------- MODULE NodeProofs -----------------------------
(***************************************************************************)
(* What the node guarantees for every queue length, number of attempts and *)
(* backoff.  A step of the node is a step of each of its two services, or  *)
(* none, so what is proved of a service holds within the node; the state   *)
(* machine of the application then follows the flag of the MQTT service.   *)
(***************************************************************************)
EXTENDS Node, TLAPS

\* The theorems of the two services, about the variables of the node.
WifiP == INSTANCE WifiServiceProofs WITH
             m_initialized <- wifi_initialized, m_connected <- wifi_connected,
             pc <- wifi_pc

MqttP == INSTANCE MqttServiceProofs WITH m_connected <- mqtt_connected, pc <- mqtt_pc

\* A step of the node, seen from the WiFi service.
LEMMA WifiStep == [Next]_vars => [Wifi!Next]_(Wifi!vars)
<1> SUFFICES ASSUME [Next]_vars PROVE Wifi!Next \/ UNCHANGED Wifi!vars
  OBVIOUS
<1>1. CASE MainTask
  <2>1. CASE NoCredentials \/ MqttNotProvisioned \/ MqttFails \/ InitializeMqtt \/ SetCallbacks
    BY <2>1 DEF NoCredentials, MqttNotProvisioned, MqttFails, InitializeMqtt, SetCallbacks,
                wifiVars, Wifi!vars
  <2>2. CASE InitializeWifi \/ WifiFails \/ ConnectWifi
    BY <2>2 DEF InitializeWifi, WifiFails, ConnectWifi, Wifi!Next, Wifi!Boot
  <2> QED BY <1>1, <2>1, <2>2 DEF MainTask
<1>2. CASE WifiTask
  BY <1>2 DEF WifiTask, WifiEventSetsState, WifiEventActs, FinishMqttCall,
              WifiEventReturns, wifiVars, Wifi!vars, Wifi!Next, Wifi!Task
<1>3. CASE RetryIntervalElapses
  BY <1>3 DEF RetryIntervalElapses, Wifi!Next
<1>4. CASE EventHandler
  BY <1>4 DEF EventHandler, MqttUp, MqttDownSeesRunning, MqttDownWrites,
              MqttDownIgnored, wifiVars, Wifi!vars
<1>5. CASE Radio
  BY <1>5 DEF Radio, Wifi!Next, Wifi!Driver
<1>6. CASE MqttTask \/ ConnectSucceeds \/ ConnectionBreaks \/ ClientServesBits
  BY <1>6 DEF MqttTask, ConnectSucceeds, ConnectionBreaks, ClientServesBits,
              wifiVars, Wifi!vars
<1>7. CASE Waits \/ UNCHANGED vars
  BY <1>7 DEF Waits, vars, wifiVars, Wifi!vars
<1> QED BY <1>1, <1>2, <1>3, <1>4, <1>5, <1>6, <1>7 DEF Next

\* A step of the node, seen from the MQTT service.
LEMMA MqttStep == [Next]_vars => [Mqtt!Next]_(Mqtt!vars)
<1> SUFFICES ASSUME [Next]_vars PROVE Mqtt!Next \/ UNCHANGED Mqtt!vars
  OBVIOUS
<1>u. UNCHANGED mqttVars => UNCHANGED Mqtt!vars
  BY DEF mqttVars, Mqtt!vars, Mqtt!clientVars, Mqtt!serviceVars
<1>1. CASE MainTask
  <2>1. CASE InitializeMqtt
    BY <2>1 DEF InitializeMqtt, Mqtt!Next, Mqtt!MainTask
  <2>2. CASE ~InitializeMqtt
    BY <1>1, <2>2, <1>u DEF MainTask, NoCredentials, InitializeWifi, WifiFails,
         ConnectWifi, MqttNotProvisioned, MqttFails, SetCallbacks
  <2> QED BY <2>1, <2>2
<1>2. CASE WifiTask
  BY <1>2, <1>u DEF WifiTask, WifiEventSetsState, WifiEventActs, CallsMqtt,
              FinishMqttCall, WifiEventReturns, Mqtt!Next, Mqtt!WifiTask
<1>3. CASE RetryIntervalElapses \/ Radio
  BY <1>3, <1>u DEF RetryIntervalElapses, Radio
<1>4. CASE EventHandler
  BY <1>4, <1>u DEF EventHandler, MqttUp, MqttDownSeesRunning, MqttDownWrites,
              MqttDownIgnored, Mqtt!Next, Mqtt!EventHandler
<1>5. CASE MqttTask
  BY <1>5 DEF MqttTask, Mqtt!Next
<1>6. CASE ConnectSucceeds \/ ConnectionBreaks \/ ClientServesBits
  BY <1>6 DEF ConnectSucceeds, ConnectionBreaks, ClientServesBits, Mqtt!Next, Mqtt!Client
<1>7. CASE Waits \/ UNCHANGED vars
  BY <1>7, <1>u DEF Waits, vars
<1> QED BY <1>1, <1>2, <1>3, <1>4, <1>5, <1>6, <1>7 DEF Next

----------------------------------------------------------------------------
(* The theorems of the services speak of the same steps.                   *)

\* WiFi: the instance of the proofs is the instance of the node.
LEMMA SameWifi ==
    /\ WifiP!Init <=> Wifi!Init
    /\ [WifiP!Next]_(WifiP!vars) <=> [Wifi!Next]_(Wifi!vars)
<1>1. WifiP!Init <=> Wifi!Init
  BY DEF WifiP!Init, Wifi!Init
<1>2. UNCHANGED WifiP!vars <=> UNCHANGED Wifi!vars
  BY DEF WifiP!vars, Wifi!vars
<1>3. WifiP!Next <=> Wifi!Next
  BY DEF WifiP!Next, Wifi!Next, WifiP!Boot, Wifi!Boot, WifiP!Initialize, Wifi!Initialize,
         WifiP!InitializeFails, Wifi!InitializeFails, WifiP!SetInitialized,
         Wifi!SetInitialized, WifiP!SetReconnect, Wifi!SetReconnect, WifiP!Connect,
         Wifi!Connect, WifiP!ConnectFails, Wifi!ConnectFails, WifiP!Post, Wifi!Post,
         WifiP!HasRoom, Wifi!HasRoom, WifiP!Task, Wifi!Task, WifiP!Receive, Wifi!Receive,
         WifiP!HandleWifiEvent, Wifi!HandleWifiEvent, WifiP!HandleStaStart,
         Wifi!HandleStaStart, WifiP!HandleGotIp, Wifi!HandleGotIp,
         WifiP!HandleDisconnected, Wifi!HandleDisconnected, WifiP!Callback,
         Wifi!Callback, WifiP!ReceiveTimesOut, Wifi!ReceiveTimesOut, WifiP!Reconnect,
         Wifi!Reconnect, WifiP!GiveUp, Wifi!GiveUp, WifiP!SkipReconnect,
         Wifi!SkipReconnect, WifiP!WantsReconnect, Wifi!WantsReconnect, WifiP!MayRetry,
         Wifi!MayRetry, WifiP!BudgetSpent, Wifi!BudgetSpent, WifiP!Associate,
         Wifi!Associate, WifiP!RetryIntervalElapses, Wifi!RetryIntervalElapses,
         WifiP!Driver, Wifi!Driver, WifiP!PostAddress, Wifi!PostAddress, WifiP!GetIp,
         Wifi!GetIp, WifiP!AssociationFails,
         Wifi!AssociationFails, WifiP!LinkLost, Wifi!LinkLost, WifiP!AddressChanges,
         Wifi!AddressChanges, WifiP!Halted, Wifi!Halted, WifiP!view, Wifi!view,
         WifiP!vars, Wifi!vars
<1> QED BY <1>1, <1>2, <1>3

\* MQTT: likewise.
LEMMA SameMqtt ==
    /\ MqttP!Init <=> Mqtt!Init
    /\ [MqttP!Next]_(MqttP!vars) <=> [Mqtt!Next]_(Mqtt!vars)
<1>1. MqttP!Init <=> Mqtt!Init
  BY DEF MqttP!Init, Mqtt!Init
<1>2. UNCHANGED MqttP!vars <=> UNCHANGED Mqtt!vars
  BY DEF MqttP!vars, Mqtt!vars, MqttP!clientVars, Mqtt!clientVars, MqttP!serviceVars,
         Mqtt!serviceVars
<1>3. MqttP!Next <=> Mqtt!Next
  BY DEF MqttP!Next, Mqtt!Next, MqttP!MainTask, Mqtt!MainTask, MqttP!CreateClient,
         Mqtt!CreateClient, MqttP!CreateTask, Mqtt!CreateTask, MqttP!WifiTask,
         Mqtt!WifiTask, MqttP!Start, Mqtt!Start, MqttP!NotifyStart, Mqtt!NotifyStart,
         MqttP!SeesConnected, Mqtt!SeesConnected, MqttP!RequestDisconnect,
         Mqtt!RequestDisconnect, MqttP!ServiceTask, Mqtt!ServiceTask,
         MqttP!CheckStarted, Mqtt!CheckStarted, MqttP!AwaitStart, Mqtt!AwaitStart,
         MqttP!StartClient, Mqtt!StartClient, MqttP!Jitter, Mqtt!Jitter,
         MqttP!WaitTimes, Mqtt!WaitTimes, MqttP!WakesOn, Mqtt!WakesOn, MqttP!Take,
         Mqtt!Take, MqttP!TakeMiscounted, Mqtt!TakeMiscounted, MqttP!DelayEnds,
         Mqtt!DelayEnds, MqttP!Reconnect, Mqtt!Reconnect, MqttP!LoadBackoff,
         Mqtt!LoadBackoff, MqttP!NextBackoff, Mqtt!NextBackoff, MqttP!StoreBackoff,
         Mqtt!StoreBackoff, MqttP!Client, Mqtt!Client, MqttP!BeginReconnect,
         Mqtt!BeginReconnect, MqttP!ConnectSucceeds, Mqtt!ConnectSucceeds,
         MqttP!TransportError, Mqtt!TransportError, MqttP!Abort, Mqtt!Abort,
         MqttP!HonourDisconnect, Mqtt!HonourDisconnect, MqttP!EventHandler,
         Mqtt!EventHandler, MqttP!StoreConnected, Mqtt!StoreConnected,
         MqttP!ResetBackoff, Mqtt!ResetBackoff, MqttP!BirthSent, Mqtt!BirthSent,
         MqttP!BirthFails, Mqtt!BirthFails, MqttP!SubscribeFails, Mqtt!SubscribeFails,
         MqttP!HandlerReturns, Mqtt!HandlerReturns, MqttP!ConnectCallback,
         Mqtt!ConnectCallback, MqttP!OnError, Mqtt!OnError, MqttP!StoreDisconnected,
         Mqtt!StoreDisconnected, MqttP!DropCallback, Mqtt!DropCallback,
         MqttP!NotifyDisconnect, Mqtt!NotifyDisconnect, MqttP!Waits, Mqtt!Waits,
         MqttP!vars, Mqtt!vars, MqttP!clientVars, Mqtt!clientVars, MqttP!serviceVars,
         Mqtt!serviceVars
<1> QED BY <1>1, <1>2, <1>3

\* The two services keep their promises wherever the node runs them.
LEMMA NodeTakesSteps == Spec => WifiP!Steps /\ MqttP!Steps
<1>1. Init => WifiP!Init /\ MqttP!Init
  BY SameWifi, SameMqtt DEF Init
<1>2. [Next]_vars => [WifiP!Next]_(WifiP!vars) /\ [MqttP!Next]_(MqttP!vars)
  BY WifiStep, MqttStep, SameWifi, SameMqtt
<1> QED BY <1>1, <1>2, PTL DEF Spec, WifiP!Steps, MqttP!Steps

\* The invariant of the MQTT service ...
LEMMA NodeServiceInv == Spec => []MqttP!ServiceInv
BY NodeTakesSteps, NodeConstants, MqttP!ServiceHolds, PTL

\* ... and the types of the WiFi service hold in the node.
LEMMA NodeWifiTypes == Spec => []WifiP!TypeOK
BY NodeTakesSteps, NodeConstants, WifiP!TypesHold, PTL

\* So does what the WiFi service knows of a node that hears of no address.
LEMMA NodeDeafness == Spec => []WifiP!Deafness
BY NodeTakesSteps, NodeConstants, WifiP!DeafnessHolds, PTL

\* All of them speak of the node's own instances.
LEMMA SameTypes == (WifiP!TypeOK <=> Wifi!TypeOK) /\ (MqttP!TypeOK <=> Mqtt!TypeOK)
BY DEF WifiP!TypeOK, Wifi!TypeOK, WifiP!Event, Wifi!Event, MqttP!TypeOK, Mqtt!TypeOK

\* What the application needs of the MQTT service: the flag goes with the
\* stage of the handler, and the task comes after the client.
Flagged ==
    /\ handler = "none" => (mqtt_connected <=> client = "connected")
    /\ handler \in {"resetBackoff", "birth"} => mqtt_connected /\ client = "connected"
    /\ handler = "connectCallback" => client = "connected" \/ birthFailed
    /\ handler \in {"aborting", "dropCallback", "notify"} => ~mqtt_connected
    /\ client = "none" => mqtt_pc = "none"

\* It follows from the service's invariant.
LEMMA ServiceFlags == MqttP!ServiceInv => Flagged
BY DEF MqttP!ServiceInv, MqttP!FlagInv, MqttP!FlagFollowsClient,
       MqttP!StageInv, Flagged

\* The stages of the MQTT task and of its client go together, and neither leaves the
\* first before start().
Staged ==
    /\ ~m_started => client \in {"none", "idle"}
    /\ mqtt_pc = "startClient" => client = "idle" /\ m_started

\* This follows from the service's invariant too.
LEMMA ServiceStages == MqttP!ServiceInv => Staged
BY DEF MqttP!ServiceInv, MqttP!StageInv, MqttP!InFirstLoop, Staged

\* The queue of WiFi events is a sequence.
LEMMA WifiQueue == WifiP!TypeOK => queue \in Seq(Wifi!Event)
BY DEF WifiP!TypeOK, WifiP!Event, Wifi!Event

----------------------------------------------------------------------------
(* The application.                                                        *)

AppTypes ==
    /\ m_state \in AppState
    /\ app \in {"wifi", "mqtt", "mqttTask", "callbacks", "done", "failed"}
    /\ onWifi \in {"none", "act", "return"}
    /\ onDrop \in {"none", "write"}

\* RUNNING is written with the session up, or with its birth message failed, and
\* outlives it only until the handler of the loss has passed its callback.
StateInv ==
    /\ onDrop = "write" => handler = "dropCallback"
    /\ m_state = "RUNNING" =>
          \/ mqtt_connected \/ birthFailed
          \/ handler \in {"connected", "connectCallback", "error", "aborting",
                          "disconnected", "dropCallback"}

\* The application's variables at the boot ...
LEMMA AppTypesInit == Init => AppTypes
BY DEF Init, AppTypes, AppState

\* ... and after each step.
LEMMA AppTypesKept == AppTypes /\ [Next]_vars => AppTypes'
<1> SUFFICES ASSUME AppTypes, [Next]_vars PROVE AppTypes'
  OBVIOUS
<1> USE DEF AppTypes
<1>1. CASE MainTask
  BY <1>1 DEF MainTask, NoCredentials, InitializeWifi, WifiFails, ConnectWifi,
              MqttNotProvisioned, MqttFails, InitializeMqtt, SetCallbacks, setState,
              AppState, appVars
<1>2. CASE WifiTask
  BY <1>2 DEF WifiTask, WifiEventSetsState, WifiEventActs, FinishMqttCall,
              WifiEventReturns, setState, StateOn, AppState, appVars
<1>3. CASE EventHandler
  BY <1>3 DEF EventHandler, MqttUp, MqttDownSeesRunning, MqttDownWrites,
              MqttDownIgnored, setState, AppState, appVars
<1>4. CASE \/ RetryIntervalElapses \/ MqttTask \/ Radio \/ ConnectSucceeds
           \/ ConnectionBreaks \/ ClientServesBits
  BY <1>4 DEF RetryIntervalElapses, MqttTask, Radio, ConnectSucceeds,
              ConnectionBreaks, ClientServesBits, appVars
<1>5. CASE Waits \/ UNCHANGED vars
  BY <1>5 DEF Waits, vars, appVars
<1> QED BY <1>1, <1>2, <1>3, <1>4, <1>5 DEF Next

\* The state machine at the boot ...
LEMMA StateInit == Init => StateInv
BY DEF Init, StateInv

\* ... and after each step of the tasks that write it.
LEMMA StateKept == Flagged /\ StateInv /\ [Next]_vars => StateInv'
<1> SUFFICES ASSUME Flagged, StateInv, [Next]_vars PROVE StateInv'
  OBVIOUS
<1> USE DEF StateInv
<1>1. CASE /\ UNCHANGED <<handler, birthFailed, mqtt_connected, onDrop>>
           /\ m_state' = m_state \/ m_state' # "RUNNING"
  BY <1>1
<1>2. CASE MainTask
  <2>1. CASE InitializeMqtt
    BY <1>1, <2>1 DEF InitializeMqtt, Mqtt!CreateClient, Mqtt!CreateTask, Mqtt!clientVars
  <2>2. CASE ~InitializeMqtt
    BY <1>1, <1>2, <2>2 DEF MainTask, NoCredentials, InitializeWifi, WifiFails,
         ConnectWifi, MqttNotProvisioned, MqttFails, SetCallbacks, setState, mqttVars,
         appVars
  <2> QED BY <2>1, <2>2
<1>3. CASE WifiTask
  <2>1. CASE WifiEventActs \/ FinishMqttCall
    BY <1>1, <2>1 DEF WifiEventActs, CallsMqtt, FinishMqttCall, Mqtt!Start,
         Mqtt!SeesConnected, Mqtt!NotifyStart, Mqtt!RequestDisconnect,
         Mqtt!clientVars, appVars
  <2>2. CASE ~(WifiEventActs \/ FinishMqttCall)
    BY <1>1, <1>3, <2>2 DEF WifiTask, WifiEventSetsState, StateOn, WifiEventReturns,
         setState, mqttVars, appVars
  <2> QED BY <2>1, <2>2
<1>4. CASE RetryIntervalElapses \/ Radio \/ Waits \/ UNCHANGED vars
  BY <1>1, <1>4 DEF RetryIntervalElapses, Radio, Waits, vars, mqttVars, appVars
<1>5. CASE MqttTask
  BY <1>1, <1>5 DEF MqttTask, Mqtt!ServiceTask, Mqtt!CheckStarted, Mqtt!AwaitStart,
       Mqtt!StartClient, Mqtt!Take, Mqtt!TakeMiscounted, Mqtt!DelayEnds,
       Mqtt!Reconnect, Mqtt!LoadBackoff, Mqtt!StoreBackoff, Mqtt!clientVars, appVars
<1>6. CASE EventHandler
  <2>1. CASE MqttUp
    <3>1. /\ handler = "connectCallback" /\ UNCHANGED <<birthFailed, mqtt_connected, onDrop>>
          /\ handler' = IF client = "connected" /\ ~mqtt_connected THEN "aborting" ELSE "none"
      BY <2>1 DEF MqttUp, Mqtt!ConnectCallback
    <3>2. mqtt_connected' \/ birthFailed' \/ handler' = "aborting"
      BY <3>1 DEF Flagged
    <3> QED BY <3>1, <3>2
  <2>2. CASE MqttDownSeesRunning
    BY <2>2 DEF MqttDownSeesRunning, mqttVars
  <2>3. CASE MqttDownWrites \/ MqttDownIgnored
    BY <2>3 DEF MqttDownWrites, MqttDownIgnored, Mqtt!DropCallback, setState, appVars
  <2>4. CASE \/ Mqtt!StoreConnected \/ Mqtt!ResetBackoff \/ Mqtt!OnError
             \/ Mqtt!StoreDisconnected \/ Mqtt!NotifyDisconnect
    <3>1. UNCHANGED <<m_state, onDrop, birthFailed>>
      BY <1>6, <2>4 DEF EventHandler, MqttUp, Mqtt!ConnectCallback, MqttDownSeesRunning,
           MqttDownWrites, MqttDownIgnored, Mqtt!DropCallback, Mqtt!StoreConnected,
           Mqtt!ResetBackoff, Mqtt!OnError, Mqtt!StoreDisconnected,
           Mqtt!NotifyDisconnect, Mqtt!HandlerReturns, appVars, mqttVars
    <3> QED BY <2>4, <3>1 DEF Mqtt!StoreConnected, Mqtt!ResetBackoff, Mqtt!OnError,
           Mqtt!StoreDisconnected, Mqtt!NotifyDisconnect, Mqtt!HandlerReturns, Flagged
  <2>5. CASE (Mqtt!BirthSent \/ Mqtt!BirthFails \/ Mqtt!SubscribeFails) /\ UNCHANGED appVars
    BY <2>5 DEF Mqtt!BirthSent, Mqtt!BirthFails, Mqtt!SubscribeFails, Flagged, appVars
  <2> QED BY <1>6, <2>1, <2>2, <2>3, <2>4, <2>5 DEF EventHandler
<1>7. CASE ConnectSucceeds \/ ConnectionBreaks \/ ClientServesBits
  BY <1>7 DEF ConnectSucceeds, ConnectionBreaks, ClientServesBits,
       Mqtt!ConnectSucceeds, Mqtt!TransportError, Mqtt!Abort, Mqtt!BeginReconnect,
       Mqtt!HonourDisconnect, Flagged, appVars
<1> QED BY <1>2, <1>3, <1>4, <1>5, <1>6, <1>7 DEF Next

----------------------------------------------------------------------------
(* An address: where it can have come to, and what was done before it.     *)

AddressSeen ==
    event = "got_ip" \/ link = "up" \/ \E i \in 1..Len(queue) : queue[i] = "got_ip"

AddressInv ==
    /\ AddressSeen => BootOver
    /\ client # "none" => app \in {"mqttTask", "callbacks", "done"}

\* Posting an event other than an address brings none into the queue.
LEMMA PostedAddress ==
    ASSUME queue \in Seq(Wifi!Event), NEW e \in Wifi!Event, Wifi!Post(e)
    PROVE  (\E i \in 1..Len(queue') : queue'[i] = "got_ip")
               => e = "got_ip" \/ \E i \in 1..Len(queue) : queue[i] = "got_ip"
<1>1. CASE queue' = Append(queue, e)
  BY <1>1
<1>2. CASE UNCHANGED queue
  BY <1>2
<1> QED BY <1>1, <1>2 DEF Wifi!Post

\* The way of an address at the boot ...
LEMMA AddressInit == Init => AddressInv
BY DEF Init, Wifi!Init, Mqtt!Init, AddressInv, AddressSeen

\* ... and after each step: only the radio brings one, and not before the boot
\* is over.
LEMMA AddressKept == WifiP!TypeOK /\ Flagged /\ AddressInv /\ [Next]_vars => AddressInv'
<1> SUFFICES ASSUME WifiP!TypeOK, Flagged, AddressInv, [Next]_vars PROVE AddressInv'
  OBVIOUS
<1>q. queue \in Seq(Wifi!Event)
  BY WifiQueue
<1>over. BootOver => BootOver'
  BY DEF BootOver, Next, MainTask, NoCredentials, InitializeWifi, WifiFails, ConnectWifi,
         MqttNotProvisioned, MqttFails, InitializeMqtt, SetCallbacks, WifiTask,
         WifiEventSetsState, WifiEventActs, FinishMqttCall, WifiEventReturns,
         RetryIntervalElapses, EventHandler, MqttUp, MqttDownSeesRunning,
         MqttDownWrites, MqttDownIgnored, MqttTask, Radio, ConnectSucceeds,
         ConnectionBreaks, ClientServesBits, Waits, vars, appVars
<1>1. ASSUME UNCHANGED event, AddressSeen' => AddressSeen \/ BootOver',
             client' # "none" => app' \in {"mqttTask", "callbacks", "done"}
      PROVE  AddressInv'
  BY <1>1, <1>over DEF AddressInv
<1>2. ASSUME UNCHANGED <<event, link, queue>> PROVE AddressSeen' => AddressSeen
  BY <1>2 DEF AddressSeen
<1>3. CASE MainTask
  <2>1. client' # "none" => app' \in {"mqttTask", "callbacks", "done"}
    BY <1>3 DEF MainTask, NoCredentials, InitializeWifi, WifiFails, ConnectWifi,
         MqttNotProvisioned, MqttFails, InitializeMqtt, SetCallbacks, mqttVars, appVars,
         AddressInv
  <2>2. CASE ConnectWifi
    <3>1. "sta_start" \in Wifi!Event /\ Wifi!Post("sta_start")
      BY <2>2 DEF ConnectWifi, Wifi!Connect, Wifi!Event
    <3>2. link' = "idle" /\ UNCHANGED event
      BY <2>2 DEF ConnectWifi, Wifi!Connect, Wifi!view
    <3>3. AddressSeen' => AddressSeen
      BY <1>q, <3>1, <3>2, PostedAddress DEF AddressSeen
    <3> QED BY <1>1, <2>1, <3>2, <3>3
  <2>3. CASE ~ConnectWifi
    <3>1. UNCHANGED <<event, link, queue>>
      BY <1>3, <2>3 DEF MainTask, NoCredentials, InitializeWifi, WifiFails,
           MqttNotProvisioned, MqttFails, InitializeMqtt, SetCallbacks, wifiVars,
           Wifi!Initialize, Wifi!InitializeFails, Wifi!SetInitialized,
           Wifi!SetReconnect, Wifi!ConnectFails, Wifi!view
    <3> QED BY <1>1, <1>2, <2>1, <3>1
  <2> QED BY <2>2, <2>3
<1>4. CASE WifiTask
  <2>1. client' # "none" => app' \in {"mqttTask", "callbacks", "done"}
    BY <1>4 DEF WifiTask, WifiEventSetsState, WifiEventActs, CallsMqtt, FinishMqttCall,
         WifiEventReturns, Mqtt!Start, Mqtt!SeesConnected, Mqtt!NotifyStart,
         Mqtt!RequestDisconnect, Mqtt!clientVars, mqttVars, appVars, AddressInv
  <2>2. CASE Wifi!Receive
    <3>1. /\ queue # <<>> /\ event' = Head(queue) /\ queue' = Tail(queue)
          /\ link' = link
      BY <2>2 DEF Wifi!Receive
    <3>2. /\ Head(queue) = queue[1] /\ 1 \in 1..Len(queue)
          /\ \A i \in 1..Len(queue') : queue'[i] = queue[i + 1] /\ i + 1 \in 1..Len(queue)
      BY <1>q, <3>1
    <3>3. AddressSeen' => AddressSeen
      BY <3>1, <3>2 DEF AddressSeen
    <3> QED BY <1>over, <2>1, <3>1, <3>3 DEF AddressInv
  <2>3. CASE Wifi!Callback
    <3>1. event' = "none" /\ UNCHANGED <<link, queue>>
      BY <2>3 DEF Wifi!Callback
    <3>2. AddressSeen' => AddressSeen
      BY <3>1 DEF AddressSeen
    <3> QED BY <1>over, <2>1, <3>1, <3>2 DEF AddressInv
  <2>4. CASE Wifi!Reconnect
    <3>1. UNCHANGED <<event, queue>> /\ (link' = "up" => link = "up")
      BY <2>4 DEF Wifi!Reconnect, Wifi!Associate
    <3>2. AddressSeen' => AddressSeen
      BY <3>1 DEF AddressSeen
    <3> QED BY <1>1, <2>1, <3>1, <3>2
  <2>5. CASE ~(Wifi!Receive \/ Wifi!Callback \/ Wifi!Reconnect)
    <3>1. UNCHANGED <<event, link, queue>>
      BY <1>4, <2>5 DEF WifiTask, WifiEventSetsState, WifiEventActs, FinishMqttCall,
           WifiEventReturns, Wifi!ReceiveTimesOut, Wifi!GiveUp, Wifi!SkipReconnect,
           Wifi!view, wifiVars
    <3> QED BY <1>1, <1>2, <2>1, <3>1
  <2> QED BY <2>2, <2>3, <2>4, <2>5
<1>5. CASE Radio
  <2>1. /\ client' # "none" => app' \in {"mqttTask", "callbacks", "done"}
        /\ UNCHANGED event
    BY <1>5 DEF Radio, mqttVars, appVars, AddressInv, Wifi!GetIp, Wifi!AssociationFails,
                Wifi!LinkLost, Wifi!AddressChanges, Wifi!view
  <2>2. CASE Wifi!GetIp \/ Wifi!AddressChanges
    <3>1. BootOver'
      BY <1>5, <1>over, <2>2 DEF Radio, AddressInv, AddressSeen, Wifi!GetIp,
           Wifi!AddressChanges, Wifi!AssociationFails, Wifi!LinkLost
    <3> QED BY <1>1, <2>1, <3>1
  <2>3. CASE Wifi!AssociationFails \/ Wifi!LinkLost
    <3>1. "disconnected" \in Wifi!Event /\ Wifi!Post("disconnected") /\ link' = "idle"
      BY <2>3 DEF Wifi!AssociationFails, Wifi!LinkLost, Wifi!Event
    <3>2. AddressSeen' => AddressSeen
      BY <1>q, <2>1, <3>1, PostedAddress DEF AddressSeen
    <3> QED BY <1>1, <2>1, <3>2
  <2> QED BY <1>5, <2>2, <2>3 DEF Radio
<1>6. CASE RetryIntervalElapses
  BY <1>1, <1>2, <1>6 DEF RetryIntervalElapses, Wifi!RetryIntervalElapses, Wifi!view,
                          mqttVars, appVars, AddressInv
<1>7. CASE \/ EventHandler \/ MqttTask \/ ConnectSucceeds \/ ConnectionBreaks
           \/ ClientServesBits
  <2>1. UNCHANGED <<event, link, queue, app>>
    BY <1>7 DEF EventHandler, MqttUp, MqttDownSeesRunning, MqttDownWrites,
         MqttDownIgnored, MqttTask, ConnectSucceeds, ConnectionBreaks,
         ClientServesBits, wifiVars, appVars
  <2>2. client' # "none" => client # "none"
    <3>1. CASE MqttTask
      BY <3>1 DEF MqttTask, Mqtt!ServiceTask, Mqtt!CheckStarted, Mqtt!AwaitStart,
           Mqtt!StartClient, Mqtt!Take, Mqtt!TakeMiscounted, Mqtt!DelayEnds,
           Mqtt!Reconnect, Mqtt!LoadBackoff, Mqtt!StoreBackoff, Mqtt!clientVars, Flagged
    <3>2. CASE EventHandler
      BY <3>2 DEF EventHandler, MqttUp, MqttDownSeesRunning, MqttDownWrites,
           MqttDownIgnored, Mqtt!ConnectCallback, Mqtt!DropCallback,
           Mqtt!StoreConnected, Mqtt!ResetBackoff, Mqtt!BirthSent, Mqtt!BirthFails,
           Mqtt!SubscribeFails, Mqtt!OnError, Mqtt!StoreDisconnected,
           Mqtt!NotifyDisconnect, Mqtt!HandlerReturns, mqttVars, Flagged
    <3>3. CASE ConnectSucceeds \/ ConnectionBreaks \/ ClientServesBits
      BY <3>3 DEF ConnectSucceeds, ConnectionBreaks, ClientServesBits,
           Mqtt!ConnectSucceeds, Mqtt!TransportError, Mqtt!Abort,
           Mqtt!BeginReconnect, Mqtt!HonourDisconnect
    <3> QED BY <1>7, <3>1, <3>2, <3>3
  <2> QED BY <1>1, <1>2, <2>1, <2>2 DEF AddressInv
<1>8. CASE Waits \/ UNCHANGED vars
  BY <1>1, <1>2, <1>8 DEF Waits, vars, wifiVars, mqttVars, appVars, AddressInv
<1> QED BY <1>3, <1>4, <1>5, <1>6, <1>7, <1>8 DEF Next

----------------------------------------------------------------------------
(* The handler of an event: the task holds one event, and passes it on once. *)

HandlingInv ==
    /\ boot = "new" => wifi_pc = "none"
    /\ wifi_pc # "callback" => event = "none" /\ onWifi = "none"
    /\ onWifi = "return" /\ event = "got_ip" => m_started
    /\ deaf => event # "got_ip"

\* The handler at the boot ...
LEMMA HandlingInit == Init => HandlingInv
BY DEF Init, Wifi!Init, Mqtt!Init, HandlingInv

\* ... and after each step.
LEMMA HandlingKept ==
    WifiP!TypeOK /\ WifiP!Deafness /\ HandlingInv /\ [Next]_vars => HandlingInv'
<1> SUFFICES ASSUME WifiP!TypeOK, WifiP!Deafness, HandlingInv, [Next]_vars
             PROVE  HandlingInv'
  OBVIOUS
<1> USE DEF HandlingInv
<1>1. CASE MainTask
  <2>1. CASE InitializeMqtt
    BY <2>1 DEF InitializeMqtt, Mqtt!CreateClient, Mqtt!CreateTask, wifiVars
  <2>2. CASE InitializeWifi \/ WifiFails \/ ConnectWifi
    BY <2>2 DEF InitializeWifi, WifiFails, ConnectWifi, Wifi!Initialize,
         Wifi!InitializeFails, Wifi!SetInitialized, Wifi!SetReconnect, Wifi!Connect,
         Wifi!ConnectFails, Wifi!view, mqttVars, appVars
  <2>3. CASE NoCredentials \/ MqttNotProvisioned \/ MqttFails \/ SetCallbacks
    BY <2>3 DEF NoCredentials, MqttNotProvisioned, MqttFails, SetCallbacks, wifiVars,
                mqttVars
  <2> QED BY <1>1, <2>1, <2>2, <2>3 DEF MainTask
<1>2. CASE WifiTask
  <2>1. CASE WifiEventSetsState \/ WifiEventReturns
    BY <2>1 DEF WifiEventSetsState, WifiEventReturns, Wifi!Callback, wifiVars, mqttVars
  <2>2. CASE WifiEventActs
    BY <2>2 DEF WifiEventActs, CallsMqtt, Mqtt!Start, Mqtt!SeesConnected, wifiVars
  <2>3. CASE FinishMqttCall
    BY <2>3 DEF FinishMqttCall, Mqtt!NotifyStart, Mqtt!RequestDisconnect, wifiVars, appVars
  <2>4. CASE Wifi!Receive /\ UNCHANGED <<mqttVars, appVars>>
    <3>1. /\ queue # <<>> /\ event' = Head(queue) /\ wifi_pc' = "callback"
          /\ wifi_pc = "receive" /\ UNCHANGED <<boot, deaf, m_started, onWifi>>
      BY <2>4 DEF Wifi!Receive, mqttVars, appVars
    <3>2. Head(queue) = queue[1] /\ 1 \in 1..Len(queue)
      BY <3>1, WifiQueue
    <3>3. deaf => Head(queue) # "got_ip"
      BY <3>2 DEF WifiP!Deafness, WifiP!AddressQueued
    <3> QED BY <3>1, <3>3
  <2>5. CASE /\ \/ Wifi!ReceiveTimesOut \/ Wifi!Reconnect \/ Wifi!GiveUp
                \/ Wifi!SkipReconnect
             /\ UNCHANGED <<mqttVars, appVars>>
    BY <2>5 DEF Wifi!ReceiveTimesOut, Wifi!Reconnect, Wifi!GiveUp, Wifi!SkipReconnect,
         mqttVars, appVars
  <2> QED BY <1>2, <2>1, <2>2, <2>3, <2>4, <2>5 DEF WifiTask
<1>3. CASE RetryIntervalElapses \/ Radio
  BY <1>3 DEF RetryIntervalElapses, Wifi!RetryIntervalElapses, Radio, Wifi!GetIp,
       Wifi!AssociationFails, Wifi!LinkLost, Wifi!AddressChanges, mqttVars, appVars
<1>4. CASE EventHandler
  BY <1>4 DEF EventHandler, MqttUp, MqttDownSeesRunning, MqttDownWrites,
       MqttDownIgnored, Mqtt!ConnectCallback, Mqtt!DropCallback, Mqtt!StoreConnected,
       Mqtt!ResetBackoff, Mqtt!BirthSent, Mqtt!BirthFails, Mqtt!SubscribeFails,
       Mqtt!OnError, Mqtt!StoreDisconnected, Mqtt!NotifyDisconnect,
       Mqtt!HandlerReturns, wifiVars, mqttVars, appVars
<1>5. CASE MqttTask
  BY <1>5 DEF MqttTask, Mqtt!ServiceTask, Mqtt!CheckStarted, Mqtt!AwaitStart,
       Mqtt!StartClient, Mqtt!Take, Mqtt!TakeMiscounted, Mqtt!DelayEnds,
       Mqtt!Reconnect, Mqtt!LoadBackoff, Mqtt!StoreBackoff, wifiVars, appVars
<1>6. CASE ConnectSucceeds \/ ConnectionBreaks \/ ClientServesBits
  BY <1>6 DEF ConnectSucceeds, ConnectionBreaks, ClientServesBits,
       Mqtt!ConnectSucceeds, Mqtt!TransportError, Mqtt!Abort, Mqtt!BeginReconnect,
       Mqtt!HonourDisconnect, wifiVars, appVars
<1>7. CASE Waits \/ UNCHANGED vars
  BY <1>7 DEF Waits, vars, wifiVars, mqttVars, appVars
<1> QED BY <1>1, <1>2, <1>3, <1>4, <1>5, <1>6, <1>7 DEF Next

----------------------------------------------------------------------------
(* What the theorems rest on, in one invariant.                            *)

NodeInv == AppTypes /\ StateInv /\ AddressInv /\ HandlingInv

\* It holds at the boot, and after each step of a node whose services keep
\* their own invariants.
LEMMA NodeInvariant == Spec => []NodeInv
<1>1. Init => NodeInv
  BY AppTypesInit, StateInit, AddressInit, HandlingInit DEF NodeInv
<1>2. /\ WifiP!TypeOK /\ WifiP!Deafness /\ MqttP!ServiceInv /\ NodeInv /\ [Next]_vars
      => NodeInv'
  BY ServiceFlags, AppTypesKept, StateKept, AddressKept, HandlingKept DEF NodeInv
<1> QED BY <1>1, <1>2, NodeWifiTypes, NodeDeafness, NodeServiceInv, PTL DEF Spec

----------------------------------------------------------------------------
(* What the node implements.                                               *)

News == event = "got_ip" \/ Wifi!AddressQueued(queue)

\* Only the reports of the network, the receipt of an event and the return of its
\* handler change what the node still has to act on.
LEMMA NewsKept ==
    ASSUME UNCHANGED <<event, queue>> PROVE UNCHANGED News
BY DEF News, Wifi!AddressQueued

\* A post adds what it posts, when the queue has room.
LEMMA NewsPosted ==
    ASSUME queue \in Seq(Wifi!Event), NEW e \in Wifi!Event, Wifi!Post(e), ~dropped',
           UNCHANGED event
    PROVE  News' = (News \/ e = "got_ip")
<1>1. Wifi!Event = WifiP!Event
  BY DEF Wifi!Event, WifiP!Event
<1>2. queue' = Append(queue, e)
  BY DEF Wifi!Post
<1>3. WifiP!AddressQueued(Append(queue, e)) <=> (e = "got_ip" \/ WifiP!AddressQueued(queue))
  BY <1>1, WifiP!QueuedAfterAppend, NodeConstants
<1>4. Wifi!AddressQueued(queue)' <=> (e = "got_ip" \/ Wifi!AddressQueued(queue))
  BY <1>2, <1>3 DEF Wifi!AddressQueued, WifiP!AddressQueued
<1> QED BY <1>4 DEF News

\* A received event is in the hands of the task instead of in the queue.
LEMMA NewsReceived ==
    ASSUME queue \in Seq(Wifi!Event), Wifi!Receive, event = "none" PROVE UNCHANGED News
<1>1. Wifi!Event = WifiP!Event
  BY DEF Wifi!Event, WifiP!Event
<1>2. queue # <<>> /\ event' = Head(queue) /\ queue' = Tail(queue)
  BY DEF Wifi!Receive
<1>3. /\ Head(queue) = "got_ip" => WifiP!AddressQueued(queue)
      /\ Head(queue) # "got_ip" =>
            (WifiP!AddressQueued(Tail(queue)) <=> WifiP!AddressQueued(queue))
  BY <1>1, <1>2, WifiP!QueuedAfterReceive, NodeConstants
<1>4. /\ event' = "got_ip" => Wifi!AddressQueued(queue)
      /\ event' # "got_ip" => (Wifi!AddressQueued(queue)' <=> Wifi!AddressQueued(queue))
  BY <1>2, <1>3 DEF Wifi!AddressQueued, WifiP!AddressQueued
<1> QED BY <1>4 DEF News

\* The steps of the boot.
LEMMA SessionMain ==
    ASSUME WifiP!TypeOK, WifiP!Deafness, Flagged, NodeInv, ~dropped', MainTask
    PROVE  \/ Session!Provision \/ Session!Deafen
           \/ UNCHANGED <<link = "up", News, deaf, m_started, client>>
<1>1. CASE InitializeMqtt /\ app = "mqtt"
  <2>1. /\ client = "none" /\ client' = "idle" /\ app = "mqtt"
        /\ UNCHANGED <<link, deaf, event, queue, m_started>>
    BY <1>1 DEF InitializeMqtt, Mqtt!CreateClient, wifiVars
  <2>2. ~News
    BY <2>1 DEF NodeInv, AddressInv, AddressSeen, BootOver, News, Wifi!AddressQueued
  <2>3. UNCHANGED News
    BY <2>1, NewsKept
  <2> QED BY <2>1, <2>2, <2>3 DEF Session!Provision, News
<1>2. CASE InitializeMqtt /\ app # "mqtt"
  <2>1. UNCHANGED <<link, deaf, event, queue, m_started, client>>
    BY <1>2 DEF InitializeMqtt, Mqtt!CreateTask, Mqtt!clientVars, wifiVars
  <2> QED BY <2>1, NewsKept
<1>3. CASE ConnectWifi
  <2>1. /\ "sta_start" \in Wifi!Event /\ Wifi!Post("sta_start") /\ boot = "ready"
        /\ link' = "idle" /\ UNCHANGED <<deaf, event, m_started, client>>
    BY <1>3 DEF ConnectWifi, Wifi!Connect, Wifi!Event, mqttVars
  <2>2. UNCHANGED News
    BY <2>1, NewsPosted, WifiQueue DEF News
  <2>3. link # "up"
    BY <1>3 DEF ConnectWifi, NodeInv, AddressInv, AddressSeen, BootOver
  <2> QED BY <2>1, <2>2, <2>3
<1>4. CASE InitializeWifi /\ Wifi!Initialize
  <2>1. /\ app = "wifi" /\ boot = "new" /\ deaf' \in BOOLEAN
        /\ UNCHANGED <<link, event, queue, m_started, client>>
    BY <1>4 DEF InitializeWifi, Wifi!Initialize, mqttVars
  <2>2. deaf = FALSE /\ link # "up"
    BY <2>1 DEF WifiP!Deafness, NodeInv, AddressInv, AddressSeen, BootOver
  <2>3. UNCHANGED News
    BY <2>1, NewsKept
  <2>4. CASE deaf' = TRUE
    BY <2>1, <2>2, <2>3, <2>4 DEF Session!Deafen, News
  <2>5. CASE deaf' = FALSE
    BY <2>1, <2>2, <2>3, <2>5
  <2> QED BY <2>1, <2>4, <2>5
<1>5. CASE ~(InitializeMqtt \/ ConnectWifi \/ (InitializeWifi /\ Wifi!Initialize))
  <2>1. UNCHANGED <<link, deaf, event, queue, m_started, client>>
    BY <1>5 DEF MainTask, NoCredentials, InitializeWifi, WifiFails, MqttNotProvisioned,
         MqttFails, SetCallbacks, Wifi!InitializeFails,
         Wifi!SetInitialized, Wifi!SetReconnect, Wifi!ConnectFails, wifiVars, mqttVars
  <2> QED BY <2>1, NewsKept
<1> QED BY <1>1, <1>2, <1>3, <1>4, <1>5

\* The steps of the WiFi task: an address is passed on before its handling ends.
LEMMA SessionWifi ==
    ASSUME WifiP!TypeOK, Staged, NodeInv, WifiTask
    PROVE  \/ Session!Start \/ Session!Hear
           \/ UNCHANGED <<link = "up", News, deaf, m_started, client>>
<1>1. CASE Wifi!Receive
  <2>1. event = "none" /\ UNCHANGED <<link, deaf, m_started, client>>
    BY <1>1 DEF WifiTask, WifiEventSetsState, WifiEventActs, FinishMqttCall,
         WifiEventReturns, Wifi!Receive, Wifi!Callback, NodeInv, HandlingInv, mqttVars,
         wifiVars
  <2> QED BY <1>1, <2>1, NewsReceived, WifiQueue
<1>2. CASE WifiEventActs
  <2>1. UNCHANGED <<link, deaf, event, queue>>
    BY <1>2 DEF WifiEventActs, wifiVars
  <2>2. CASE event = "got_ip" /\ Mqtt!Start
    <3>1. /\ client = "idle" /\ ~m_started /\ m_started' = TRUE /\ UNCHANGED client
      BY <2>2 DEF Mqtt!Start, Mqtt!clientVars, Staged
    <3> QED BY <2>1, <2>2, <3>1, NewsKept DEF Session!Start, News
  <2>3. CASE Mqtt!SeesConnected
    BY <2>1, <2>3, NewsKept DEF Mqtt!SeesConnected, Mqtt!clientVars
  <2> QED BY <1>2, <2>2, <2>3 DEF WifiEventActs, CallsMqtt
<1>3. CASE WifiEventReturns
  <2>1. event' = "none" /\ UNCHANGED <<link, deaf, queue, m_started, client>>
    BY <1>3 DEF WifiEventReturns, Wifi!Callback, mqttVars
  <2>2. CASE event = "got_ip"
    <3>1. client = "none" \/ m_started
      BY <1>3, <2>2 DEF WifiEventReturns, NothingToCall, NodeInv, HandlingInv
    <3>2. News /\ News' \in BOOLEAN
      BY <2>2 DEF News, Wifi!AddressQueued
    <3> QED BY <2>1, <3>1, <3>2 DEF Session!Hear, News
  <2>3. CASE event # "got_ip"
    <3>1. UNCHANGED News
      BY <2>1, <2>3 DEF News, Wifi!AddressQueued
    <3> QED BY <2>1, <3>1
  <2> QED BY <2>2, <2>3
<1>4. CASE Wifi!Reconnect /\ UNCHANGED mqttVars
  <2>1. (link' = "up") = (link = "up") /\ UNCHANGED <<deaf, event, queue, m_started, client>>
    BY <1>4 DEF Wifi!Reconnect, Wifi!Associate, mqttVars
  <2> QED BY <2>1, NewsKept
<1>5. CASE ~(Wifi!Receive \/ WifiEventActs \/ WifiEventReturns \/ Wifi!Reconnect)
  <2>1. UNCHANGED <<link, deaf, event, queue, m_started, client>>
    BY <1>5 DEF WifiTask, WifiEventSetsState, FinishMqttCall, Wifi!ReceiveTimesOut,
         Wifi!GiveUp, Wifi!SkipReconnect, Mqtt!NotifyStart, Mqtt!RequestDisconnect,
         Mqtt!clientVars, wifiVars, mqttVars
  <2> QED BY <2>1, NewsKept
<1>6. Wifi!Reconnect => UNCHANGED mqttVars \/ WifiEventActs \/ WifiEventReturns
  BY DEF WifiTask, WifiEventSetsState, FinishMqttCall, Mqtt!NotifyStart,
         Mqtt!RequestDisconnect, wifiVars, mqttVars, Wifi!Reconnect
<1> QED BY <1>1, <1>2, <1>3, <1>4, <1>5, <1>6

\* The steps of the network: what is posted is news, and what is lost is lost.
LEMMA SessionRadio ==
    ASSUME WifiP!TypeOK, WifiP!Deafness, NodeInv, ~dropped', Radio
    PROVE  \/ Session!Obtain \/ Session!Lose
           \/ UNCHANGED <<link = "up", News, deaf, m_started, client>>
<1>1. UNCHANGED <<deaf, event, m_started, client>>
  BY DEF Radio, Wifi!GetIp, Wifi!AssociationFails, Wifi!LinkLost, Wifi!AddressChanges,
         mqttVars
<1>2. CASE Wifi!GetIp \/ Wifi!AddressChanges
  <2>1. /\ "got_ip" \in Wifi!Event /\ link' = "up"
        /\ IF deaf THEN UNCHANGED queue ELSE Wifi!Post("got_ip")
    BY <1>2 DEF Wifi!GetIp, Wifi!AddressChanges, Wifi!PostAddress, Wifi!Event
  <2>2. CASE deaf
    <3>1. News = FALSE
      BY <2>2 DEF News, WifiP!Deafness, WifiP!AddressQueued, Wifi!AddressQueued, NodeInv,
                  HandlingInv
    <3>2. News' = FALSE
      BY <1>1, <2>1, <2>2, <3>1, NewsKept
    <3>3. News' = ~deaf
      BY <2>2, <3>2
    <3> QED BY <1>1, <2>1, <3>3 DEF Session!Obtain, News
  <2>3. CASE ~deaf
    <3>1. News' = TRUE
      BY <1>1, <2>1, <2>3, NewsPosted, WifiQueue DEF News
    <3>2. News' = ~deaf
      BY <2>3, <3>1
    <3> QED BY <1>1, <2>1, <3>2 DEF Session!Obtain, News
  <2> QED BY <2>2, <2>3
<1>3. CASE Wifi!AssociationFails \/ Wifi!LinkLost
  <2>1. /\ "disconnected" \in Wifi!Event /\ Wifi!Post("disconnected")
        /\ link' = "idle" /\ link \in {"connecting", "up"}
    BY <1>3 DEF Wifi!AssociationFails, Wifi!LinkLost, Wifi!Event
  <2>2. UNCHANGED News
    BY <1>1, <2>1, NewsPosted, WifiQueue DEF News
  <2>3. CASE link = "up"
    BY <1>1, <2>1, <2>2, <2>3 DEF Session!Lose, News
  <2>4. CASE link # "up"
    BY <1>1, <2>1, <2>2, <2>4
  <2> QED BY <2>3, <2>4
<1> QED BY <1>2, <1>3 DEF Radio

\* The steps of the two MQTT tasks: the session goes its way.
LEMMA SessionMqtt ==
    ASSUME Flagged, Staged,
           \/ MqttTask \/ EventHandler
           \/ ConnectSucceeds \/ ConnectionBreaks \/ ClientServesBits
    PROVE  \/ Session!Begin \/ Session!Connect \/ Session!Break \/ Session!Again
           \/ UNCHANGED <<link = "up", News, deaf, m_started, client>>
<1>1. UNCHANGED <<link, deaf, event, queue>>
  BY DEF MqttTask, EventHandler, MqttUp, MqttDownSeesRunning, MqttDownWrites,
         MqttDownIgnored, ConnectSucceeds, ConnectionBreaks, ClientServesBits, wifiVars
<1>2. UNCHANGED News
  BY <1>1, NewsKept
<1>3. CASE MqttTask
  <2>1. CASE Mqtt!StartClient
    BY <1>1, <1>2, <2>1 DEF Mqtt!StartClient, Staged, Session!Begin, News
  <2>2. CASE ~Mqtt!StartClient
    BY <1>1, <1>2, <1>3, <2>2 DEF MqttTask, Mqtt!ServiceTask, Mqtt!CheckStarted,
         Mqtt!AwaitStart, Mqtt!Take, Mqtt!TakeMiscounted, Mqtt!DelayEnds,
         Mqtt!Reconnect, Mqtt!LoadBackoff, Mqtt!StoreBackoff, Mqtt!clientVars
  <2> QED BY <2>1, <2>2
<1>4. CASE EventHandler /\ ~Mqtt!BirthFails
  BY <1>1, <1>2, <1>4 DEF EventHandler, MqttUp, MqttDownSeesRunning, MqttDownWrites,
       MqttDownIgnored, Mqtt!ConnectCallback, Mqtt!DropCallback, Mqtt!StoreConnected,
       Mqtt!ResetBackoff, Mqtt!BirthSent, Mqtt!SubscribeFails, Mqtt!OnError,
       Mqtt!StoreDisconnected, Mqtt!NotifyDisconnect, Mqtt!HandlerReturns, mqttVars
<1>b. CASE Mqtt!BirthFails /\ UNCHANGED appVars
  <2>1. UNCHANGED m_started /\ (UNCHANGED client \/ client' = "parked")
    BY <1>b DEF Mqtt!BirthFails
  <2>2. client = "connected"
    BY <1>b DEF Mqtt!BirthFails, Flagged
  <2> QED BY <1>1, <1>2, <2>1, <2>2 DEF Session!Break, News
<1>5. CASE ConnectSucceeds
  BY <1>1, <1>2, <1>5 DEF ConnectSucceeds, Mqtt!ConnectSucceeds, Session!Connect, News
<1>6. CASE ConnectionBreaks
  BY <1>1, <1>2, <1>6 DEF ConnectionBreaks, Mqtt!TransportError, Mqtt!Abort,
       Session!Break, News
<1>7. CASE ClientServesBits
  BY <1>1, <1>2, <1>7 DEF ClientServesBits, Mqtt!BeginReconnect, Mqtt!HonourDisconnect,
       Session!Again, Session!Break, News
<1>c. Mqtt!BirthFails /\ EventHandler => UNCHANGED appVars
  BY DEF Mqtt!BirthFails, EventHandler, MqttUp, Mqtt!ConnectCallback, MqttDownSeesRunning,
         MqttDownWrites, MqttDownIgnored, Mqtt!DropCallback
<1> QED BY <1>3, <1>4, <1>b, <1>c, <1>5, <1>6, <1>7

\* Every step of the node is a step of the session, or none.
LEMMA SessionStep ==
    ASSUME WifiP!TypeOK, WifiP!Deafness, Flagged, Staged, NodeInv, ~dropped', [Next]_vars
    PROVE  [Session!Next]_(Session!sessionVars)
<1>1. UNCHANGED <<link = "up", News, deaf, m_started, client>> => UNCHANGED Session!sessionVars
  BY DEF Session!sessionVars, News
<1>2. CASE MainTask
  BY <1>1, <1>2, SessionMain DEF Session!Next
<1>3. CASE WifiTask
  BY <1>1, <1>3, SessionWifi DEF Session!Next
<1>4. CASE Radio
  BY <1>1, <1>4, SessionRadio DEF Session!Next
<1>5. CASE MqttTask \/ EventHandler \/ ConnectSucceeds \/ ConnectionBreaks
                    \/ ClientServesBits
  BY <1>1, <1>5, SessionMqtt DEF Session!Next
<1>6. CASE RetryIntervalElapses \/ Waits \/ UNCHANGED vars
  <2>1. UNCHANGED <<link, deaf, event, queue, m_started, client>>
    BY <1>6 DEF RetryIntervalElapses, Wifi!RetryIntervalElapses, Waits, vars, wifiVars,
                mqttVars
  <2> QED BY <1>1, <2>1, NewsKept
<1> QED BY <1>2, <1>3, <1>4, <1>5, <1>6 DEF Next

----------------------------------------------------------------------------
(* The theorems, for every queue length, number of attempts and backoff.   *)

\* Every variable of the application and of its two services keeps its type.
THEOREM NodeTypeCorrect == Spec => []TypeOK
<1>1. WifiP!TypeOK /\ MqttP!ServiceInv /\ NodeInv => TypeOK
  BY MqttP!ServiceTypes, NodeConstants, SameTypes DEF NodeInv, AppTypes, TypeOK
<1> QED BY <1>1, NodeInvariant, NodeWifiTypes, NodeServiceInv, PTL

\* FalseRunningOnlyByFailedBirth: in whatever order the two tasks write the state,
\* a RUNNING that a lost session leaves behind is that of the CONNECTED handler
\* whose birth message failed.
THEOREM RunningIsTrueOrUnborn == Spec => []FalseRunningOnlyByFailedBirth
<1>1. NodeInv => FalseRunningOnlyByFailedBirth
  BY DEF NodeInv, StateInv, FalseRunningOnlyByFailedBirth
<1> QED BY <1>1, NodeInvariant, PTL

\* The node takes the steps of both services and no others: whatever is
\* proved of their safety holds within it.
THEOREM NodeRunsServices ==
    Spec => /\ Wifi!Init /\ [][Wifi!Next]_(Wifi!vars)
            /\ Mqtt!Init /\ [][Mqtt!Next]_(Mqtt!vars)
<1>1. Init => Wifi!Init /\ Mqtt!Init
  BY DEF Init
<1> QED BY <1>1, WifiStep, MqttStep, PTL DEF Spec

\* The safety part of ImplementsNodeSession: with four slots or more, an address that
\* was obtained is kept until the session was started, or can never be, and nothing
\* but an address starts it, in whatever order the tasks run.
THEOREM SessionImplemented ==
    ASSUME EventQueueSize >= 4
    PROVE  Spec => Session!Init /\ [][Session!Next]_(Session!sessionVars)
<1>1. Init => Session!Init
  BY DEF Init, Wifi!Init, Mqtt!Init, Session!Init, Wifi!AddressQueued
<1>2. /\ WifiP!TypeOK /\ WifiP!Deafness /\ MqttP!ServiceInv /\ NodeInv
      /\ WifiP!NoEventDropped'
      /\ [Next]_vars
      => [Session!Next]_(Session!sessionVars)
  BY SessionStep, ServiceFlags, ServiceStages DEF WifiP!NoEventDropped
<1>3. Spec => []WifiP!NoEventDropped
  BY NodeTakesSteps, NodeConstants, WifiP!QueueHolds, PTL
<1> QED BY <1>1, <1>2, <1>3, NodeInvariant, NodeWifiTypes, NodeDeafness, NodeServiceInv,
           PTL DEF Spec

\* With four slots or more the queue of WiFi events never overflows, although
\* the task that drains it also runs the application's handler and its calls
\* into the MQTT service.
THEOREM NodeDropsNoEvent ==
    ASSUME EventQueueSize >= 4 PROVE Spec => []Wifi!NoEventDropped
<1>1. WifiP!NoEventDropped <=> Wifi!NoEventDropped
  BY DEF WifiP!NoEventDropped, Wifi!NoEventDropped
<1> QED BY <1>1, NodeTakesSteps, NodeConstants, WifiP!QueueHolds, PTL

\* Within the node too, the service gives a link up only with its attempts
\* spent, and its view of the link follows the link.
THEOREM NodeKeepsView ==
    Spec => [](Wifi!ViewAfterDrain /\ Wifi!NotRetryingMeansSpent)
<1>1. /\ WifiP!ViewAfterDrain <=> Wifi!ViewAfterDrain
      /\ WifiP!NotRetryingMeansSpent <=> Wifi!NotRetryingMeansSpent
  BY DEF WifiP!ViewAfterDrain, Wifi!ViewAfterDrain, WifiP!Agrees, Wifi!Agrees,
         WifiP!Newest, Wifi!Newest, WifiP!IsLinkEvent, Wifi!IsLinkEvent,
         WifiP!NotRetryingMeansSpent, Wifi!NotRetryingMeansSpent
<1> QED BY <1>1, NodeTakesSteps, NodeConstants, WifiP!ViewHolds, WifiP!RetryingHolds, PTL

\* Within the node too, each lost session is on its way back in exactly one
\* place, unless start() raced with the first loop of the task.
THEOREM NodeRetriesOnce ==
    Spec => [](Mqtt!OneRetryPerDrop /\ Mqtt!StrandedOnlyByStartRace)
<1>1. /\ MqttP!OneRetryPerDrop <=> Mqtt!OneRetryPerDrop
      /\ MqttP!StrandedOnlyByStartRace <=> Mqtt!StrandedOnlyByStartRace
  BY DEF MqttP!OneRetryPerDrop, Mqtt!OneRetryPerDrop, MqttP!InFirstLoop,
         Mqtt!InFirstLoop, MqttP!Trackers, Mqtt!Trackers, MqttP!Count, Mqtt!Count,
         MqttP!Dropping, Mqtt!Dropping, MqttP!Backing, Mqtt!Backing,
         MqttP!StrandedOnlyByStartRace, Mqtt!StrandedOnlyByStartRace,
         MqttP!Stranded, Mqtt!Stranded
<1>2. MqttP!ServiceInv => Mqtt!OneRetryPerDrop /\ Mqtt!StrandedOnlyByStartRace
  BY <1>1, MqttP!ServiceParts, MqttP!ServiceStranded, NodeConstants
<1> QED BY <1>2, NodeServiceInv, PTL

\* Within the node too, the two services make no try and no retry that LinkRetry
\* and BrokerRetry would not, although the application calls them from two tasks.
THEOREM NodeRetriesAsPromised ==
    ASSUME EventQueueSize >= 4
    PROVE  Spec => WifiP!RetrySteps /\ MqttP!RetrySteps
BY NodeTakesSteps, NodeConstants, WifiP!RetriesLink, MqttP!RetriesBroker, PTL
=============================================================================
