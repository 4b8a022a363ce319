-------------------------------- MODULE Node --------------------------------
(***************************************************************************)
(* The application (main/app/src/Application.cpp) between its two          *)
(* services: it boots them in order, starts MQTT when WiFi has an address, *)
(* drops the session when WiFi is lost, and keeps AppState from the        *)
(* callbacks of both.                                                      *)
(*                                                                         *)
(* The WiFi callback runs in the WiFi task and the connection callback in  *)
(* the esp-mqtt task, concurrently.  Both write the state machine, whose   *)
(* setState is one atomic exchange; what a callback reads before, or calls *)
(* after, is a step of its own here.                                       *)
(***************************************************************************)
EXTENDS Integers, Sequences

CONSTANTS EventQueueSize, MaxAttempts, InitialBackoff, MaxBackoff

ASSUME NodeConstants ==
    /\ EventQueueSize \in Nat \ {0} /\ MaxAttempts \in Nat \ {0}
    /\ InitialBackoff \in Nat \ {0} /\ MaxBackoff \in Nat
    /\ InitialBackoff <= MaxBackoff

VARIABLES
    \* WifiService
    boot, deaf, link, queue, dropped, wifi_initialized, wifi_connected,
    m_should_reconnect, m_reconnect_attempts, retryDue, wifi_pc, event,
    \* MqttService
    client, reconnectBit, disconnectBit, handler, birthFailed, mqtt_connected,
    m_started, m_backoff_ms, notified, mqtt_pc, wait_ms, loaded, caller,
    startRaced,
    \* Application
    m_state,      \* AppStateMachine::m_state
    app,          \* where the main task is in initialize()
    onWifi,       \* where the WiFi task is in onWifiEvent
    onDrop        \* where the esp-mqtt task is in onMqttConnection(false)

Wifi == INSTANCE WifiService WITH
            m_initialized <- wifi_initialized, m_connected <- wifi_connected,
            pc <- wifi_pc

Mqtt == INSTANCE MqttService WITH m_connected <- mqtt_connected, pc <- mqtt_pc

wifiVars == <<boot, deaf, link, queue, dropped, wifi_initialized, wifi_connected,
              m_should_reconnect, m_reconnect_attempts, retryDue, wifi_pc, event>>
mqttVars == <<client, reconnectBit, disconnectBit, handler, birthFailed,
              mqtt_connected, m_started, m_backoff_ms, notified, mqtt_pc,
              wait_ms, loaded, caller, startRaced>>
appVars == <<m_state, app, onWifi, onDrop>>
vars == <<wifiVars, mqttVars, appVars>>

AppState == {"INIT", "WIFI_CONNECTING", "MQTT_CONNECTING", "RUNNING"}

TypeOK ==
    /\ Wifi!TypeOK /\ Mqtt!TypeOK
    /\ m_state \in AppState
    /\ app \in {"wifi", "mqtt", "mqttTask", "callbacks", "done", "failed"}
    /\ onWifi \in {"none", "act", "return"}
    /\ onDrop \in {"none", "write"}

Init ==
    /\ Wifi!Init /\ Mqtt!Init
    /\ m_state = "INIT" /\ app = "wifi"
    /\ onWifi = "none" /\ onDrop = "none"

setState(s) == m_state' = s

----------------------------------------------------------------------------
(* The main task: initialize().                                            *)

\* No WiFi credentials: the node boots to its console.
NoCredentials ==
    /\ app = "wifi" /\ boot = "new" /\ app' = "mqtt"
    /\ UNCHANGED <<wifiVars, mqttVars, m_state, onWifi, onDrop>>

InitializeWifi ==
    /\ app = "wifi" /\ (Wifi!Initialize \/ Wifi!SetInitialized \/ Wifi!SetReconnect)
    /\ UNCHANGED <<mqttVars, appVars>>

WifiFails ==
    /\ app = "wifi" /\ app' = "failed"
    /\ \/ Wifi!InitializeFails /\ UNCHANGED m_state
       \/ Wifi!ConnectFails /\ setState("WIFI_CONNECTING")
    /\ UNCHANGED <<mqttVars, onWifi, onDrop>>

\* The state is written before connect(), when no event can come yet.
ConnectWifi ==
    /\ app = "wifi" /\ app' = "mqtt"
    /\ setState("WIFI_CONNECTING") /\ Wifi!Connect
    /\ UNCHANGED <<mqttVars, onWifi, onDrop>>

MqttNotProvisioned ==
    /\ app = "mqtt" /\ app' = "done"
    /\ UNCHANGED <<wifiVars, mqttVars, m_state, onWifi, onDrop>>

MqttFails ==
    /\ app = "mqtt" /\ app' = "failed"
    /\ UNCHANGED <<wifiVars, mqttVars, m_state, onWifi, onDrop>>

InitializeMqtt ==
    /\ \/ app = "mqtt" /\ Mqtt!CreateClient /\ app' = "mqttTask"
       \/ app = "mqttTask" /\ Mqtt!CreateTask /\ app' = "callbacks"
    /\ UNCHANGED <<wifiVars, m_state, onWifi, onDrop>>

SetCallbacks ==
    /\ app = "callbacks" /\ app' = "done"
    /\ UNCHANGED <<wifiVars, mqttVars, m_state, onWifi, onDrop>>

MainTask == \/ NoCredentials \/ InitializeWifi \/ WifiFails \/ ConnectWifi
            \/ MqttNotProvisioned \/ MqttFails \/ InitializeMqtt \/ SetCallbacks

----------------------------------------------------------------------------
(* The WiFi task: onWifiEvent, called from Wifi!Callback.                  *)

\* Seeded fault: the enumerator nothing leaves again.
StateOnAddress(e) == IF e = "got_ip" THEN "WIFI_CONNECTED" ELSE "WIFI_CONNECTING"

StateOn(e) == IF e = "got_ip" THEN "MQTT_CONNECTING" ELSE "WIFI_CONNECTING"

WifiEventSetsState ==
    /\ wifi_pc = "callback" /\ onWifi = "none"
    /\ setState(StateOn(event)) /\ onWifi' = "act"
    /\ UNCHANGED <<wifiVars, mqttVars, app, onDrop>>

\* m_mqtt_service.start() on GOT_IP, notifyWifiDown() on DISCONNECTED ...
CallsMqtt ==
    \/ event = "got_ip" /\ Mqtt!Start
    \/ event = "disconnected" /\ Mqtt!SeesConnected

WifiEventActs ==
    /\ onWifi = "act" /\ onWifi' = "return"
    /\ CallsMqtt
    /\ UNCHANGED <<wifiVars, m_state, app, onDrop>>

FinishMqttCall ==
    /\ Mqtt!NotifyStart \/ Mqtt!RequestDisconnect
    /\ UNCHANGED <<wifiVars, appVars>>

\* Seeded fault: the address is not always passed on to MQTT.
NothingToStart == event \in {"sta_start", "got_ip"} \/ ~mqtt_connected

\* Seeded fault: the loss is not always passed on to MQTT.
NothingToDrop == event # "got_ip" \/ client = "none" \/ m_started

\* ... unless there is nothing to start or to drop.
NothingToCall ==
    \/ event = "sta_start"
    \/ event = "got_ip" /\ (client = "none" \/ m_started)
    \/ event = "disconnected" /\ (client = "none" \/ ~mqtt_connected)

WifiEventReturns ==
    /\ \/ onWifi = "act" /\ NothingToCall
       \/ onWifi = "return" /\ caller = "none"
    /\ onWifi' = "none" /\ Wifi!Callback
    /\ UNCHANGED <<mqttVars, m_state, app, onDrop>>

WifiTask ==
    \/ /\ \/ Wifi!Receive \/ Wifi!ReceiveTimesOut
          \/ Wifi!Reconnect \/ Wifi!GiveUp \/ Wifi!SkipReconnect
       /\ UNCHANGED <<mqttVars, appVars>>
    \/ WifiEventSetsState \/ WifiEventActs \/ FinishMqttCall \/ WifiEventReturns

RetryIntervalElapses == Wifi!RetryIntervalElapses /\ UNCHANGED <<mqttVars, appVars>>

----------------------------------------------------------------------------
(* The esp-mqtt task: onMqttConnection, called from the two callbacks of   *)
(* Mqtt!EventHandler.                                                      *)

MqttUp ==
    /\ Mqtt!ConnectCallback /\ setState("RUNNING")
    /\ UNCHANGED <<wifiVars, app, onWifi, onDrop>>

\* getState() == RUNNING, then setState: two atomic operations.
MqttDownSeesRunning ==
    /\ handler = "dropCallback" /\ onDrop = "none" /\ m_state = "RUNNING"
    /\ onDrop' = "write"
    /\ UNCHANGED <<wifiVars, mqttVars, m_state, app, onWifi>>

\* Seeded fault: the read state is not acted on.
MqttDownForgets ==
    /\ onDrop = "write" /\ onDrop' = "none"
    /\ Mqtt!DropCallback
    /\ UNCHANGED <<wifiVars, m_state, app, onWifi>>

MqttDownWrites ==
    /\ onDrop = "write" /\ onDrop' = "none"
    /\ Mqtt!DropCallback /\ setState("MQTT_CONNECTING")
    /\ UNCHANGED <<wifiVars, app, onWifi>>

MqttDownIgnored ==
    /\ handler = "dropCallback" /\ onDrop = "none" /\ m_state # "RUNNING"
    /\ Mqtt!DropCallback
    /\ UNCHANGED <<wifiVars, appVars>>

EventHandler ==
    \/ /\ \/ Mqtt!StoreConnected \/ Mqtt!ResetBackoff
          \/ Mqtt!BirthSent \/ Mqtt!BirthFails \/ Mqtt!SubscribeFails
          \/ Mqtt!OnError \/ Mqtt!StoreDisconnected \/ Mqtt!NotifyDisconnect
       /\ UNCHANGED <<wifiVars, appVars>>
    \/ MqttUp \/ MqttDownSeesRunning \/ MqttDownWrites \/ MqttDownIgnored

MqttTask == Mqtt!ServiceTask /\ UNCHANGED <<wifiVars, appVars>>

----------------------------------------------------------------------------
(* The network, external.                                                  *)

\* The first association attempt comes five seconds after boot, and
\* initialize() is long over when it brings an address.
BootOver == app \in {"done", "failed"}

Radio ==
    /\ \/ Wifi!GetIp /\ BootOver
       \/ Wifi!AssociationFails \/ Wifi!LinkLost \/ Wifi!AddressChanges
    /\ UNCHANGED <<mqttVars, appVars>>

AssociationEnds == link = "connecting" /\ Radio

\* The broker answers through the link; a dead TCP connection may take any
\* time to be noticed.
ConnectSucceeds ==
    /\ link = "up" /\ Mqtt!ConnectSucceeds
    /\ UNCHANGED <<wifiVars, appVars>>

ConnectionBreaks == (Mqtt!TransportError \/ Mqtt!Abort) /\ UNCHANGED <<wifiVars, appVars>>

ClientServesBits ==
    (Mqtt!BeginReconnect \/ Mqtt!HonourDisconnect) /\ UNCHANGED <<wifiVars, appVars>>

----------------------------------------------------------------------------
\* ulTaskNotifyTake times out; or the boot failed and app_main returned.
Waits == mqtt_pc \in {"none", "take"} /\ notified = 0 /\ UNCHANGED vars

Next == \/ MainTask \/ WifiTask \/ RetryIntervalElapses \/ EventHandler
        \/ MqttTask \/ Radio \/ ConnectSucceeds \/ ConnectionBreaks
        \/ ClientServesBits \/ Waits

\* As in the two services.  Strong fairness of ConnectSucceeds is a broker
\* that is up: an attempt made again and again succeeds in the end.
Fairness ==
    /\ WF_vars(MainTask) /\ WF_vars(WifiTask) /\ WF_vars(RetryIntervalElapses)
    /\ WF_vars(EventHandler) /\ WF_vars(MqttTask)
    /\ WF_vars(AssociationEnds) /\ WF_vars(ClientServesBits)
    /\ WF_vars(client = "connecting" /\ (ConnectSucceeds \/ ConnectionBreaks))
    /\ WF_vars(handler = "aborting" /\ ConnectionBreaks)
    /\ SF_vars(ConnectSucceeds)

Spec == Init /\ [][Next]_vars /\ Fairness

----------------------------------------------------------------------------
(* Properties                                                              *)

\* RUNNING is claimed without a broker connection only while a handler runs: no
\* interleaving of the two tasks' writes of the state loses the demotion.  One
\* order does, that of the callbacks within the CONNECTED handler: when its birth
\* message fails, the false of the nested DISCONNECTED comes before its own true,
\* and RUNNING stands until the outcome of the retry.
FalseRunningOnlyByFailedBirth ==
    (m_state = "RUNNING" /\ handler = "none") => (mqtt_connected \/ birthFailed)

\* The way back, across both services: on a node that is provisioned, with a
\* link that comes up and stays up and a broker that answers, the session is
\* up again and again, however often it breaks.  That takes a node that hears of
\* its address, and an esp-mqtt client that could be started.
StableNetworkReconnects ==
    (<>[](/\ link = "up" /\ ~deaf
          /\ client \notin {"none", "dead"} /\ ~startRaced)) => []<>mqtt_connected

\* Losing WiFi ends a session that isConnected() shows when the loss is
\* handled: it does not wait for the keepalive.
HandlingLoss == wifi_pc = "callback" /\ event = "disconnected" /\ onWifi = "act"

FlaggedSessionDropped ==
    (HandlingLoss /\ mqtt_connected) ~> (client # "connected" \/ link = "up")

\* What the application promises of the session: an address that was obtained, in
\* the queue or in the hands of the WiFi task, starts it, and nothing else does.
Session == INSTANCE NodeSession
           WITH up <- link = "up", started <- m_started,
                news <- event = "got_ip" \/ Wifi!AddressQueued(queue)

ImplementsNodeSession == Session!Spec

----------------------------------------------------------------------------
(* What the comments of the code promise, and the code does not keep.      *)

\* "Drop the broker connection now [...] instead of waiting out the 45 s
\* keepalive" (onWifiEvent): for any session, not only a flagged one.
WifiLossEndsSession ==
    (link # "up" /\ client = "connected") ~> (client # "connected" \/ link = "up")

\* "Without this the application state would stay at MQTT_CONNECTING forever"
\* (MqttService.h): with both services at rest and connected, the state is
\* RUNNING.
AtRest == /\ queue = <<>> /\ wifi_pc = "receive"
          /\ handler = "none" /\ caller = "none"

ConnectedMeansRunning == (AtRest /\ mqtt_connected) => m_state = "RUNNING"
=============================================================================
