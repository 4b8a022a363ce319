---------------------------- MODULE MqttService ----------------------------
(***************************************************************************)
(* The MQTT service of the node (main/services/mqtt/MqttService.cpp): the  *)
(* supervisor of one broker connection.                                    *)
(*                                                                         *)
(* Four tasks share its state without a lock.  The main task runs          *)
(* initialize.  The WiFi task calls start and notifyWifiDown from the      *)
(* application's callback.  The esp-mqtt task runs eventHandler.  The      *)
(* service task waits in taskLoop for a task notification per disconnect,  *)
(* backs off and asks the client to reconnect.                             *)
(*                                                                         *)
(* esp-mqtt is external.  With its auto-reconnect disabled it parks after  *)
(* every lost connection until RECONNECT_BIT is set, and                   *)
(* esp_mqtt_client_reconnect sets that bit only while it is parked.  A     *)
(* publish or subscribe of the CONNECTED handler whose write fails is      *)
(* reported from within: esp-mqtt runs eventHandler again, nested.         *)
(* A FreeRTOS notification is a counter: Give adds one, Take with          *)
(* xClearCountOnExit returns its value and zeroes it.                      *)
(***************************************************************************)
EXTENDS Integers

CONSTANTS InitialBackoff,  \* INITIAL_BACKOFF_MS, 2000
          MaxBackoff       \* MAX_BACKOFF_MS, 60000

ASSUME MqttConstants == /\ InitialBackoff \in Nat \ {0}
                        /\ MaxBackoff \in Nat
                        /\ InitialBackoff <= MaxBackoff

VARIABLES client,        \* m_client and, once it exists, esp-mqtt's state
          reconnectBit,  \* esp-mqtt's RECONNECT_BIT
          disconnectBit, \* esp-mqtt's DISCONNECT_BIT
          handler,       \* where the esp-mqtt task is in eventHandler
          birthFailed,   \* the birth message of the last CONNECTED could not be
                         \* written: its handler goes on after the nested ones
          m_connected,
          m_started,
          m_backoff_ms,
          notified,      \* the service task's notification count
          pc,            \* where the service task is; "none": m_task is null
          wait_ms,       \* taskLoop's local: the delay before the reconnect
          loaded,        \* m_backoff_ms as read by the doubling
          caller,        \* where the WiFi task is in start or notifyWifiDown
          startRaced     \* history: taskLoop left its first loop with the
                         \* notification of start() given or still to come

clientVars  == <<client, reconnectBit, disconnectBit, handler, birthFailed>>
serviceVars == <<pc, wait_ms, loaded, startRaced>>
vars == <<clientVars, m_connected, m_started, m_backoff_ms, notified,
          serviceVars, caller>>

TypeOK ==
    /\ client \in {"none", "idle", "dead", "connecting", "connected", "parked"}
    /\ reconnectBit \in BOOLEAN /\ disconnectBit \in BOOLEAN
    /\ handler \in {"none", "connected", "resetBackoff", "birth", "connectCallback",
                    "error", "aborting", "disconnected", "dropCallback", "notify"}
    /\ birthFailed \in BOOLEAN
    /\ m_connected \in BOOLEAN /\ m_started \in BOOLEAN
    /\ m_backoff_ms \in Nat /\ loaded \in Nat /\ wait_ms \in Nat
    /\ notified \in 0..2
    /\ pc \in {"none", "checkStart", "awaitStart", "startClient", "take",
               "delay", "reconnect", "load", "store"}
    /\ caller \in {"none", "notify", "disconnect"}
    /\ startRaced \in BOOLEAN

Init ==
    /\ client = "none" /\ handler = "none" /\ birthFailed = FALSE
    /\ reconnectBit = FALSE /\ disconnectBit = FALSE
    /\ m_connected = FALSE /\ m_started = FALSE
    /\ m_backoff_ms = InitialBackoff /\ loaded = 0 /\ wait_ms = 0
    /\ notified = 0
    /\ pc = "none" /\ caller = "none"
    /\ startRaced = FALSE

----------------------------------------------------------------------------
(* initialize(), in the main task.  With no host or device id it refuses,  *)
(* and with a failing client or task it undoes what it did: the service    *)
(* then stays in its initial state, where start() returns at once.         *)

CreateClient ==
    /\ client = "none" /\ client' = "idle"
    /\ UNCHANGED <<reconnectBit, disconnectBit, handler, birthFailed, m_connected,
                   m_started, m_backoff_ms, notified, serviceVars, caller>>

CreateTask ==
    /\ client # "none" /\ pc = "none"
    /\ pc' = "checkStart"
    /\ UNCHANGED <<clientVars, m_connected, m_started, m_backoff_ms, notified,
                   wait_ms, loaded, startRaced, caller>>

----------------------------------------------------------------------------
(* start() and notifyWifiDown(), in the WiFi task.                         *)

\* Seeded fault: start() is not idempotent.
StartAgain ==
    /\ caller = "none" /\ client # "none"
    /\ m_started' = TRUE /\ caller' = "notify"
    /\ UNCHANGED <<clientVars, m_connected, m_backoff_ms, notified, serviceVars>>

\* Write m_started first ...
Start ==
    /\ caller = "none" /\ client # "none" /\ ~m_started
    /\ m_started' = TRUE /\ caller' = "notify"
    /\ UNCHANGED <<clientVars, m_connected, m_backoff_ms, notified, serviceVars>>

\* ... and notify the task, if there is one, afterwards.
NotifyStart ==
    /\ caller = "notify" /\ caller' = "none"
    /\ notified' = IF pc = "none" THEN notified ELSE notified + 1
    /\ UNCHANGED <<clientVars, m_connected, m_started, m_backoff_ms, serviceVars>>

\* notifyWifiDown() reads m_connected, then asks for a disconnect.
SeesConnected ==
    /\ caller = "none" /\ client # "none" /\ m_connected
    /\ caller' = "disconnect"
    /\ UNCHANGED <<clientVars, m_connected, m_started, m_backoff_ms, notified,
                   serviceVars>>

RequestDisconnect ==
    /\ caller = "disconnect" /\ caller' = "none"
    /\ disconnectBit' = TRUE
    /\ UNCHANGED <<client, reconnectBit, handler, birthFailed, m_connected,
                   m_started, m_backoff_ms, notified, serviceVars>>

----------------------------------------------------------------------------
(* The service task: taskLoop.                                             *)

CheckStarted ==
    /\ pc = "checkStart"
    /\ \/ ~m_started /\ pc' = "awaitStart" /\ UNCHANGED startRaced
       \/ /\ m_started /\ pc' = "startClient"
          /\ startRaced' = (notified > 0 \/ caller = "notify")
    /\ UNCHANGED <<clientVars, m_connected, m_started, m_backoff_ms, notified,
                   wait_ms, loaded, caller>>

\* Woken or timed out after 1000 ms, the count is zero afterwards.
AwaitStart ==
    /\ pc = "awaitStart" /\ pc' = "checkStart"
    /\ notified' = 0
    /\ UNCHANGED <<clientVars, m_connected, m_started, m_backoff_ms, wait_ms,
                   loaded, startRaced, caller>>

\* The result of esp_mqtt_client_start is ignored: without a task of its own
\* the client never does anything.
StartClient ==
    /\ pc = "startClient" /\ pc' = "take"
    /\ client' \in {"connecting", "dead"}
    /\ UNCHANGED <<reconnectBit, disconnectBit, handler, birthFailed, m_connected,
                   m_started, m_backoff_ms, notified, wait_ms, loaded, startRaced, caller>>

\* Between 90% and 110% of the backoff.  Only the two ends are enumerated: the
\* properties about the delay compare it with a limit.
Jitter(b) == {0, b \div 5}

WaitTimes(b) == {b - b \div 10 + j : j \in Jitter(b)}

\* ulTaskNotifyTake(...) == pdTRUE, with pdTRUE = 1.
WakesOn(n) == n = 1

Take ==
    /\ pc = "take" /\ WakesOn(notified)
    /\ notified' = 0
    /\ wait_ms' \in WaitTimes(m_backoff_ms)
    /\ pc' = "delay"
    /\ UNCHANGED <<clientVars, m_connected, m_started, m_backoff_ms, loaded,
                   startRaced, caller>>

\* Any other count is zeroed too, but the comparison fails and the loop waits
\* again.
TakeMiscounted ==
    /\ pc = "take" /\ notified > 0 /\ ~WakesOn(notified)
    /\ notified' = 0
    /\ UNCHANGED <<clientVars, m_connected, m_started, m_backoff_ms, serviceVars,
                   caller>>

\* Seeded fault: the delay ends the cycle, and nothing reconnects.
DelayEndsOnly ==
    /\ pc = "delay" /\ pc' = "load" /\ wait_ms' = 0
    /\ UNCHANGED <<clientVars, m_connected, m_started, m_backoff_ms, notified,
                   loaded, startRaced, caller>>

DelayEnds ==
    /\ pc = "delay" /\ pc' = "reconnect" /\ wait_ms' = 0
    /\ UNCHANGED <<clientVars, m_connected, m_started, m_backoff_ms, notified,
                   loaded, startRaced, caller>>

\* esp_mqtt_client_reconnect: ESP_FAIL unless the client is parked.
Reconnect ==
    /\ pc = "reconnect" /\ pc' = "load"
    /\ reconnectBit' = (reconnectBit \/ client = "parked")
    /\ UNCHANGED <<client, disconnectBit, handler, birthFailed, m_connected,
                   m_started, m_backoff_ms, notified, wait_ms, loaded, startRaced, caller>>

\* m_backoff_ms is a plain int: the esp-mqtt task may reset it between this
\* read and the write.
LoadBackoff ==
    /\ pc = "load" /\ pc' = "store"
    /\ loaded' = m_backoff_ms
    /\ UNCHANGED <<clientVars, m_connected, m_started, m_backoff_ms, notified,
                   wait_ms, startRaced, caller>>

NextBackoff(b) == IF b < MaxBackoff THEN b * 2 ELSE MaxBackoff

StoreBackoff ==
    /\ pc = "store" /\ pc' = "take"
    /\ m_backoff_ms' = NextBackoff(loaded) /\ loaded' = 0
    /\ UNCHANGED <<clientVars, m_connected, m_started, notified, wait_ms,
                   startRaced, caller>>

ServiceTask == \/ CheckStarted \/ AwaitStart \/ StartClient
               \/ Take \/ TakeMiscounted \/ DelayEnds \/ Reconnect
               \/ LoadBackoff \/ StoreBackoff

----------------------------------------------------------------------------
(* The esp-mqtt task: its state machine, external, and eventHandler, which *)
(* it calls synchronously.  An event that starts leaves the nested ones of *)
(* an earlier handler behind.                                              *)

\* Leaving WAIT_RECONNECT goes through INIT, which clears both bits.
BeginReconnect ==
    /\ client = "parked" /\ handler = "none" /\ reconnectBit
    /\ client' = "connecting"
    /\ reconnectBit' = FALSE /\ disconnectBit' = FALSE
    /\ UNCHANGED <<handler, birthFailed, m_connected, m_started, m_backoff_ms,
                   notified, serviceVars, caller>>

\* CONNACK; MQTT_EVENT_CONNECTED is dispatched.
ConnectSucceeds ==
    /\ client = "connecting" /\ handler = "none"
    /\ client' = "connected" /\ handler' = "connected" /\ birthFailed' = FALSE
    /\ UNCHANGED <<reconnectBit, disconnectBit, m_connected, m_started,
                   m_backoff_ms, notified, serviceVars, caller>>

\* A failing transport; MQTT_EVENT_ERROR is dispatched, and the connection
\* aborted when the handler returns.
TransportError ==
    /\ client \in {"connecting", "connected"} /\ handler = "none"
    /\ handler' = "error" /\ birthFailed' = FALSE
    /\ UNCHANGED <<client, reconnectBit, disconnectBit, m_connected, m_started,
                   m_backoff_ms, notified, serviceVars, caller>>

\* esp_mqtt_abort_connection: after an error, after a missed keepalive, or
\* after an unanswered CONNECT; MQTT_EVENT_DISCONNECTED is dispatched.
Abort ==
    /\ client \in {"connecting", "connected"} /\ handler \in {"none", "aborting"}
    /\ client' = "parked" /\ handler' = "disconnected"
    /\ birthFailed' = (birthFailed /\ handler = "aborting")
    /\ UNCHANGED <<reconnectBit, disconnectBit, m_connected, m_started,
                   m_backoff_ms, notified, serviceVars, caller>>

\* A connected client polls DISCONNECT_BIT, sends DISCONNECT and aborts.
HonourDisconnect ==
    /\ client = "connected" /\ handler = "none" /\ disconnectBit
    /\ client' = "parked" /\ handler' = "disconnected" /\ birthFailed' = FALSE
    /\ disconnectBit' = FALSE
    /\ UNCHANGED <<reconnectBit, m_connected, m_started, m_backoff_ms, notified,
                   serviceVars, caller>>

\* MQTT_EVENT_CONNECTED: the flag, onConnected (the backoff's reset, the birth
\* message, the subscription), the callback.
StoreConnected ==
    /\ handler = "connected" /\ handler' = "resetBackoff"
    /\ m_connected' = TRUE
    /\ UNCHANGED <<client, reconnectBit, disconnectBit, birthFailed, m_started,
                   m_backoff_ms, notified, serviceVars, caller>>

\* Seeded fault: onConnected keeps the backoff.
KeepBackoff ==
    /\ handler = "resetBackoff" /\ handler' = "birth"
    /\ UNCHANGED <<client, reconnectBit, disconnectBit, birthFailed, m_connected,
                   m_started, m_backoff_ms, notified, serviceVars, caller>>

ResetBackoff ==
    /\ handler = "resetBackoff" /\ handler' = "birth"
    /\ m_backoff_ms' = InitialBackoff
    /\ UNCHANGED <<client, reconnectBit, disconnectBit, birthFailed, m_connected,
                   m_started, notified, serviceVars, caller>>

\* The birth message is written, and so is the subscription.
BirthSent ==
    /\ handler = "birth" /\ handler' = "connectCallback"
    /\ UNCHANGED <<client, reconnectBit, disconnectBit, birthFailed, m_connected,
                   m_started, m_backoff_ms, notified, serviceVars, caller>>

\* A publish that cannot be written aborts the connection from within, with an
\* ERROR first unless the write only timed out; the handlers of both run before
\* publishDeviceStatus returns, and the subscription then finds no connection.
BirthFails ==
    /\ handler = "birth" /\ birthFailed' = TRUE
    /\ \/ handler' = "error" /\ UNCHANGED client
       \/ handler' = "disconnected" /\ client' = "parked"
    /\ UNCHANGED <<reconnectBit, disconnectBit, m_connected, m_started,
                   m_backoff_ms, notified, serviceVars, caller>>

\* A subscription that cannot be written dispatches the ERROR, nested, and no
\* more: the connection breaks at esp-mqtt's next read.
SubscribeFails ==
    /\ handler = "birth" /\ handler' = "connectCallback"
    /\ m_connected' = FALSE
    /\ UNCHANGED <<client, reconnectBit, disconnectBit, birthFailed, m_started,
                   m_backoff_ms, notified, serviceVars, caller>>

\* m_connection_cb(true), whatever became of the connection meanwhile:
\* Application::onMqttConnection, see module Node.
ConnectCallback ==
    /\ handler = "connectCallback"
    /\ handler' = IF client = "connected" /\ ~m_connected THEN "aborting" ELSE "none"
    /\ UNCHANGED <<client, reconnectBit, disconnectBit, birthFailed, m_connected,
                   m_started, m_backoff_ms, notified, serviceVars, caller>>

\* Seeded fault: an error notifies too, besides the DISCONNECTED that follows.
OnErrorNotifies ==
    /\ handler = "error" /\ handler' = "aborting"
    /\ m_connected' = FALSE /\ notified' = notified + 1
    /\ UNCHANGED <<client, reconnectBit, disconnectBit, birthFailed, m_started,
                   m_backoff_ms, serviceVars, caller>>

\* MQTT_EVENT_ERROR.
OnError ==
    /\ handler = "error" /\ handler' = "aborting"
    /\ m_connected' = FALSE
    /\ UNCHANGED <<client, reconnectBit, disconnectBit, birthFailed, m_started,
                   m_backoff_ms, notified, serviceVars, caller>>

\* Seeded fault: only an ERROR clears the flag.
StoreDisconnectedKeepsFlag ==
    /\ handler = "disconnected" /\ handler' = "dropCallback"
    /\ UNCHANGED <<client, reconnectBit, disconnectBit, birthFailed, m_connected,
                   m_started, m_backoff_ms, notified, serviceVars, caller>>

\* MQTT_EVENT_DISCONNECTED: the flag, the callback, the notification.
StoreDisconnected ==
    /\ handler = "disconnected" /\ handler' = "dropCallback"
    /\ m_connected' = FALSE
    /\ UNCHANGED <<client, reconnectBit, disconnectBit, birthFailed, m_started,
                   m_backoff_ms, notified, serviceVars, caller>>

\* m_connection_cb(false): Application::onMqttConnection, see module Node.
DropCallback ==
    /\ handler = "dropCallback" /\ handler' = "notify"
    /\ UNCHANGED <<client, reconnectBit, disconnectBit, birthFailed, m_connected,
                   m_started, m_backoff_ms, notified, serviceVars, caller>>

\* Back to esp-mqtt, or into the CONNECTED handler this one is nested in.
HandlerReturns ==
    /\ handler = "notify"
    /\ handler' = IF birthFailed THEN "connectCallback" ELSE "none"
    /\ UNCHANGED <<client, reconnectBit, disconnectBit, birthFailed, m_connected,
                   m_started, m_backoff_ms, serviceVars, caller>>

\* Seeded fault: the handler returns without the notification.
NotifyNobody == HandlerReturns /\ UNCHANGED notified

NotifyDisconnect == HandlerReturns /\ notified' = notified + 1

EventHandler == \/ StoreConnected \/ ResetBackoff
                \/ BirthSent \/ BirthFails \/ SubscribeFails \/ ConnectCallback
                \/ OnError
                \/ StoreDisconnected \/ DropCallback \/ NotifyDisconnect

ConnectOutcome == client = "connecting" /\ (ConnectSucceeds \/ TransportError \/ Abort)

Client == \/ BeginReconnect \/ ConnectSucceeds \/ TransportError \/ Abort
          \/ HonourDisconnect

----------------------------------------------------------------------------
MainTask == CreateClient \/ CreateTask

WifiTask == Start \/ NotifyStart \/ SeesConnected \/ RequestDisconnect

\* ulTaskNotifyTake times out and the loop waits again: nothing changes, and
\* a node without a broker connection to make is there for good.
Waits == pc \in {"none", "take"} /\ notified = 0 /\ UNCHANGED vars

Next == MainTask \/ WifiTask \/ ServiceTask \/ Client \/ EventHandler \/ Waits

\* FreeRTOS runs the tasks that are ready, a connection attempt ends one way
\* or the other (10 s network timeout), and esp-mqtt serves its two bits.
\* start() need never be called, and a connection need never break.
Fairness ==
    /\ WF_vars(ServiceTask)
    /\ WF_vars(EventHandler)
    /\ WF_vars(NotifyStart \/ RequestDisconnect)
    /\ WF_vars(BeginReconnect)
    /\ WF_vars(HonourDisconnect)
    /\ WF_vars(ConnectOutcome)
    /\ WF_vars(handler = "aborting" /\ Abort)

Spec == Init /\ [][Next]_vars /\ Fairness

----------------------------------------------------------------------------
(* Properties                                                              *)

Dropping == handler \in {"disconnected", "dropCallback", "notify"}

\* The notification of start() is a notification like any other.  Before the
\* first loop ends it may be given once; afterwards, unless the race of
\* startRaced happened, none is left over from it.  Each lost connection is
\* then on its way to a reconnect in exactly one place: the handler, the
\* count, the service task's delay, or RECONNECT_BIT.
InFirstLoop == pc \in {"none", "checkStart", "awaitStart"}

Count(b) == IF b THEN 1 ELSE 0

Backing == pc \in {"delay", "reconnect"}

Trackers == Count(Dropping) + notified + Count(Backing) + Count(reconnectBit)

OneRetryPerDrop ==
    (~InFirstLoop /\ ~startRaced) => Trackers = Count(client = "parked")

\* A client parked with nobody left to wake it: no further event will come,
\* and the node never talks to its broker again.  It takes the race of
\* start() with the first loop to get there.
Stranded == /\ client = "parked" /\ handler = "none" /\ ~reconnectBit
            /\ notified = 0 /\ ~Backing

StrandedOnlyByStartRace == Stranded => startRaced

\* Between two events, isConnected() is the client's state: an ERROR that
\* clears the flag is always followed by the DISCONNECTED that parks.
FlagFollowsClient == handler = "none" => (m_connected <=> client = "connected")

\* The reconnect loop works: a parked client is made to connect again.
ParkedRetried == client = "parked" ~> (client # "parked" \/ startRaced)

\* What the service promises of the connection, with its four tasks, the count of
\* its notifications and its backoff left out: whatever they do to a loss that is
\* to be retried, it stays due until it is, unless the start raced.
Retries == INSTANCE BrokerRetry
           WITH due <- client = "parked" /\ ~Stranded, raced <- startRaced

ImplementsBrokerRetry == Retries!Spec

----------------------------------------------------------------------------
(* What the comments of the code promise, and the code does not keep.      *)

\* "The event handler notifies on every disconnect", and the task acts on it.
NoLostWakeup == ~Stranded
=============================================================================
