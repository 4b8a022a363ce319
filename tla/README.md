# Verification of the smart-home node firmware

TLA+ models of the ESP32-S3 sensor node in `src/main/`, checked with TLC and
proved about with TLAPS.  This file says what the firmware's parts are, which
module models which part, what every run checks and what is proved.

## 1. The system

The node joins a WiFi network, keeps one MQTT session to a broker, publishes
its status and readings, obeys a few commands and updates its own firmware.
It is a handful of FreeRTOS tasks that share fields of one static `Application`
object, mostly without locks.

| Component | Source | State | Operations | Runs in |
|---|---|---|---|---|
| WiFi service | `main/services/wifi/WifiService.cpp` | `m_event_queue` (5 slots), `m_initialized`, `m_connected`, `m_should_reconnect`, `m_reconnect_attempts`, `last_reconnect` | `initialize`, `connect`, `onWifiEvent`, `handleWifiEvent`, `taskLoop`, `disconnect`, `stop` | main task (boot), default event loop (`onWifiEvent`), its own task |
| MQTT service | `main/services/mqtt/MqttService.cpp` | `m_client`, `m_task`, `m_connected`, `m_started`, `m_stopping`, `m_backoff_ms`, the task's notification count | `initialize`, `start`, `notifyWifiDown`, `publish*`, `onConnected`, `eventHandler`, `taskLoop`, `stop` | main task, WiFi task (`start`, `notifyWifiDown`), esp-mqtt task (`eventHandler`), its own task |
| Application | `main/app/src/Application.cpp`, `main/main.cpp` | `m_initialized`, `m_running`, `m_telemetry_ticks`, the two configurations | `initialize`, `start`, `run`, `onWifiEvent`, `onMqttConnection`, `onMqttCommand`, `publishTelemetry`, `stop` | main task; its callbacks in the WiFi, esp-mqtt and OTA tasks |
| Application state | `main/core/statemachine/AppStateMachine.cpp` | `m_state`, atomic | `setState`, `getState` | any |
| OTA service | `main/services/ota/OTAService.cpp` | `m_ota_url` under `m_ota_mutex`, `m_ota_in_progress`, the two flash slots | `initialize`, `requestUpdate`, `runUpdate`, `taskLoop`, `stop` | esp-mqtt task (`requestUpdate`), its own task |
| WiFi credentials | `main/services/wifi/WifiConfigInterface.cpp` | two NVS keys under a mutex | `setSSID`, `setPassword`, `setCredentials`, `clearCredentials`, `hasCredentials` | console task, main task |
| MQTT configuration | `main/services/mqtt/MqttConfigInterface.cpp` | eight NVS keys under a mutex | `load`, `hasConfig`, `setHost`, `setCredentials`, `setDevice`, `setOtaUrl`, `clear` | console task, main task |
| UART driver | `main/drivers/uart/UartDriver.cpp` | `m_initialized`, `m_running`, `m_uart_num`, `m_uart_queue`, `m_task_handle` | `initialize`, `start`, `stop`, `read`, `write`, `taskLoop` | not called yet; its own task, ESP-IDF's interrupt handler |
| Error handler | `main/error/ErrorHandler.cpp` | counters | `reportError` | any |

How they interact:

    radio --events--> onWifiEvent --queue--> WifiService task --callback--> Application::onWifiEvent
                                                                              |  GOT_IP: MqttService::start
                                                                              |  DISCONNECTED: notifyWifiDown
    broker <--> esp-mqtt task --eventHandler--> m_connected, onMqttConnection, onMqttCommand
                      ^                   \--task notification--> MqttService task (backoff)
                      |                                               |
                      +--------- RECONNECT_BIT / DISCONNECT_BIT ------+

What is hard about it: `m_connected`, `m_started` and `m_backoff_ms` are read
and written by several tasks with no lock; the application's state is written
by two tasks that learn of different facts at different times; a FreeRTOS
notification is a counter that somebody must compare with the right number; the
WiFi task learns of the link through a bounded, non-blocking queue; both
services retry for ever, or until a budget is spent; esp-mqtt keeps its own
idea of being parked, connecting or connected.

What makes each part correct:

* WiFi service: its view of the link follows the link; no event is lost; a link
  that is down is tried again until the attempts are spent, and never silently
  left alone before that.
* MQTT service: exactly one reconnect is under way for each lost connection;
  `isConnected()` is what the client is; a session starts with the initial backoff
  again; a parked client is woken.
* Application: MQTT is started by the first address and never before; RUNNING is not
  left behind by a session that is gone; a loss of WiFi ends the session at once; a stable
  network brings the session back.
* OTA service: an accepted request is run, with its own URL, and the node restarts
  only into a complete image; a failed one leaves the service ready for the next,
  and a reset at any point leaves a bootable node.
* Commands: each is handled at least once and then forgotten by the broker, and what
  the node answers is true of the update it speaks of.
* Presence: what the server reads as the node's status settles on the truth, when the
  node vanishes and when it is there.
* UART driver: its task never outlives the driver it reads from, a failed start leaves
  nothing behind, and what arrives is read.
* Configuration stores: what a command saved is what the next boot reads, whole,
  whatever failed or was cut off in between; the device id stays what it was.

`PROJECT.json` lists, under `hazards`, each place in the code where one of these
could go wrong and a test would hardly notice.

## 2. Modules

| Module | Models | Kind |
|---|---|---|
| `WifiService` | the WiFi service, with the station driver around it | specification |
| `MqttService` | the MQTT service, with the esp-mqtt client around it | specification |
| `LinkRetry` | the retries of the link, without queue, flags or task | abstract specification, implemented by `WifiService` |
| `BrokerRetry` | the retries of the broker connection, without tasks or notifications | abstract specification, implemented by `MqttService` |
| `NodeSession` | the broker session and the addresses that start it, without boot, state machine, queue or tasks | abstract specification, implemented by `Node` |
| `Node` | `Application` between the two services, which it instantiates | composition |
| `Presence` | the MQTT service, what it publishes, the broker's retained status and will, and power losses | composition, extends `MqttService` |
| `FirmwareUpdate` | one firmware update at a time, without tasks, mutex or transfer | abstract specification |
| `OTAService` | the OTA service, with the slots and the bootloader around it | specification, implements `FirmwareUpdate` |
| `CommandSession` | the broker's queue for the node, `onMqttCommand`, and the OTA service it calls | composition, extends `OTAService` |
| `ConfigStores` | both configuration stores, the console commands and the reads of the boot | specification |
| `UartDriver` | the UART driver class, with ESP-IDF's interrupt handler and event queue around it | specification |
| `MCWifiService`, `MCMqttService`, `MCNode`, `MCPresence`, `MCCommandSession`, `MCConfigStores`, `MCUartDriver` | constants for TLC, two watchdog definitions | model checking |
| `WifiServiceProofs`, `MqttServiceProofs`, `PresenceProofs`, `NodeProofs`, `OTAServiceProofs`, `CommandSessionProofs`, `ConfigStoresProofs`, `UartDriverProofs` | theorems and their proofs | proofs |

### WifiService

One action per step of a task that another task can see.  `boot` is how far the
main task is (`initialize` and `connect`); `queue` is `m_event_queue`, and `Post`
is `onWifiEvent`'s `xQueueSend` with no wait: with no room the event is lost,
which the history variable `dropped` records.  `Receive` is `xQueueReceive` with
the assignments of `handleWifiEvent`; `Callback` is the call of `m_event_cb`,
a step of its own because the application's handler runs there.  `Reconnect`,
`GiveUp` and `SkipReconnect` are the three ways through the reconnect part of
`taskLoop`.  `retryDue` stands for `(now - last_reconnect) > 5000` ms.

`deaf` is an `initialize` whose registration of the handler for IP_EVENT failed: the code
warns and goes on, and no address is ever heard of (`PostAddress`).

External: the driver.  `Associate` is `esp_wifi_connect()`, which starts an
attempt only from an idle station (the return value is ignored by the code and
the attempt counts anyway); `GetIp`, `AssociationFails`, `LinkLost` and
`AddressChanges` are the events it reports.  The driver's step and the post to
the queue are one action: the event loop is a FIFO in front of a FIFO.

Three things about the environment are assumptions: a lease renewal with another
address (`AddressChanges`) finds the queue drained, because renewals are minutes
apart and the task polls every second; the driver answers each attempt; and it reports
each loss once.

`LinkRetry` is what this promises of the link, in three variables: the link, the tries
since the last address that was heard of, and whether there is an address still to be
heard of.  A try costs one attempt, even if the link is up or on its way by then; only
an address renews them.  A deaf service has no news (`Deafen`).  The mapping is
`attempts <- m_reconnect_attempts` and `news <- AddressQueued(queue)`: a GOT_IP anywhere in the queue.  The queue's order, the
three flags, the give-up and the boot are stuttering steps.  Its fairness says that an
idle link is tried while tries are left, and that an address is heard of.

### MqttService

`client` is esp-mqtt's state: `none` (no handle), `idle` (created), `dead` (its start
failed, a result that `MqttService.cpp:288` ignores), `connecting`,
`connected`, `parked` (MQTT_STATE_WAIT_RECONNECT).  esp-mqtt calls `eventHandler`
synchronously, so `handler` is the program counter of its task inside the handler,
one step per store, callback or notification.

The handler of CONNECTED writes to the connection itself, and a write may fail.
`BirthFails` is a publish of `onConnected` whose write fails: esp-mqtt aborts the
connection from within, and the cases ERROR (unless the write only timed out) and
DISCONNECTED run nested in the one of CONNECTED, which goes on to its callback when they
have returned (`birthFailed`, `HandlerReturns`).  `SubscribeFails` is the subscription
whose write fails: its ERROR runs nested, and the abort comes at esp-mqtt's next read.
`ConnectCallback` is reached on each of these ways.

`pc` is the program counter of `taskLoop`, `caller` that of the WiFi task inside `start` or `notifyWifiDown`.
`notified` is the task's FreeRTOS notification value: `xTaskNotifyGive` adds one,
`ulTaskNotifyTake(pdTRUE, ...)` returns it and zeroes it, and the code compares
what it got with `pdTRUE`, which is 1 (`WakesOn`).  The doubling of `m_backoff_ms`
is a read and a write (`LoadBackoff`, `StoreBackoff`), since `onConnected` resets
the same plain `int` from another task.

External: `BeginReconnect`, `ConnectSucceeds`, `TransportError`, `Abort` and
`HonourDisconnect` are the client with auto-reconnect disabled.  It parks after
every lost connection, leaves the parked state when `RECONNECT_BIT` is set, and
`esp_mqtt_client_reconnect` sets that bit only in the parked state, as the comment
at `MqttService.cpp:308` says.  An ERROR event is always followed by the
abort, and so by a DISCONNECTED event, of the same connection.  A publish of the main
task or of a command's answer whose write fails is an `Abort` as well: it holds the
client's lock, so it runs the handlers between two events of the esp-mqtt task.

Abstracted: payloads, topics and, but for `onConnected`, publish results (what the status
publishes do at the broker is `Presence`); the jitter is one of its two ends; the two reads of
`m_backoff_ms` for the delay are one.

`BrokerRetry` is what this promises of the connection: a lost one is due to be retried,
and stays so until it is.  The mapping is `due <- client = "parked" /\ ~Stranded` and
`raced <- startRaced`: a retry that is in the handler, in the notification count, in the
delay of the service task or in `RECONNECT_BIT` is the same retry, and moving it from
one to the next is a stutter.  `Forget` is the one way to lose it, and needs the race of
`start()` with the first loop.  Its fairness says that what is due is done.

### Node

`Node` has the variables of both services (renamed where they clash:
`wifi_connected`, `mqtt_connected`, `wifi_pc`, `mqtt_pc`), the state `m_state`, and
the program counters `app` (the main task in `initialize`), `onWifi` (the WiFi
task in `onWifiEvent`) and `onDrop` (the esp-mqtt task between the read and the
write of `onMqttConnection(false)`).  It instantiates the two services and calls
their actions: `Wifi!Callback` takes place when `Application::onWifiEvent` returns,
and that handler performs `Mqtt!Start`/`Mqtt!NotifyStart` or
`Mqtt!SeesConnected`/`Mqtt!RequestDisconnect`; `Mqtt!ConnectCallback` and
`Mqtt!DropCallback` carry the writes of `onMqttConnection`.

Assumptions on the environment: an address is obtained only after `initialize()`
has returned (`BootOver`: the first association is attempted more than five seconds
after boot); a broker connection can be made only over a link that is up, but may
break, or be noticed broken, at any time.

`NodeSession` is what this promises of the session.  An address that was obtained is
news; news starts the session, even if the link is gone again by then, and nothing else
does; a session is made only over a link, and one that broke is begun again.  The
mapping is `up <- link = "up"`, `started <- m_started` and
`news <- event = "got_ip" \/ AddressQueued(queue)`: a GOT_IP in the queue or in the
hands of the WiFi task.  Taking it from the queue is a stutter; `Start` is the write of
`m_started` inside `MqttService::start`, and `Hear` the return of a handler that found
the session started already, or no client to start.  `Provision` is the creation of the
client, which an address never overtakes: that is `BootOver` again.  The state machine,
the notifications, the bits and the backoff are stuttering steps.  Its fairness says
that news starts the session, and that a started session is begun.  `Deafen` is a WiFi
service without its IP handler: it has no news.

### Presence

`Presence` adds the broker and the connection to `MqttService`, whose actions it
takes with what they send.  `accepted` says that the broker took the CONNECT of the
connection the client is in, `session` that the broker still has a connection of
this client id, `uplink` is what the node sent on it and the broker has not read,
`status` the retained status document.  `Birth` is the birth message of `onConnected`,
with `publishDeviceStatus`, and `BirthLost` one that cannot be written;
`RefreshStatus` the periodic publish of `publishTelemetry` and `get_status`; `SayGoodbye` what `notifyWifiDown` makes esp-mqtt do, a DISCONNECT
packet; `CloseConnection` any other end.  `resetRaced` is a history variable that
`RecordsRace` adds to every step: the last reset of the backoff fell between the read and
the write of a doubling.  `PowerLoss` takes the whole node back to its
boot and leaves the broker as it is.

External: the broker.  By MQTT 3.1.1 it keeps the will of a connection until a
DISCONNECT discards it, and publishes it when the connection ends otherwise: it is
closed, its keepalive expires (`KeepaliveExpires`, at any time: the path may be dead),
or the same client id connects again (`BrokerAccepts`).  Once the node has left a
connection, what it sent may still arrive or be lost (`UplinkLost`).

Abstracted: the contents of the status document but for online and offline; sensor
readings, which are QoS 0 and not retained; a CONNECT of an attempt that the node has
given up and the broker reads later, whose connection would be closed at once.

### OTAService

`request` is the program counter of the esp-mqtt task in `requestUpdate`, `pc` that
of the OTA task in `taskLoop` and `runUpdate`; `mutex` is `m_ota_mutex`.  The test of
`m_ota_in_progress` (`RequestUpdate`) comes before the mutex is taken
(`LockRequest`), and `Clear` lowers the flag without it, as in the code.  A transfer
is a number of reads (`Perform`), each of which may report a percentage; it ends
well or badly (`TransferEnds`, `TransferFails`), then the image validates or not
(`FinishSucceeds`, `FinishFails`).

External: `image` is what a slot holds, `bootSlot` what otadata names, `running` the
slot the bootloader started.  esp_https_ota writes the other slot, and
`esp_https_ota_finish` activates it when it validates.  `Reboot` may happen in any
state: it stands for a power loss, a watchdog or the reboot command.

`FirmwareUpdate` is what this promises: `job`, the URL of the update under way, is
accepted only when there is none, the slot that is not running is written, and then
either the job is given up or the slot boots.  The refinement mapping is
`job <- IF m_ota_in_progress THEN m_ota_url ELSE NoUrl`: two fields that one task
writes in two steps, and another takes down, stand for one atomic job.  The handover,
the polling and the copying of the URL are stuttering steps.  The fairness of
`FirmwareUpdate` says that no update goes on for ever.

### CommandSession

`queue` is what the broker holds for the node's persistent session: QoS 1 commands
that were not yet PUBACKed.  `handler` is the program counter of the esp-mqtt task in
`onMqttCommand`; the paths are those of the function: ignore what is not a command,
answer and restart (`BeginReboot`, `RebootCommand`), answer at once (`AnswerOther`), or
call the OTA service, whose `requestUpdate` takes its four steps under the mutex
while the OTA task runs (`CallRequestUpdate`, `RequestReturns`), or returns false
(`RequestRefused`), after which `isOTAInProgress()` is a second read of the flag
(`Recheck`).  Then come the answer and, when the handler returns, esp-mqtt's PUBACK
(`Puback`), which takes the command off the queue if the connection is still there.
`handled` is a history variable: the head of the queue was handled to its end.

The stored `ota_url` may have another value after each reset (the console changes it).
The connection may break, and the power fail, between any two steps; `Connect` with the
session kept is what `disable_clean_session` asks for.

External: the server and the broker.  Commands are sent with QoS 1, as
`docs/architecture.rst` documents for the command topic; a QoS 0 command has no PUBACK
and cannot be redelivered.  Abstracted: the JSON of command and answer, the answer's
own way to the server (it is lost if the connection is), a command longer than
esp-mqtt's buffer.

### ConfigStores

`nvs` is the flash, `pc` is how far `Application::initialize` is, `cmd`, `arg` and
`left` are the console command under way and the keys it still has to write.  All
commands share their steps: `Type`, `WriteKey` for each key of `KeysOf`, and
`Acknowledge`, with `WriteFails` and `CommitFails` as the two ways to end early.
The WiFi store takes its mutex for each key, so there each read and each write is
atomic and the mutex is not a variable; the MQTT store keeps its own, `mutex`, over
the whole command, and `hasConfig` waits for it.  `Readable` is `nvs_get_str` with a
buffer, `StoredPort` the cast to 16 bits, `PersistId` the write that `load()` makes
when it had to derive a device id, which `mqtt_status` makes too.

An entry is what one command typed: its SSID and password, host and port, or user
and password carry its name, so a pair of two entries is a torn pair.  `Unfit` says, key
by key, which entries have a part that does not fit the buffer it is read to: nothing
but `isValidDeviceId` checks a length before it stores and acknowledges.  History
variables: `promised` is what a command acknowledged for a group of keys and nobody touched since, `due` the
promises at the last reset, `mixed` the groups in which a command was cut off between
its keys, `identity` the id the node goes by.

External: NVS writes through, key by key; `nvs_erase_all` takes the keys in any
order; a reset may come between any two steps and may start another image, which
derives another device id.

### UartDriver

The application owns a `UartDriver` but does not start it: `Application.cpp:136` asks
that it be moved to a port of its own first.  The module takes it there, so that what
remains to be repaired before it is enabled can be seen.  `m_port` is `m_uart_num`
(the console's until `initialize`), `caller` is where the one caller is in `initialize`
or `stop`, `task` where `taskLoop` is, with the flush of the ring and the reset of the
queue as two steps.  `events` and `ring` are the queue and the ring buffer of ESP-IDF's
driver, of which `Arrives` and `LineEvent` are the interrupt handler: an event that finds
the queue full is lost.  The kinds of event that are only logged are one, "line".

`m_task_handle` is "stale" once the task has deleted itself, `m_uart_queue` is "freed"
once `uart_driver_delete` has freed it.  What `stop()` does with such a handle is
undefined; the model takes two outcomes, nothing and a restart by the panic handler.
`Stop` before any `initialize` would delete the console's driver, which is the reason
the application gives for not calling it; the model's caller does not either.

## 3. Runs

Sizes are distinct states.

| Run | Configuration | Size | Shows |
|---|---|---|---|
| `wifi` | 5 slots, 10 attempts (the code's) | 1 494 | all seven WiFi properties hold |
| `mqtt` | `Presence`: 2000 and 60000 ms (the code's), 2 packets under way | 290 024 | all ten properties of the MQTT service and of what the server sees hold |
| `node` | 5 slots, 2 attempts, one backoff value | 422 624 | all five properties of the composition hold |
| `ota` | `CommandSession`: 2 URLs, 2 commands under way, images of 1 read | 91 364 | all nine properties of the commands and of the OTA service hold |
| `config` | 3 entries, 2 images | 172 238 | all five properties of the stores hold |
| `uart` | 3 events, 2 pieces of data | 1 910 | all four properties of the driver hold |
| `mqtt_lost_wakeup` | the service alone | | `NoLostWakeup` is violated: a start notification merged with a disconnect's is thrown away |
| `mqtt_watchdog` | the service alone | | `WatchdogFed` is violated: the backoff delay outlasts the 30 s watchdog |
| `node_state_stuck` | as `node` | | `ConnectedMeansRunning` is violated: a late WiFi event overwrites RUNNING for good |
| `node_loss_missed` | as `node` | | `WifiLossEndsSession` is violated: a loss seen just before `m_connected` is stored drops nothing |
| `command_starved` | as `ota` | | `CommandsGetThrough` is violated: a reboot command is redelivered after every restart it causes |
| `presence_will` | as `mqtt` | | `ClosedShownOffline` is violated: the explicit disconnect discards the will it is meant to fire |

The properties:

* `wifi`: `ViewAfterDrain` (the newest queued link event, or the flag if there is
  none, agrees with the driver), `NoEventDropped`, `NotRetryingMeansSpent` (the
  service is quiet about a down link only with its attempts spent),
  `BudgetSpentIsFinal` (a link given up is never tried again: an access point that
  is away for a minute strands the node until a reboot), `DownLinkRetried`, and `ImplementsLinkRetry`, the
  whole of `LinkRetry` with its fairness.
* `mqtt`, of the service: `OneRetryPerDrop` (each parked client is on its way back in
  exactly one place), `StrandedOnlyByStartRace`, `FlagFollowsClient`, `ResetLostOnlyByRace`
  (a session has the initial backoff or its double, so that the next loss is retried
  soon: no delay in hand and no write of an older cycle takes it back to a long wait,
  but for a reset that fell between the read and the write of the doubling),
  `ParkedRetried`, and `ImplementsBrokerRetry`, the whole of `BrokerRetry` with its
  fairness, power losses included.  Of the server's view: `BirthOutlivesWill` (the will of an older
  connection, published as late as it may be, never overwrites the birth message),
  `VanishedShownOffline` (a node that loses its power is shown offline, unless it is
  back before), `StableShownOnline` (when nothing breaks the connection any more, a
  node that was started is shown online for good, whatever the failures have left
  behind).
* `node`: `FalseRunningOnlyByFailedBirth` (no order of the two tasks' writes leaves
  RUNNING without a session, but for the nested handlers of a birth message that could
  not be written), `ImplementsNodeSession` (the whole of
  `NodeSession` with its fairness: an address starts MQTT, through the queue and the task
  that pass it on, even one that is lost before its turn, and nothing else starts it), `StableNetworkReconnects` (through both services: a
  stable link, whose addresses are heard of, and a broker that answers bring the session
  of a client that could be started back, again and again),
  `FlaggedSessionDropped` (the part of "drop the broker connection now" that the code
  keeps).
* `ota`, of the service: `RunsWhatWasAccepted` (no later request changes the update
  under way), `BootSlotComplete` (an update may be cut off anywhere),
  `RestartsIntoUpdate`, `AcceptedIsRun`, and `ImplementsUpdate`, the whole of
  `FirmwareUpdate` with its fairness.  Of the commands: `NothingLost` (a command leaves
  the broker only after it was handled to its end), `ErrorMeansIdle` (an ota command is
  answered with an error only when no update is under way: the redelivered one whose
  update runs is told "ok"), `QueueDrains` (once the network and the server come to
  rest, every command is handled and forgotten, but for a reboot and what waits behind
  it).
* `config`: `AppliedAtBoot` (what was acknowledged, and fits the buffer it is read to, is
  what the next boot reads, an erased broker is gone, and after `wifi_clear` the old
  credentials are), `PairsReadWhole` (never the host or user of one command with the port
  or password of another, unless a command was cut off; each half as far as it fits),
  `DeviceIdKept` (over resets and new images), `LoadGetsMutex` (every error path gives the
  mutex back).
* `uart`: `TaskHasDriver` (`stop()` does not wait for the task, and yet the task never
  waits on a queue that is gone), `NothingLeftBehind` (however `initialize` fails, and
  after every `stop`), `AnnouncedIsRead` (what an event announces is read or flushed,
  unless the reset of the queue takes the event), and in `UartTypeOK` that the queue is
  there as long as the driver whose interrupt handler posts into it.

The six violation runs are listed under `findings` in `PROJECT.json` with the line
of code and the line that says otherwise.  `command_starved` needs the QoS 1 that the
documentation gives commands; `src/tools/mqtt/test-node.sh` publishes with
`mosquitto_pub`'s default, QoS 0, and does not meet it.

Known disagreements that no run is about.  The models have the behaviour of the code in
each of these, and the properties are worded so that they do not claim otherwise:

* The backoff is documented as "capped at 60 s" (`MqttService.h:12`).  The doubling tests
  before it multiplies (`MqttService.cpp:312`), so it goes from 32 s to 64 s, and with the
  jitter to 70 s; from there it falls to 60 s.
* A birth message that cannot be written leaves the state at RUNNING with the client
  parked, until the retry has its outcome: the callback's `false` came before its `true`
  (`MqttService.cpp:209`, `234`).
* Lengths.  `char ssid[32]` cannot hold a legal SSID of 32 characters
  (`Mqtt_cfg.hpp:5-8` and `ROADMAP.md:187-188` call it wrong), nor the password buffer a
  WiFi key of 64.  `wifi_set` acknowledges both with "WiFi configured successfully"; the
  next boot refuses them and takes the node for unprovisioned.  A host, user, password or
  URL of the MQTT store that is too long is acknowledged, too, and then read as empty: a
  password of 65 characters leaves its user without one.
* After `wifi_clear`, `hasCredentials` still answers true for the empty SSID, `connect()`
  refuses it, and `initialize()` fails instead of asking for credentials.
  `MqttConfigInterface.cpp:240-242` calls it "a bug the WiFi equivalent actually has".
* A failure or a reset between the two writes of `mqtt_set` or `mqtt_auth` leaves half of
  one command with half of another; nothing mends it, and the next boot uses it.
* When the registration of the IP handler fails, `initialize()` goes on
  (`WifiService.cpp:84`) and the node never hears of its address: it holds a link and
  never starts MQTT.
* The result of `esp_mqtt_client_start` is ignored (`MqttService.cpp:288`): a client that
  could not start its task is waited for without end.
* The UART driver has three things to repair before it is enabled.  `initialize` creates
  the task while `m_running` is false, so unless `start()` comes first the task leaves its
  loop at once and deletes itself (`LeaveLoop`; the line that does it,
  `UartDriver.cpp:219`, is marked "never reached"), and `stop()` then meets a stale handle.
  `stop()` frees the event queue that `uart_driver_delete` has freed already.  And what
  arrives between `uart_flush_input` and `xQueueReset` stays in the ring, its event gone,
  until something else arrives.

Bounds.  `wifi` and `mqtt` use the constants of the code.  `MaxUplink` is 2 so that a
refresh can follow a birth message that the broker has not read.  `node` has two
attempts and one backoff value, because no guard outside the counters themselves looks
at their values: two attempts give a first, a last and a spent one, and a backoff that
does not grow is delayed all the same.  `ota` has two URLs, so that one update can meet
a command for another: commands carry the first or none, the second is the stored one.
`MaxQueue` is 2, so that a command waits behind another; a transfer of one read can
fail before it and after it.  `config` has three entries, so that two commands can differ
and a part can be too long alone: the first fits its buffers and has a port of zero, the
passwords of the second do not fit, and nothing of the third does, whose port does not
fit 16 bits either.  In each of its behaviours the operator works on some of the
groups of keys (`Operators`): those of the two stores share nothing but the boot, those
of the MQTT store only the mutex and `mqtt_clear`, which each operator on it uses.
`uart` has room for three events, one before and one after an
announcement, and for two pieces of data, so that both can be full.  Nothing else is bounded: the
queue of events is bounded by its slots, the notification count by the accounting
proved below.

Fairness.  Weak fairness of each task's step: FreeRTOS runs every ready task, the
waits of the loops time out, and none of the tasks can starve another, since each
blocks in every iteration.  Weak fairness of the driver's answer to an attempt, of
the end of a connection attempt (10 s network timeout) and of esp-mqtt's polling of
its two bits.  `node` adds strong fairness of a successful connection, which stands
for a broker that is up: it is what makes `StableNetworkReconnects` a property of
the node rather than of the broker.  Nothing obliges a link to come up or to break.
`mqtt` adds the broker's: it takes a CONNECT that arrives, reads what arrives, and
declares dead a connection the node has left.  `ota` assumes that a transfer ends: the
code sets no time-out, so `ImplementsUpdate` and `QueueDrains` rely on the server for
it; and that the node connects again, which is `ParkedRetried`.  Its strong fairness of
the handler's steps is needed only against the restart at the end of an update, which
ends the handler wherever it is: an update takes longer than an answer, so it does not
do so at the same step for ever.  That network, power and server come to rest is a
hypothesis of the two properties that need it (`Settles`, `Failure`), not a fairness.
`uart` has weak fairness of the task only; the caller may stop anywhere.
`config` has strong fairness of `LoadMqtt`: a task that waits for a FreeRTOS mutex is
served when it is given, before whoever types the next command.  No command, no request
and no reset need ever come.

`CHECK_DEADLOCK` is on in every run.  `Halted` and `Waits` are the two places where
the program rests for good: a boot that failed, and a service task whose waits time
out for ever.

## 4. Proofs

No safety property needs the fairness of a specification.  In the modules of the two
services `Steps` is the specification without it, and the lemmas are about `Steps`, so
that they hold of whatever takes the services' steps, as `Node` does.

`WifiServiceProofs` proves for every `EventQueueSize` and `MaxAttempts`:

* `TypeCorrect`, `ViewCorrect` (`ViewAfterDrain`), `RetriesUntilSpent`
  (`NotRetryingMeansSpent`), `GivingUpIsFinal` (`BudgetSpentIsFinal`).
  `RadioOffUntilConnect`, that nothing happens to the link before `connect()`, is
  the strengthening they share.
* `NothingDropped`: with `EventQueueSize >= 4`, `NoEventDropped`.  The inductive
  invariant `FewOutstanding` counts the attempt under way, the queued events and
  the view of the task together: an attempt yields at most an address and a loss,
  and the next one waits for the task to hear of the loss.  The code's five slots
  are one more than needed.
* `LinkRetryImplemented`: the safety part of `ImplementsLinkRetry`, for four slots or
  more (an address dropped at a full queue would be a link that is up with no news of
  it).  `LinkRetryStep` maps each step; `QueuedAfterAppend` and `QueuedAfterReceive` say
  what a post and a receive do to `AddressQueued`, and `Deafness` that a service without
  its IP handler never has an address in its queue.

`MqttServiceProofs` proves for every `InitialBackoff <= MaxBackoff` that `ServiceInv` is
inductive (`ServiceAtBoot`, `ServiceKept`).  Its parts:

* `StageInv`: where the four tasks can be together; `FlagInv` rests on it and gives
  `FlagCorrect` (`FlagFollowsClient`).  It says of each place of the handler what the flag
  and the client are there; the one of the callback is open, if the birth message failed.
* `TokenInv`, an account of notifications: `OneRetryPerDrop` says nothing of the first
  loop, so it is strengthened with what holds there (at most the notification of
  `start()` exists) and with a bound that also holds after the race (one tracker too
  many at most).  `ExactAccount` says a little more than `OneRetryPerDrop`: the account
  is exact, too, while `start()` still has its notification to give, so that this
  notification never wakes somebody who was stranded.  `TokensAfterShift` states once
  what a step may do to the account; each action is then shown to be such a shift.  It gives `OneRetry`
  (`OneRetryPerDrop`), `StrandedByRace` (`StrandedOnlyByStartRace`) and the conjunct of
  `TypeOK` that at most two notifications are ever pending (`TypeCorrect`).
* `BrokerRetryImplemented`: the safety part of `ImplementsBrokerRetry`.  A step that
  leaves the client alone keeps the retry due, or is `Forget`, because the account
  lets only the race strand a client (`DueOrForgotten`); `BrokerRetryStep` maps the rest.

`PresenceProofs` takes these over to the composition, for every `MaxUplink`: a step of
the node is a step of the service (`PresenceStep`), and a power loss takes it back to
`Init` (`ServiceRestarted`).  `BirthIsLastWord` (`BirthOutlivesWill`) adds `Courtesy`: a
connected node was accepted by the broker, and a node that is accepted has sent nothing
but "online".  `BackoffIsRenewed`
(`ResetLostOnlyByRace`) adds `RenewInv`: once a session has reset the backoff, a doubling still
to come or under way starts from the initial value.  With the client connected and no
race of `start()` the account of retries leaves no notification to take (`NothingTaken`),
so no other cycle begins, and only that doubling changes the backoff (`BackoffAlone`).
`BirthInv` says that a connection whose birth message failed is about to be aborted.
`PresenceImplementsRetry` is the refinement of `BrokerRetry` with power
losses, which map to its `PowerLoss`.

`NodeProofs` proves for every queue length, number of attempts and backoff:

* `NodeRunsServices`: the node implements both services.  Each of its steps is a step
  of `WifiService` or none (`WifiStep`), and a step of `MqttService` or none
  (`MqttStep`).  `WifiP` and `MqttP` instantiate the two proof modules with the node's
  variables, so the lemmas about `Steps` hold of the node: `NodeDropsNoEvent` (four slots
  or more), `NodeKeepsView`, `NodeRetriesOnce`, and `NodeRetriesAsPromised`, the
  refinement of `LinkRetry` and of `BrokerRetry` within the node.
* `RunningIsTrueOrUnborn` (`FalseRunningOnlyByFailedBirth`).  `StateInv` strengthens it
  with where the esp-mqtt task is: RUNNING is there only while the flag is up, while the
  handler of the loss has not passed its callback yet, or after a birth message that
  failed, and a write that was decided on
  (`onDrop = "write"`) is still within that callback.  What relates the flag to the
  handler's steps comes from the service's own invariant (`Flagged`).
* `SessionImplemented`: the safety part of `ImplementsNodeSession`, for four slots or
  more (an address that is dropped is one that never starts anything).  `SessionStep`
  maps each step.  `AddressInv` says where an address can be: in the link, in the queue
  or in the task's hands, and none of these before the boot is over, which is why
  `Provision` has no news to meet.  `HandlingInv` says that the task holds an event only
  inside the handler, and that it returns from the handling of an address only with
  MQTT started.  `Staged`, from the service's invariant, gives the rest: before `start()`
  the client is idle.
* `NodeTypeCorrect` (`TypeOK`).

`ConfigStoresProofs` proves for every set of entries, every number that can be typed as
a port and every set of images that `StoreInv` is inductive.  Its parts:

* `Types` and `ConsoleInv` (which keys the command under way has left, and when it holds
  the mutex) give `StoresTypeCorrect` (`TypeOK`).
* `Progress`: the keys that a command has passed hold what it was given.  `PromisesHeld`:
  what was acknowledged is in the flash until a command on the same keys begins, whatever
  fails in between; `Progress` is what makes it true at the acknowledgement, and
  `HoldsElsewhere` that a command leaves other groups alone.  `BootReads` carries a
  promise from the flash through the steps of the boot to `AcknowledgedIsApplied`
  (`AppliedAtBoot`): a text that fits is read as it was stored (`TextRead`).
* `Pairs`: a pair that was not cut off is whole, unless the command that writes it is
  between its two keys, and then the mutex is taken; so `PairsAreReadWhole`
  (`PairsReadWhole`).
* `Identity`: the id in use is the stored one; so `DeviceIdIsKept` (`DeviceIdKept`).

`OTAServiceProofs` proves for every set of URLs and every size of an image:

* `TypeCorrect`, `AcceptedUntouched` (`RunsWhatWasAccepted`), `AlwaysBootable`
  (`BootSlotComplete`) and `RestartActivates` (`RestartsIntoUpdate`).  The flag is
  tested before the mutex is taken and lowered without it; what makes this safe is
  `Handover`: the flag is down while a request is on its way to it, and up while the
  task works, so the two are never under way together.  `Locking` (who holds the
  mutex) and `Activation` (otadata names the other slot exactly while the restart is
  due) complete the inductive invariant.
* `UpdateImplemented`: the safety part of `ImplementsUpdate`.  `UpdateStep` shows that
  each step maps to a step of `FirmwareUpdate` or to none.

`CommandSessionProofs` proves, for every `MaxQueue` too, that a step of the session is a
step of the OTA service or leaves it alone (`SessionStep`), so all of the above holds with
commands around it (`SessionRunsWhatWasAccepted`, `SessionBootable`, `SessionRestarts`,
`SessionUpdates`).  `Occupied` says that the handler works on the head of the queue and
that a request is under way only inside the handler; with it, `EveryCommandHandled`
(`NothingLost`) and `ErrorsAreTrue` (`ErrorMeansIdle`): between the second read of the
flag and the answer nobody else can have a request accepted.

`UartDriverProofs` proves for every `QueueSize` and `RingSize`: `UartTypeCorrect`,
`TaskKeepsDriver` (`TaskHasDriver`) and `NoLeftovers` (`NothingLeftBehind`).  What keeps
the task from a driver that is gone is the handle, which is live exactly while the task
is and null before `stop()` deletes anything else (`Handles`).

The assumptions are `WifiConstants`, `MqttConstants`, `NodeConstants` (those of its two
services), `PresenceConstants`, `OtaConstants`, `SessionConstants`, `StoreConstants` and
`UartConstants`, which TLC evaluates too.  `StoreConstants` says that the
markers for an empty and an absent value differ, and are no entries, images or numbers,
and that every device id fits its buffer.

Only model-checked: every liveness property (fairness and `ENABLED` are outside the
prover's reach), and with them the fairness parts of `ImplementsUpdate`,
`ImplementsLinkRetry`, `ImplementsBrokerRetry` and `ImplementsNodeSession`.  Every invariant and every action
property that a passing run checks is a theorem.

## 5. Not modelled

* `WifiService::disconnect` has no caller; every `stop()` is reached only from the
  destructor of the static `Application` of `app_main`, which never runs.
* The keys name and room of `mqtt_device`, which are written after the device id and
  which nothing depends on.
* The sensor readings of `publishTelemetry`: QoS 0, not retained, nothing depends on
  them.
* The progress reports of an update, but for their history flag `reported`.  An update
  that fails in `esp_https_ota_begin` (`OTAService.cpp:109`) makes none, although
  `src/tools/ota/test-ota.sh` waits for one.
* The error handler's counters, which are read by nobody.
* The second free of the UART's event queue, as a property: it is certain on any port
  (`Application.cpp:138` knows it), and the model lets it end in a panic or do nothing.
* Payload formatting, topics, HTTP and TLS, the console's parsing.  (One topic differs
  between documents and code: `docs/deployment.rst` sends `cmd/ota` with an empty
  payload, the code subscribes to `<prefix>/command` and reads the verb from the body.)

## 6. Plan

Done: the twelve specifications of section 2, their runs, and the proofs of section 4.
Left, in this order:

1. An abstract specification of `ConfigStores`: one atomic store that a command writes
   and a boot reads.
2. Within `Presence` and `CommandSession`, the action properties of the two services
   that only the services' own theorems state so far.
