---------------------------- MODULE ConfigStores ----------------------------
(***************************************************************************)
(* The two configuration stores (WifiConfigInterface.cpp,                  *)
(* MqttConfigInterface.cpp) and the boot that reads them                   *)
(* (Application.cpp, initialize).                                          *)
(*                                                                         *)
(* The console task runs one command at a time and writes NVS one key      *)
(* after the other; the main task reads at boot.  The WiFi store takes its *)
(* mutex for each key, so a read or write of a key is one step and the     *)
(* mutex is invisible; the MQTT store keeps its mutex for a whole command. *)
(* NVS writes through; any write may fail and a reset may come anywhere.   *)
(*                                                                         *)
(* What an operator types with one command is an entry e: its SSID and     *)
(* password, its host and port, its user and password carry the same name. *)
(* The name and the room that mqtt_device writes too are left out.         *)
(***************************************************************************)
EXTENDS Naturals, Sequences

CONSTANTS Entries,      \* what is typed
          Unfit,        \* per key, those whose part does not fit the buffer it is read to
          EnteredPort,  \* the number typed as port
          Firmwares,    \* each derives a device id of its own from the MAC
          Operators,    \* the sets of commands that one operator uses
          Absent,       \* a key that is not in NVS; also: nothing promised
          Empty         \* the empty string

WifiCommands == {"wifi_set", "wifi_ssid", "wifi_password", "wifi_clear"}
MqttCommands == {"mqtt_set", "mqtt_auth", "mqtt_device", "mqtt_ota_url", "mqtt_clear"}

MqttKeys == {"host", "port", "user", "pass", "devid", "ota_url"}
Keys == {"ssid", "password"} \cup MqttKeys

\* isValidDeviceId refuses what would not fit; nothing else checks a length.
ASSUME StoreConstants ==
    /\ Unfit \in [Keys -> SUBSET Entries] /\ Unfit["devid"] = {}
    /\ EnteredPort \in [Entries -> Nat]
    /\ Operators \subseteq SUBSET (WifiCommands \cup MqttCommands \cup {"mqtt_status"})
    /\ Absent \notin Entries \cup Firmwares \cup Nat /\ Empty \notin Entries \cup Firmwares
    /\ Absent # Empty

VARIABLES
    nvs,         \* flash: the value of each key
    operator,    \* the commands typed in this behaviour
    firmware,    \* the image that runs
    pc,          \* where Application::initialize is
    m_wifi_cfg, m_mqtt_cfg,
    cmd, arg,    \* the console command under way, its entry
    left,        \* the keys it still has to write
    mutex,       \* who holds the mutex of the MQTT store
    \* history
    promised,    \* per group, what a command acknowledged and nobody touched since
    due,         \* the promises at the last reset, still untouched
    mixed,       \* the groups whose keys may be of two commands: one was cut off
    identity     \* the device id in use, if nobody asked for another

bootVars == <<pc, m_wifi_cfg, m_mqtt_cfg>>
consoleVars == <<cmd, arg, left, mutex>>
history == <<promised, due, mixed, identity>>
vars == <<nvs, operator, firmware, bootVars, consoleVars, history>>

MqttGroups == {"broker", "auth", "device", "ota"}
Groups == {"wifi"} \cup MqttGroups

\* The keys of a command, in the order of its writes.
KeysOf == [wifi_set |-> <<"ssid", "password">>, wifi_ssid |-> <<"ssid">>,
           wifi_password |-> <<"password">>, wifi_clear |-> <<"ssid", "password">>,
           mqtt_set |-> <<"host", "port">>, mqtt_auth |-> <<"user", "pass">>,
           mqtt_device |-> <<"devid">>, mqtt_ota_url |-> <<"ota_url">>,
           mqtt_clear |-> <<>>]

\* The groups whose contents a command changes.
Affects(c) == CASE c \in WifiCommands   -> {"wifi"}
                [] c = "mqtt_set"       -> {"broker"}
                [] c = "mqtt_auth"      -> {"auth"}
                [] c = "mqtt_device"    -> {"device"}
                [] c = "mqtt_ota_url"   -> {"ota"}
                [] c = "mqtt_clear"     -> MqttGroups

DefaultPort == 1883
MaxPort == 65535       \* a uint16_t
Ports == 1..MaxPort

\* Seeded fault: the number is stored as it was typed.
PortNotNarrowed(n) == IF n = 0 THEN DefaultPort ELSE n

\* (uint16_t)atoi, and zero stands for the default.
StoredPort(n) == IF n % (MaxPort + 1) = 0 THEN DefaultPort ELSE n % (MaxPort + 1)

Value(c, e, k) == IF c = "wifi_clear" THEN Empty
                  ELSE IF k = "port" THEN StoredPort(EnteredPort[e])
                  ELSE e

\* nvs_get_str: absent, or longer than the buffer, is an error.
Readable(k) == nvs[k] # Absent /\ nvs[k] \notin Unfit[k]

NoWifi == [ssid |-> Empty, password |-> Empty]
NoMqtt == [host |-> Empty, port |-> DefaultPort, username |-> Empty, password |-> Empty,
           device_id |-> Empty, ota_url |-> Empty]
Nothing == [g \in Groups |-> Absent]

TypeOK ==
    /\ \A k \in Keys \ {"port"} : nvs[k] \in Entries \cup Firmwares \cup {Absent, Empty}
    /\ nvs["port"] \in Ports \cup {Absent}
    /\ operator \in Operators /\ firmware \in Firmwares
    /\ pc \in {"off", "ssid", "password", "mqtt", "run", "failed"}
    /\ cmd \in WifiCommands \cup MqttCommands \cup {"none"}
    /\ arg \in Entries \cup {Absent} /\ left \in Seq(Keys) /\ Len(left) <= 2
    /\ mutex \in {"none", "console"}
    /\ m_wifi_cfg \in [{"ssid", "password"} -> Entries \cup {Empty}]
    /\ \A f \in {"host", "username", "password", "ota_url"} :
          m_mqtt_cfg[f] \in Entries \cup {Empty}
    /\ m_mqtt_cfg.port \in Ports
    /\ m_mqtt_cfg.device_id \in Entries \cup Firmwares \cup {Empty}
    /\ promised \in [Groups -> Entries \cup {Absent, Empty}]
    /\ due \in [Groups -> Entries \cup {Absent, Empty}]
    /\ mixed \subseteq MqttGroups /\ identity \in Entries \cup Firmwares \cup {Absent}

Init ==
    /\ nvs = [k \in Keys |-> Absent]
    /\ operator \in Operators /\ firmware \in Firmwares
    /\ pc = "off" /\ m_wifi_cfg = NoWifi /\ m_mqtt_cfg = NoMqtt
    /\ cmd = "none" /\ arg = Absent /\ left = <<>> /\ mutex = "none"
    /\ promised = Nothing /\ due = Nothing /\ mixed = {} /\ identity = Absent

----------------------------------------------------------------------------
(* The boot.                                                               *)

\* Both stores open NVS and register their commands.
OpenStores ==
    /\ pc = "off" /\ pc' = "ssid"
    /\ UNCHANGED <<nvs, operator, firmware, m_wifi_cfg, m_mqtt_cfg, consoleVars,
                   history>>

\* "NVS partition truncated; erasing and retrying": everything is forgotten.
EraseAndOpenStores ==
    /\ pc = "off" /\ pc' = "ssid"
    /\ nvs' = [k \in Keys |-> Absent]
    /\ promised' = Nothing /\ due' = Nothing /\ mixed' = {} /\ identity' = Absent
    /\ UNCHANGED <<operator, firmware, m_wifi_cfg, m_mqtt_cfg, consoleVars>>

\* hasCredentials: SSID and password are read one after the other.
ReadSsid ==
    /\ pc = "ssid"
    /\ IF Readable("ssid")
         THEN pc' = "password" /\ m_wifi_cfg' = [m_wifi_cfg EXCEPT !.ssid = nvs["ssid"]]
         ELSE pc' = "mqtt" /\ UNCHANGED m_wifi_cfg
    /\ UNCHANGED <<nvs, operator, firmware, m_mqtt_cfg, consoleVars, history>>

\* With both, WifiService::connect refuses an empty SSID and initialize fails.
ReadPassword ==
    /\ pc = "password"
    /\ IF Readable("password")
         THEN /\ m_wifi_cfg' = [m_wifi_cfg EXCEPT !.password = nvs["password"]]
              /\ pc' = IF m_wifi_cfg.ssid = Empty THEN "failed" ELSE "mqtt"
         ELSE pc' = "mqtt" /\ UNCHANGED m_wifi_cfg
    /\ UNCHANGED <<nvs, operator, firmware, m_mqtt_cfg, consoleVars, history>>

\* readStr: what cannot be read stays empty.
Text(k) == IF Readable(k) THEN nvs[k] ELSE Empty

\* What load() fills in; an id is derived from the MAC when none is stored.
Loaded == [host |-> Text("host"), username |-> Text("user"), password |-> Text("pass"),
           ota_url |-> Text("ota_url"),
           port |-> IF nvs["port"] = Absent THEN DefaultPort ELSE nvs["port"],
           device_id |-> IF nvs["devid"] = Absent THEN firmware ELSE nvs["devid"]]

\* Seeded fault: the derived id is not stored.
NotPersisted == UNCHANGED nvs

\* A derived id is stored at once.
PersistId == nvs' = [nvs EXCEPT !["devid"] = Loaded.device_id]

\* Seeded fault: hasConfig reads without the mutex.
LoadUnlocked ==
    /\ pc = "mqtt" /\ pc' = "run"
    /\ m_mqtt_cfg' = Loaded
    /\ PersistId /\ identity' = Loaded.device_id
    /\ UNCHANGED <<operator, firmware, m_wifi_cfg, consoleVars, promised, due, mixed>>

\* hasConfig: one load under the mutex.
LoadMqtt ==
    /\ pc = "mqtt" /\ mutex = "none" /\ pc' = "run"
    /\ m_mqtt_cfg' = Loaded
    /\ PersistId /\ identity' = Loaded.device_id
    /\ UNCHANGED <<operator, firmware, m_wifi_cfg, consoleVars, promised, due, mixed>>

\* The result of storing the derived id is ignored.
LoadMqttUnsaved ==
    /\ pc = "mqtt" /\ mutex = "none" /\ pc' = "run"
    /\ nvs["devid"] = Absent
    /\ m_mqtt_cfg' = Loaded
    /\ identity' = Absent
    /\ UNCHANGED <<nvs, operator, firmware, m_wifi_cfg, consoleVars, promised, due,
                   mixed>>

Boot == OpenStores \/ EraseAndOpenStores \/ ReadSsid \/ ReadPassword
            \/ LoadMqtt \/ LoadMqttUnsaved

----------------------------------------------------------------------------
(* The console task.                                                       *)

\* A command begins; from here on its groups hold what nobody promised.
Type(c, e) ==
    /\ cmd = "none" /\ pc # "off" /\ c \in operator
    /\ cmd' = c /\ arg' = e /\ left' = KeysOf[c]
    /\ promised' = [g \in Groups |-> IF g \in Affects(c) THEN Absent ELSE promised[g]]
    /\ due' = [g \in Groups |-> IF g \in Affects(c) THEN Absent ELSE due[g]]
    /\ UNCHANGED <<nvs, operator, firmware, bootVars, mutex, mixed, identity>>

TakeMutex ==
    /\ cmd \in MqttCommands /\ mutex = "none" /\ mutex' = "console"
    /\ identity' = IF "device" \in Affects(cmd) THEN Absent ELSE identity
    /\ UNCHANGED <<nvs, operator, firmware, bootVars, cmd, arg, left, promised, due,
                   mixed>>

\* The WiFi store has the mutex of its own within each step.
MayWrite == cmd \in WifiCommands \/ mutex = "console"

Written == [nvs EXCEPT ![Head(left)] = Value(cmd, arg, Head(left))]

WriteKey ==
    /\ MayWrite /\ left # <<>>
    /\ nvs' = Written /\ left' = Tail(left)
    /\ UNCHANGED <<operator, firmware, bootVars, cmd, arg, mutex, history>>

\* The command returns.
Return ==
    /\ cmd' = "none" /\ arg' = Absent /\ left' = <<>> /\ mutex' = "none"
    /\ UNCHANGED <<operator, firmware, bootVars>>

\* One key of a pair written alone leaves the pair mixed.
CutOff == IF \/ cmd \in {"mqtt_set", "mqtt_auth"} /\ Len(left) = 1
             \/ cmd = "mqtt_clear" /\ mutex = "console"
          THEN Affects(cmd) ELSE {}

\* Seeded fault: the error path keeps the mutex.
WriteFailsLocked ==
    /\ MayWrite /\ left # <<>>
    /\ cmd' = "none" /\ arg' = Absent /\ left' = <<>>
    /\ mixed' = mixed \cup CutOff
    /\ UNCHANGED <<nvs, operator, firmware, bootVars, mutex, promised, due, identity>>

\* Seeded fault: the command goes on after a failed write.
WriteFailsQuietly ==
    /\ MayWrite /\ left # <<>>
    /\ left' = Tail(left)
    /\ UNCHANGED <<nvs, operator, firmware, bootVars, cmd, arg, mutex, history>>

\* nvs_set fails: the rest of the command is skipped.
WriteFails ==
    /\ MayWrite /\ left # <<>> /\ Return
    /\ mixed' = mixed \cup CutOff
    /\ UNCHANGED <<nvs, promised, due, identity>>

\* nvs_commit fails: after each WiFi key, after the last MQTT key.
CommitFails ==
    /\ MayWrite /\ left # <<>> /\ Return
    /\ cmd \in WifiCommands \/ Len(left) = 1
    /\ nvs' = Written
    /\ mixed' = mixed \ Affects(cmd)
    /\ UNCHANGED <<promised, due, identity>>

\* mqtt_clear: nvs_erase_all takes the keys in no particular order.
EraseKey(k) ==
    /\ cmd = "mqtt_clear" /\ mutex = "console" /\ nvs[k] # Absent
    /\ nvs' = [nvs EXCEPT ![k] = Absent]
    /\ UNCHANGED <<operator, firmware, bootVars, consoleVars, history>>

EraseFails ==
    /\ cmd = "mqtt_clear" /\ mutex = "console" /\ Return
    /\ mixed' = mixed \cup CutOff
    /\ UNCHANGED <<nvs, promised, due, identity>>

Done ==
    /\ cmd # "none" /\ left = <<>> /\ MayWrite
    /\ cmd = "mqtt_clear" => \A k \in MqttKeys : nvs[k] = Absent

\* What the operator may rely on after "saved" or "erased".
Promise(c, e) ==
    [g \in Groups |->
        IF g \notin Affects(c) \/ c \in {"wifi_ssid", "wifi_password"} THEN promised[g]
        ELSE IF c = "wifi_clear" \/ (c = "mqtt_clear" /\ g # "device") THEN Empty
        ELSE IF c = "mqtt_clear" THEN Absent
        ELSE e]

Acknowledge ==
    /\ Done /\ Return
    /\ promised' = Promise(cmd, arg)
    /\ mixed' = mixed \ Affects(cmd)
    /\ UNCHANGED <<nvs, due, identity>>

\* mqtt_status loads as well, and so stores a derived id.
Status ==
    /\ cmd = "none" /\ pc # "off" /\ mutex = "none" /\ "mqtt_status" \in operator
    /\ PersistId
    /\ UNCHANGED <<operator, firmware, bootVars, consoleVars, history>>

Console == TakeMutex \/ WriteKey \/ WriteFails \/ CommitFails
               \/ (\E k \in MqttKeys : EraseKey(k)) \/ EraseFails \/ Acknowledge

----------------------------------------------------------------------------
\* A power loss, a watchdog, a command: RAM is lost, another image may run.
Reboot(f) ==
    /\ firmware' = f
    /\ pc' = "off" /\ m_wifi_cfg' = NoWifi /\ m_mqtt_cfg' = NoMqtt
    /\ cmd' = "none" /\ arg' = Absent /\ left' = <<>> /\ mutex' = "none"
    /\ due' = promised /\ mixed' = mixed \cup CutOff
    /\ UNCHANGED <<nvs, operator, promised, identity>>

Next ==
    \/ Boot
    \/ \E c \in WifiCommands \cup MqttCommands, e \in Entries : Type(c, e)
    \/ Console \/ Status
    \/ \E f \in Firmwares : Reboot(f)

\* The boot and a command that was typed go on; nobody need type or reset.  A
\* task that waits for a mutex is next when it is given: whoever types the
\* following command is too late, hence strong fairness for hasConfig.
Fairness == WF_vars(Boot) /\ WF_vars(Console) /\ SF_vars(LoadMqtt)

Spec == Init /\ [][Next]_vars /\ Fairness

----------------------------------------------------------------------------
(* Properties                                                              *)

\* What a command acknowledged, and no command or failure touched since, is
\* what the next boot reads, whatever other command was cut off meanwhile: the
\* entry, as far as its parts fit the buffers that they are read to, or after
\* wifi_clear and mqtt_clear nothing of any entry.  Nothing is promised of a
\* part that does not fit, though it is acknowledged like any other, and nothing
\* of how the boot goes on.
Promises(g, k, v) == due[g] \in Entries \ Unfit[k] => v = due[g]

Cleared(g, v) == due[g] = Empty => v = Empty

AppliedAtBoot ==
    /\ pc \in {"mqtt", "run", "failed"} =>
          /\ due["wifi"] \notin Unfit["password"] =>
                Promises("wifi", "ssid", m_wifi_cfg.ssid)
          /\ due["wifi"] \notin Unfit["ssid"] =>
                Promises("wifi", "password", m_wifi_cfg.password)
          /\ Cleared("wifi", m_wifi_cfg.ssid) /\ Cleared("wifi", m_wifi_cfg.password)
    /\ pc = "run" =>
          /\ Promises("broker", "host", m_mqtt_cfg.host)
          /\ due["broker"] \in Entries =>
                m_mqtt_cfg.port = StoredPort(EnteredPort[due["broker"]])
          /\ Promises("auth", "user", m_mqtt_cfg.username)
          /\ Promises("auth", "pass", m_mqtt_cfg.password)
          /\ Promises("ota", "ota_url", m_mqtt_cfg.ota_url)
          /\ Promises("device", "devid", m_mqtt_cfg.device_id)
          /\ Cleared("broker", m_mqtt_cfg.host) /\ Cleared("auth", m_mqtt_cfg.username)
          /\ Cleared("auth", m_mqtt_cfg.password) /\ Cleared("ota", m_mqtt_cfg.ota_url)

\* What a part of an entry is read as.
ReadAs(e, k) == IF e \in Unfit[k] THEN Empty ELSE e

\* The boot never uses the host of one mqtt_set with the port of another, or the
\* user of one mqtt_auth with the password of another, even if it reads while
\* the command writes.  Outside its scope are the pairs that a failure or a
\* reset cut in two: nothing in the code mends those.
PairsReadWhole ==
    [][pc = "mqtt" /\ pc' = "run" =>
          /\ "broker" \notin mixed /\ m_mqtt_cfg'.host # Empty =>
                m_mqtt_cfg'.port = StoredPort(EnteredPort[m_mqtt_cfg'.host])
          /\ "auth" \notin mixed =>
                \E e \in Entries \cup {Empty} :
                    /\ m_mqtt_cfg'.username = ReadAs(e, "user")
                    /\ m_mqtt_cfg'.password = ReadAs(e, "pass")]_vars

\* The node keeps its device id over resets and new images, unless somebody
\* gave it another, the store was erased, or it could not be stored.
DeviceIdKept == [][identity # Absent /\ identity' # Absent => identity' = identity]_vars

\* Whatever fails in a command, the boot gets the mutex.
LoadGetsMutex == pc = "mqtt" ~> pc # "mqtt"
=============================================================================
