------------------------- MODULE ConfigStoresProofs -------------------------
(***************************************************************************)
(* What the two configuration stores guarantee for every set of entries,   *)
(* every port that can be typed and every set of images.                   *)
(***************************************************************************)
EXTENDS ConfigStores, TLAPS

----------------------------------------------------------------------------
(* The inductive invariant.                                                *)

Texts == Entries \cup {Absent}

\* What each key can hold.
FlashTypes ==
    /\ DOMAIN nvs = Keys
    /\ nvs["ssid"] \in Texts \cup {Empty} /\ nvs["password"] \in Texts \cup {Empty}
    /\ nvs["host"] \in Texts /\ nvs["port"] \in Ports \cup {Absent}
    /\ nvs["user"] \in Texts /\ nvs["pass"] \in Texts /\ nvs["ota_url"] \in Texts
    /\ nvs["devid"] \in Texts \cup Firmwares

\* What the boot has made of it.
BootTypes ==
    /\ operator \in Operators /\ firmware \in Firmwares
    /\ pc \in {"off", "ssid", "password", "mqtt", "run", "failed"}
    /\ m_wifi_cfg \in [{"ssid", "password"} -> Entries \cup {Empty}]
    /\ m_mqtt_cfg.host \in Entries \cup {Empty}
    /\ m_mqtt_cfg.username \in Entries \cup {Empty}
    /\ m_mqtt_cfg.password \in Entries \cup {Empty}
    /\ m_mqtt_cfg.ota_url \in Entries \cup {Empty}
    /\ m_mqtt_cfg.port \in Ports
    /\ m_mqtt_cfg.device_id \in Entries \cup Firmwares \cup {Empty}

\* What is remembered of the commands.
HistoryTypes ==
    /\ promised \in [Groups -> Texts \cup {Empty}]
    /\ due \in [Groups -> Texts \cup {Empty}]
    /\ mixed \subseteq MqttGroups
    /\ identity \in Entries \cup Firmwares \cup {Absent}

Types == FlashTypes /\ BootTypes /\ HistoryTypes

\* What a command can still have to write.
Remaining(c) ==
    CASE c \in {"wifi_set", "wifi_clear"} -> {<<"ssid", "password">>, <<"password">>, <<>>}
      [] c = "wifi_ssid"     -> {<<"ssid">>, <<>>}
      [] c = "wifi_password" -> {<<"password">>, <<>>}
      [] c = "mqtt_set"      -> {<<"host", "port">>, <<"port">>, <<>>}
      [] c = "mqtt_auth"     -> {<<"user", "pass">>, <<"pass">>, <<>>}
      [] c = "mqtt_device"   -> {<<"devid">>, <<>>}
      [] c = "mqtt_ota_url"  -> {<<"ota_url">>, <<>>}
      [] c \in {"mqtt_clear", "none"} -> {<<>>}

\* Where the console is: the mutex goes with a command on the MQTT store.
ConsoleInv ==
    /\ cmd \in WifiCommands \cup MqttCommands \cup {"none"}
    /\ mutex \in {"none", "console"}
    /\ left \in Remaining(cmd)
    /\ IF cmd = "none" THEN arg = Absent ELSE arg \in Entries /\ pc # "off"
    /\ mutex = "console" => cmd \in MqttCommands
    /\ cmd \in MqttCommands /\ mutex = "none" => left = KeysOf[cmd]

\* What a command has already written.
Progress ==
    /\ cmd \in {"wifi_set", "wifi_clear"} =>
          /\ left # <<"ssid", "password">> => nvs["ssid"] = Value(cmd, arg, "ssid")
          /\ left = <<>> => nvs["password"] = Value(cmd, arg, "password")
    /\ cmd = "mqtt_set" =>
          /\ left # <<"host", "port">> => nvs["host"] = arg
          /\ left = <<>> => nvs["port"] = StoredPort(EnteredPort[arg])
    /\ cmd = "mqtt_auth" =>
          /\ left # <<"user", "pass">> => nvs["user"] = arg
          /\ left = <<>> => nvs["pass"] = arg
    /\ cmd = "mqtt_device" /\ left = <<>> => nvs["devid"] = arg
    /\ cmd = "mqtt_ota_url" /\ left = <<>> => nvs["ota_url"] = arg

\* What a promise says of the flash.
Holds(g, v) ==
    /\ g = "wifi" => nvs["ssid"] = v /\ nvs["password"] = v
    /\ g = "broker" => IF v = Empty THEN nvs["host"] = Absent /\ nvs["port"] = Absent
                       ELSE nvs["host"] = v /\ nvs["port"] = StoredPort(EnteredPort[v])
    /\ g = "auth" => IF v = Empty THEN nvs["user"] = Absent /\ nvs["pass"] = Absent
                     ELSE nvs["user"] = v /\ nvs["pass"] = v
    /\ g = "ota" => IF v = Empty THEN nvs["ota_url"] = Absent ELSE nvs["ota_url"] = v
    /\ g = "device" => nvs["devid"] = v /\ v # Empty

\* A promise is kept by the flash until a command on its group begins.
PromisesHeld ==
    \A g \in Groups :
        /\ promised[g] # Absent => Holds(g, promised[g])
        /\ due[g] # Absent => due[g] = promised[g]
        /\ cmd # "none" /\ g \in Affects(cmd) => promised[g] = Absent /\ due[g] = Absent

\* The boot, as far as it is, has read what was due.
BootReads ==
    /\ pc \in {"off", "ssid"} => m_wifi_cfg = NoWifi
    /\ pc = "password" /\ due["wifi"] # Absent =>
          /\ due["wifi"] \notin Unfit["ssid"]
          /\ m_wifi_cfg = [ssid |-> due["wifi"], password |-> Empty]
    /\ AppliedAtBoot

\* A pair is whole unless a command is between its two keys, or was cut off
\* there.
BrokerWhole == nvs["host"] # Absent => nvs["port"] = StoredPort(EnteredPort[nvs["host"]])
AuthWhole == nvs["pass"] = nvs["user"]

Clearing == cmd = "mqtt_clear" /\ mutex = "console"

Pairs ==
    /\ \/ "broker" \in mixed \/ BrokerWhole \/ Clearing
       \/ cmd = "mqtt_set" /\ left = <<"port">>
    /\ \/ "auth" \in mixed \/ AuthWhole \/ Clearing
       \/ cmd = "mqtt_auth" /\ left = <<"pass">>

\* The id in use is the stored one, and nobody is about to change it.
Identity ==
    /\ identity # Absent => nvs["devid"] = identity
    /\ mutex = "console" /\ cmd \in {"mqtt_device", "mqtt_clear"} => identity = Absent

StoreInv == Types /\ ConsoleInv /\ Progress /\ PromisesHeld /\ BootReads /\ Pairs /\ Identity

----------------------------------------------------------------------------
(* The operators of the model.                                             *)

\* Whatever number is typed, a port is stored.
LEMMA StoredPortRange == \A n \in Nat : StoredPort(n) \in Ports
<1> SUFFICES ASSUME NEW n \in Nat PROVE StoredPort(n) \in Ports
  OBVIOUS
<1>1. MaxPort \in Nat /\ DefaultPort \in Nat /\ 1 <= DefaultPort /\ DefaultPort <= MaxPort
  BY SMT DEF MaxPort, DefaultPort
<1>2. n % (MaxPort + 1) \in 0..MaxPort
  BY <1>1, SMT
<1> QED BY <1>1, <1>2, SMT DEF StoredPort, Ports

\* The markers are none of the values they stand beside.
LEMMA Markers ==
    /\ Absent # Empty /\ Absent \notin Entries /\ Empty \notin Entries
    /\ Absent \notin Firmwares /\ Empty \notin Firmwares
    /\ Absent \notin Ports
    /\ \A k \in Keys :
          Unfit[k] \subseteq Entries /\ Absent \notin Unfit[k] /\ Empty \notin Unfit[k]
<1>1. Ports \subseteq Nat
  BY DEF Ports
<1> QED BY <1>1, StoreConstants

\* What a command writes.
LEMMA ValueTypes ==
    ASSUME NEW e \in Entries
    PROVE  /\ StoredPort(EnteredPort[e]) \in Ports
           /\ \A c : c # "wifi_clear" => Value(c, e, "port") = StoredPort(EnteredPort[e])
           /\ \A c, k : c # "wifi_clear" /\ k # "port" => Value(c, e, k) = e
           /\ \A k : Value("wifi_clear", e, k) = Empty
<1>1. StoredPort(EnteredPort[e]) \in Ports
  BY StoredPortRange, StoreConstants
<1> QED BY <1>1 DEF Value

\* What hasConfig loads.
LEMMA LoadedTypes ==
    ASSUME FlashTypes, BootTypes
    PROVE  /\ Loaded.host = (IF Readable("host") THEN nvs["host"] ELSE Empty)
           /\ Loaded.username = (IF Readable("user") THEN nvs["user"] ELSE Empty)
           /\ Loaded.ota_url = (IF Readable("ota_url") THEN nvs["ota_url"] ELSE Empty)
           /\ Loaded.password = (IF Readable("pass") THEN nvs["pass"] ELSE Empty)
           /\ Loaded.port = (IF nvs["port"] = Absent THEN DefaultPort ELSE nvs["port"])
           /\ Loaded.device_id = (IF nvs["devid"] = Absent THEN firmware ELSE nvs["devid"])
           /\ Loaded.port \in Ports /\ Loaded.device_id \in Entries \cup Firmwares
<1>1. DefaultPort \in Ports
  BY SMT DEF DefaultPort, Ports, MaxPort
<1> QED BY <1>1 DEF Loaded, Text, FlashTypes, BootTypes, Texts

\* Which key is written next, and what is left after it.
WritesNext(cs, l, k, t, n) ==
    /\ cmd \in cs /\ left = l /\ Tail(left) = t /\ Len(left) = n
    /\ Written = [nvs EXCEPT ![k] = Value(cmd, arg, k)]

\* A command that may write has ten places to be at: each writes one key.
LEMMA NextWrite ==
    ASSUME ConsoleInv, MayWrite, left # <<>>
    PROVE  \/ WritesNext({"wifi_set", "wifi_clear"}, <<"ssid", "password">>,
                         "ssid", <<"password">>, 2)
           \/ WritesNext({"wifi_set", "wifi_clear"}, <<"password">>, "password", <<>>, 1)
           \/ WritesNext({"wifi_ssid"}, <<"ssid">>, "ssid", <<>>, 1)
           \/ WritesNext({"wifi_password"}, <<"password">>, "password", <<>>, 1)
           \/ WritesNext({"mqtt_set"}, <<"host", "port">>, "host", <<"port">>, 2)
           \/ WritesNext({"mqtt_set"}, <<"port">>, "port", <<>>, 1)
           \/ WritesNext({"mqtt_auth"}, <<"user", "pass">>, "user", <<"pass">>, 2)
           \/ WritesNext({"mqtt_auth"}, <<"pass">>, "pass", <<>>, 1)
           \/ WritesNext({"mqtt_device"}, <<"devid">>, "devid", <<>>, 1)
           \/ WritesNext({"mqtt_ota_url"}, <<"ota_url">>, "ota_url", <<>>, 1)
<1>1. \A a, b : /\ Head(<<a, b>>) = a /\ Tail(<<a, b>>) = <<b>> /\ Len(<<a, b>>) = 2
                /\ Head(<<a>>) = a /\ Tail(<<a>>) = <<>> /\ Len(<<a>>) = 1
  OBVIOUS
<1>2. ASSUME NEW cs, cmd \in cs, NEW a, NEW b, left = <<a, b>>
      PROVE  WritesNext(cs, <<a, b>>, a, <<b>>, 2)
  BY <1>2, <1>1 DEF WritesNext, Written
<1>3. ASSUME NEW cs, cmd \in cs, NEW a, left = <<a>>
      PROVE  WritesNext(cs, <<a>>, a, <<>>, 1)
  BY <1>3, <1>1 DEF WritesNext, Written
<1>4. CASE cmd \in {"wifi_set", "wifi_clear"}
  <2>1. left = <<"ssid", "password">> \/ left = <<"password">>
    BY <1>4 DEF ConsoleInv, Remaining
  <2> QED BY <1>4, <2>1, <1>2, <1>3
<1>5. CASE cmd = "wifi_ssid"
  <2>1. left = <<"ssid">>
    BY <1>5 DEF ConsoleInv, Remaining
  <2> QED BY <1>5, <2>1, <1>3
<1>6. CASE cmd = "wifi_password"
  <2>1. left = <<"password">>
    BY <1>6 DEF ConsoleInv, Remaining
  <2> QED BY <1>6, <2>1, <1>3
<1>7. CASE cmd = "mqtt_set"
  <2>1. left = <<"host", "port">> \/ left = <<"port">>
    BY <1>7 DEF ConsoleInv, Remaining
  <2> QED BY <1>7, <2>1, <1>2, <1>3
<1>8. CASE cmd = "mqtt_auth"
  <2>1. left = <<"user", "pass">> \/ left = <<"pass">>
    BY <1>8 DEF ConsoleInv, Remaining
  <2> QED BY <1>8, <2>1, <1>2, <1>3
<1>9. CASE cmd = "mqtt_device"
  <2>1. left = <<"devid">>
    BY <1>9 DEF ConsoleInv, Remaining
  <2> QED BY <1>9, <2>1, <1>3
<1>10. CASE cmd = "mqtt_ota_url"
  <2>1. left = <<"ota_url">>
    BY <1>10 DEF ConsoleInv, Remaining
  <2> QED BY <1>10, <2>1, <1>3
<1>11. CASE cmd \in {"mqtt_clear", "none"}
  BY <1>11 DEF ConsoleInv, Remaining
<1> QED BY <1>4, <1>5, <1>6, <1>7, <1>8, <1>9, <1>10, <1>11
        DEF ConsoleInv, WifiCommands, MqttCommands

\* A write changes the key it names and no other.
LEMMA KeyWritten ==
    ASSUME FlashTypes, NEW k \in Keys, NEW v, nvs' = [nvs EXCEPT ![k] = v]
    PROVE  DOMAIN nvs' = Keys /\ nvs'[k] = v /\ \A j \in Keys \ {k} : nvs'[j] = nvs[j]
BY DEF FlashTypes

----------------------------------------------------------------------------
(* The types.                                                              *)

\* Everything that ever happens to the flash.
LEMMA FlashStep ==
    ASSUME [Next]_vars
    PROVE  \/ UNCHANGED nvs
           \/ nvs' = [k \in Keys |-> Absent]
           \/ PersistId
           \/ nvs' = Written /\ MayWrite /\ left # <<>>
           \/ \E k \in MqttKeys : nvs' = [nvs EXCEPT ![k] = Absent]
BY DEF Next, vars, Boot, Console, OpenStores, EraseAndOpenStores, ReadSsid, ReadPassword,
       LoadMqtt, LoadMqttUnsaved, Type, TakeMutex, WriteKey, WriteFails, CommitFails,
       EraseKey, EraseFails, Acknowledge, Status, Reboot

\* Whatever a step does to the flash, each key keeps its type.
LEMMA FlashKept ==
    ASSUME Types, ConsoleInv, [Next]_vars
    PROVE  FlashTypes'
<1> USE DEF Types
<1>1. CASE UNCHANGED nvs
  BY <1>1 DEF FlashTypes, Texts
<1>2. CASE nvs' = [k \in Keys |-> Absent]
  BY <1>2 DEF FlashTypes, Texts, Keys, MqttKeys
<1>3. CASE PersistId
  BY <1>3, LoadedTypes, KeyWritten DEF PersistId, FlashTypes, Texts, Keys, MqttKeys
<1>4. CASE nvs' = Written /\ MayWrite /\ left # <<>>
  <2> DEFINE v(k) == Value(cmd, arg, k)
  <2>1. arg \in Entries
    BY <1>4 DEF ConsoleInv, MayWrite, WifiCommands, MqttCommands
  <2>2. /\ v("ssid") \in Texts \cup {Empty} /\ v("password") \in Texts \cup {Empty}
        /\ cmd # "wifi_clear" =>
              /\ v("port") \in Ports
              /\ \A k \in Keys \ {"port"} : v(k) \in Entries
    BY <2>1, ValueTypes DEF Texts
  <2>3. ASSUME NEW k \in Keys, nvs' = [nvs EXCEPT ![k] = v(k)],
               k \in {"ssid", "password"} \/ cmd # "wifi_clear"
        PROVE  FlashTypes'
    BY <2>2, <2>3, KeyWritten DEF FlashTypes, Texts, Keys, MqttKeys
  <2> QED BY <1>4, <2>3, NextWrite DEF WritesNext, Keys, MqttKeys
<1>5. ASSUME NEW k \in MqttKeys, nvs' = [nvs EXCEPT ![k] = Absent]
      PROVE  FlashTypes'
  BY <1>5, KeyWritten DEF FlashTypes, Texts, Keys, MqttKeys
<1> QED BY <1>1, <1>2, <1>3, <1>4, <1>5, FlashStep

\* What the services load is typed as what the flash holds.
LEMMA BootTypesKept ==
    ASSUME Types, ConsoleInv, [Next]_vars
    PROVE  BootTypes'
<1> USE DEF Types
<1>1. CASE UNCHANGED <<operator, firmware, bootVars>>
  BY <1>1 DEF BootTypes, bootVars
<1>2. CASE OpenStores \/ EraseAndOpenStores
  BY <1>2 DEF OpenStores, EraseAndOpenStores, BootTypes
<1>3. CASE ReadSsid
  BY <1>3 DEF ReadSsid, BootTypes, FlashTypes, Texts, Readable
<1>4. CASE ReadPassword
  BY <1>4 DEF ReadPassword, BootTypes, FlashTypes, Texts, Readable
<1>5. CASE LoadMqtt \/ LoadMqttUnsaved
  BY <1>5, LoadedTypes DEF LoadMqtt, LoadMqttUnsaved, BootTypes, FlashTypes, Texts, Readable
<1>6. ASSUME NEW f \in Firmwares, Reboot(f)
      PROVE  BootTypes'
  <2>1. DefaultPort \in Ports
    BY SMT DEF DefaultPort, Ports, MaxPort
  <2> QED BY <1>6, <2>1 DEF Reboot, BootTypes, NoWifi, NoMqtt
<1> QED BY <1>1, <1>2, <1>3, <1>4, <1>5, <1>6
        DEF Next, vars, Boot, Console, Type, TakeMutex, WriteKey, WriteFails, CommitFails,
            Return, EraseKey, EraseFails, Acknowledge, Status

\* What was acknowledged, and is due after the boot, was typed once.
LEMMA HistoryTypesKept ==
    ASSUME Types, ConsoleInv, [Next]_vars
    PROVE  HistoryTypes'
<1> USE DEF Types
<1>1. CASE UNCHANGED history
  BY <1>1 DEF HistoryTypes, history, Texts
<1>2. CASE EraseAndOpenStores
  BY <1>2 DEF EraseAndOpenStores, HistoryTypes, Texts, Nothing
<1>3. CASE LoadMqtt \/ LoadMqttUnsaved
  BY <1>3, LoadedTypes DEF LoadMqtt, LoadMqttUnsaved, HistoryTypes, Texts
<1>4. ASSUME NEW c, NEW e, Type(c, e)
      PROVE  HistoryTypes'
  BY <1>4 DEF Type, HistoryTypes, Texts
<1>5. CASE TakeMutex
  BY <1>5 DEF TakeMutex, HistoryTypes
<1>6. mixed \cup CutOff \subseteq MqttGroups
  BY DEF HistoryTypes, CutOff, Affects, MqttGroups, WifiCommands
<1>7. CASE WriteFails \/ CommitFails \/ EraseFails
  BY <1>6, <1>7 DEF WriteFails, CommitFails, EraseFails, HistoryTypes
<1>8. CASE Acknowledge
  <2>1. arg \in Entries
    BY <1>8 DEF Acknowledge, Done, ConsoleInv
  <2>2. Promise(cmd, arg) \in [Groups -> Texts \cup {Empty}]
    BY <2>1 DEF Promise, HistoryTypes, Texts
  <2> QED BY <1>8, <2>2 DEF Acknowledge, HistoryTypes
<1>9. ASSUME NEW f \in Firmwares, Reboot(f)
      PROVE  HistoryTypes'
  BY <1>6, <1>9 DEF Reboot, HistoryTypes
<1> QED BY <1>1, <1>2, <1>3, <1>4, <1>5, <1>7, <1>8, <1>9
        DEF Next, vars, Boot, OpenStores, ReadSsid, ReadPassword, Console, WriteKey,
            EraseKey, Status

----------------------------------------------------------------------------
(* The console.                                                            *)

\* A command starts with all of its keys.
LEMMA AllKeysLeft ==
    ASSUME NEW c \in WifiCommands \cup MqttCommands
    PROVE  KeysOf[c] \in Remaining(c)
<1>1. CASE c \in WifiCommands
  BY <1>1 DEF KeysOf, Remaining, WifiCommands
<1>2. CASE c \in MqttCommands
  BY <1>2 DEF KeysOf, Remaining, MqttCommands
<1> QED BY <1>1, <1>2

\* A key written is one key fewer.
LEMMA FewerKeys ==
    ASSUME ConsoleInv, MayWrite, left # <<>>
    PROVE  Tail(left) \in Remaining(cmd)
BY NextWrite DEF WritesNext, Remaining

\* One command at a time, with its own keys left, and the mutex with it.
LEMMA ConsoleKept ==
    ASSUME Types, ConsoleInv, [Next]_vars
    PROVE  ConsoleInv'
<1>1. CASE UNCHANGED <<cmd, arg, left, mutex>> /\ (UNCHANGED pc \/ pc' # "off")
  BY <1>1 DEF ConsoleInv, Remaining
<1>2. ASSUME NEW c \in WifiCommands \cup MqttCommands, NEW e \in Entries, Type(c, e)
      PROVE  ConsoleInv'
  <2>1. mutex = "none"
    BY <1>2 DEF Type, ConsoleInv, MqttCommands
  <2>2. c # "none"
    BY DEF WifiCommands, MqttCommands
  <2>3. left' \in Remaining(cmd')
    BY <1>2, AllKeysLeft DEF Type
  <2> QED BY <1>2, <2>1, <2>2, <2>3 DEF Type, ConsoleInv, bootVars
<1>3. CASE TakeMutex
  BY <1>3 DEF TakeMutex, ConsoleInv, Remaining, bootVars
<1>4. CASE WriteKey
  <2>1. left' \in Remaining(cmd')
    BY <1>4, FewerKeys DEF WriteKey, Remaining
  <2>2. cmd \in MqttCommands => mutex = "console"
    BY <1>4 DEF WriteKey, MayWrite, WifiCommands, MqttCommands
  <2> QED BY <1>4, <2>1, <2>2 DEF WriteKey, ConsoleInv, bootVars
<1>5. CASE cmd' = "none" /\ arg' = Absent /\ left' = <<>> /\ mutex' = "none"
  BY <1>5 DEF ConsoleInv, Remaining, WifiCommands, MqttCommands
<1> QED BY <1>1, <1>2, <1>3, <1>4, <1>5
        DEF Next, vars, consoleVars, bootVars, Boot, OpenStores, EraseAndOpenStores, ReadSsid,
            ReadPassword, LoadMqtt, LoadMqttUnsaved, Console, WriteFails, CommitFails,
            EraseKey, EraseFails, Acknowledge, Return, Status, Reboot

\* The keys a command has passed hold what it was given.
LEMMA ProgressKept ==
    ASSUME Types, ConsoleInv, Progress, [Next]_vars
    PROVE  Progress'
<1> USE DEF Types
<1>1. CASE UNCHANGED <<nvs, cmd, arg, left>>
  BY <1>1 DEF Progress, Value
<1>2. CASE cmd' \in {"none", "mqtt_clear"}
  BY <1>2 DEF Progress
<1>3. ASSUME NEW c \in WifiCommands \cup MqttCommands, NEW e \in Entries, Type(c, e)
      PROVE  Progress'
  <2>1. \A a, b : <<a, b>> # <<>> /\ <<a>> # <<>>
    OBVIOUS
  <2> QED BY <1>3, <2>1 DEF Type, Progress, KeysOf
<1>4. CASE WriteKey
  <2> DEFINE Then(cs, l, k, t) ==
        cmd \in cs /\ left = l /\ left' = t /\ nvs' = [nvs EXCEPT ![k] = Value(cmd, arg, k)]
  <2>1. UNCHANGED <<cmd, arg>> /\ arg \in Entries
    BY <1>4 DEF WriteKey, ConsoleInv, MayWrite, WifiCommands, MqttCommands
  <2>2. \A a, b : <<a, b>> # <<>> /\ <<a>> # <<>> /\ <<b>> # <<a, b>>
    OBVIOUS
  <2>3. CASE Then({"wifi_set", "wifi_clear"}, <<"ssid", "password">>, "ssid", <<"password">>)
    <3>1. nvs'["ssid"] = Value(cmd, arg, "ssid")
      BY <2>1, <2>3, KeyWritten DEF Keys, MqttKeys
    <3> QED BY <2>1, <2>2, <2>3, <3>1 DEF Progress, Value
  <2>4. CASE Then({"wifi_set", "wifi_clear"}, <<"password">>, "password", <<>>)
    <3>1. nvs'["password"] = Value(cmd, arg, "password") /\ UNCHANGED nvs["ssid"]
      BY <2>1, <2>4, KeyWritten DEF Keys, MqttKeys
    <3> QED BY <2>1, <2>2, <2>4, <3>1 DEF Progress, Value
  <2>5. CASE \/ Then({"wifi_ssid"}, <<"ssid">>, "ssid", <<>>)
             \/ Then({"wifi_password"}, <<"password">>, "password", <<>>)
    BY <2>1, <2>5 DEF Progress
  <2>6. CASE Then({"mqtt_set"}, <<"host", "port">>, "host", <<"port">>)
    <3>1. nvs'["host"] = arg
      BY <2>1, <2>6, KeyWritten DEF Value, Keys, MqttKeys
    <3> QED BY <2>1, <2>2, <2>6, <3>1 DEF Progress
  <2>7. CASE Then({"mqtt_set"}, <<"port">>, "port", <<>>)
    <3>1. nvs'["port"] = StoredPort(EnteredPort[arg]) /\ UNCHANGED nvs["host"]
      BY <2>1, <2>7, KeyWritten DEF Value, Keys, MqttKeys
    <3> QED BY <2>1, <2>2, <2>7, <3>1 DEF Progress
  <2>8. CASE Then({"mqtt_auth"}, <<"user", "pass">>, "user", <<"pass">>)
    <3>1. nvs'["user"] = arg
      BY <2>1, <2>8, KeyWritten DEF Value, Keys, MqttKeys
    <3> QED BY <2>1, <2>2, <2>8, <3>1 DEF Progress
  <2>9. CASE Then({"mqtt_auth"}, <<"pass">>, "pass", <<>>)
    <3>1. nvs'["pass"] = arg /\ UNCHANGED nvs["user"]
      BY <2>1, <2>9, KeyWritten DEF Value, Keys, MqttKeys
    <3> QED BY <2>1, <2>2, <2>9, <3>1 DEF Progress
  <2>10. CASE \/ Then({"mqtt_device"}, <<"devid">>, "devid", <<>>)
              \/ Then({"mqtt_ota_url"}, <<"ota_url">>, "ota_url", <<>>)
    BY <2>1, <2>10, KeyWritten DEF Progress, Value, Keys, MqttKeys
  <2> QED BY <1>4, <2>3, <2>4, <2>5, <2>6, <2>7, <2>8, <2>9,
         <2>10, NextWrite DEF WriteKey, WritesNext
<1>5. CASE EraseAndOpenStores
  BY <1>5 DEF EraseAndOpenStores, ConsoleInv, consoleVars, Progress
<1>6. CASE LoadMqtt
  <2>1. CASE cmd \in WifiCommands
    BY <1>6, <2>1, KeyWritten DEF LoadMqtt, PersistId, consoleVars, Progress, Value,
       WifiCommands, Keys, MqttKeys
  <2>2. CASE cmd \in MqttCommands
    <3>1. left = KeysOf[cmd] /\ UNCHANGED <<cmd, left>>
      BY <1>6, <2>2 DEF LoadMqtt, ConsoleInv, consoleVars
    <3>2. \A a, b : <<a, b>> # <<>> /\ <<a>> # <<>>
      OBVIOUS
    <3> QED BY <2>2, <3>1, <3>2 DEF Progress, KeysOf, MqttCommands
  <2> QED BY <1>2, <1>6, <2>1, <2>2 DEF LoadMqtt, ConsoleInv, consoleVars
<1>7. CASE Status
  BY <1>2, <1>7 DEF Status, consoleVars
<1> QED BY <1>1, <1>2, <1>3, <1>4, <1>5, <1>6, <1>7
        DEF Next, vars, consoleVars, Boot, OpenStores, ReadSsid, ReadPassword,
            LoadMqttUnsaved, Console, TakeMutex, WriteFails, CommitFails, Return, EraseKey,
            EraseFails, Acknowledge, Reboot

----------------------------------------------------------------------------
(* The promises.                                                           *)

\* The keys that a promise on a group is about.
GroupKeys(g) == CASE g = "wifi"   -> {"ssid", "password"}
                  [] g = "broker" -> {"host", "port"}
                  [] g = "auth"   -> {"user", "pass"}
                  [] g = "device" -> {"devid"}
                  [] g = "ota"    -> {"ota_url"}

\* What is written elsewhere leaves it alone.
LEMMA HoldsElsewhere ==
    ASSUME FlashTypes, NEW g \in Groups, NEW v, Holds(g, v),
           NEW k \in Keys \ GroupKeys(g), NEW w, nvs' = [nvs EXCEPT ![k] = w]
    PROVE  Holds(g, v)'
<1>1. \A j \in Keys \ {k} : nvs'[j] = nvs[j]
  BY KeyWritten
<1>2. GroupKeys(g) \subseteq Keys \ {k}
  BY DEF GroupKeys, Groups, MqttGroups, Keys, MqttKeys
<1>3. \A j \in GroupKeys(g) : nvs'[j] = nvs[j]
  BY <1>1, <1>2
<1> QED BY <1>3 DEF Holds, GroupKeys, Groups, MqttGroups

\* A command writes the keys of its own group only.
LEMMA HoldsWhileWriting ==
    ASSUME FlashTypes, ConsoleInv, MayWrite, left # <<>>, nvs' = Written,
           NEW g \in Groups \ Affects(cmd), NEW v, Holds(g, v)
    PROVE  Holds(g, v)'
<1>1. ASSUME NEW k \in Keys, k \notin GroupKeys(g),
             Written = [nvs EXCEPT ![k] = Value(cmd, arg, k)]
      PROVE  Holds(g, v)'
  BY <1>1, HoldsElsewhere
<1>2. CASE cmd \in WifiCommands
  <2>1. "ssid" \notin GroupKeys(g) /\ "password" \notin GroupKeys(g)
    BY <1>2 DEF Affects, GroupKeys, Groups, MqttGroups, WifiCommands
  <2> QED BY <1>1, <1>2, <2>1, NextWrite DEF WritesNext, WifiCommands, Keys
<1>3. CASE cmd = "mqtt_set"
  <2>1. "host" \notin GroupKeys(g) /\ "port" \notin GroupKeys(g)
    BY <1>3 DEF Affects, GroupKeys, Groups, MqttGroups, WifiCommands
  <2> QED BY <1>1, <1>3, <2>1, NextWrite DEF WritesNext, Keys, MqttKeys
<1>4. CASE cmd = "mqtt_auth"
  <2>1. "user" \notin GroupKeys(g) /\ "pass" \notin GroupKeys(g)
    BY <1>4 DEF Affects, GroupKeys, Groups, MqttGroups, WifiCommands
  <2> QED BY <1>1, <1>4, <2>1, NextWrite DEF WritesNext, Keys, MqttKeys
<1>5. CASE cmd = "mqtt_device"
  <2>1. "devid" \notin GroupKeys(g)
    BY <1>5 DEF Affects, GroupKeys, Groups, MqttGroups, WifiCommands
  <2> QED BY <1>1, <1>5, <2>1, NextWrite DEF WritesNext, Keys, MqttKeys
<1>6. CASE cmd = "mqtt_ota_url"
  <2>1. "ota_url" \notin GroupKeys(g)
    BY <1>6 DEF Affects, GroupKeys, Groups, MqttGroups, WifiCommands
  <2> QED BY <1>1, <1>6, <2>1, NextWrite DEF WritesNext, Keys, MqttKeys
<1>7. CASE cmd \in {"mqtt_clear", "none"}
  BY <1>7, NextWrite DEF WritesNext
<1> QED BY <1>2, <1>3, <1>4, <1>5, <1>6, <1>7 DEF ConsoleInv, MqttCommands

\* An id that is stored already is stored again.
LEMMA HoldsWhilePersisting ==
    ASSUME FlashTypes, BootTypes, PersistId, NEW g \in Groups, NEW v, v # Absent, Holds(g, v)
    PROVE  Holds(g, v)'
<1>1. CASE g = "device"
  <2>1. nvs["devid"] = v
    BY <1>1 DEF Holds
  <2>2. nvs'["devid"] = v
    BY <2>1, LoadedTypes, KeyWritten DEF PersistId, Keys, MqttKeys
  <2> QED BY <1>1, <2>2 DEF Holds
<1>2. CASE g # "device"
  <2>1. "devid" \in Keys \ GroupKeys(g)
    BY <1>2 DEF GroupKeys, Groups, MqttGroups, Keys, MqttKeys
  <2> QED BY <2>1, HoldsElsewhere DEF PersistId
<1> QED BY <1>1, <1>2

\* The groups of each command.
LEMMA AffectsWhat ==
    /\ \A c \in WifiCommands : Affects(c) = {"wifi"}
    /\ Affects("mqtt_set") = {"broker"} /\ Affects("mqtt_auth") = {"auth"}
    /\ Affects("mqtt_device") = {"device"} /\ Affects("mqtt_ota_url") = {"ota"}
    /\ Affects("mqtt_clear") = MqttGroups
BY DEF Affects, WifiCommands

\* What a command acknowledges, the flash holds.
LEMMA AcknowledgedHolds ==
    ASSUME Types, ConsoleInv, Progress, Done, NEW g \in Affects(cmd),
           Promise(cmd, arg)[g] # Absent, promised[g] = Absent
    PROVE  Holds(g, Promise(cmd, arg)[g])
<1>1. arg \in Entries /\ left = <<>> /\ arg # Empty /\ arg # Absent
  BY Markers DEF ConsoleInv, Done
<1>2. \A a, b : <<a, b>> # <<>> /\ <<a>> # <<>>
  OBVIOUS
<1>3. CASE cmd \in WifiCommands
  <2>1. g = "wifi" /\ g \in Groups
    BY <1>3, AffectsWhat DEF Groups
  <2>2. cmd \in {"wifi_set", "wifi_clear"}
    BY <1>3, <2>1 DEF Promise, WifiCommands
  <2>3. Promise(cmd, arg)[g] = IF cmd = "wifi_clear" THEN Empty ELSE arg
    BY <1>3, <2>1, <2>2, AffectsWhat DEF Promise
  <2>4. /\ nvs["ssid"] = (IF cmd = "wifi_clear" THEN Empty ELSE arg)
        /\ nvs["password"] = (IF cmd = "wifi_clear" THEN Empty ELSE arg)
    BY <1>1, <1>2, <2>2 DEF Progress, Value
  <2> QED BY <2>1, <2>3, <2>4 DEF Holds
<1>4. CASE cmd = "mqtt_clear"
  <2>1. g \in {"broker", "auth", "ota"} /\ Promise(cmd, arg)[g] = Empty
    BY <1>4, AffectsWhat DEF Promise, MqttGroups, Groups
  <2>2. \A k \in MqttKeys : nvs[k] = Absent
    BY <1>4 DEF Done
  <2> QED BY <2>1, <2>2 DEF Holds, MqttKeys
<1>5. CASE cmd \in MqttCommands \ {"mqtt_clear"}
  <2>1. g \in Groups
    BY <1>5, AffectsWhat DEF MqttCommands, Groups, MqttGroups
  <2>2. Promise(cmd, arg)[g] = arg
    BY <1>5, <2>1 DEF Promise, MqttCommands
  <2>3. CASE cmd = "mqtt_set"
    BY <1>1, <1>2, <2>2, <2>3, AffectsWhat DEF Progress, Holds
  <2>4. CASE cmd = "mqtt_auth"
    BY <1>1, <1>2, <2>2, <2>4, AffectsWhat DEF Progress, Holds
  <2>5. CASE cmd = "mqtt_device"
    BY <1>1, <1>2, <2>2, <2>5, AffectsWhat DEF Progress, Holds
  <2>6. CASE cmd = "mqtt_ota_url"
    BY <1>1, <1>2, <2>2, <2>6, AffectsWhat DEF Progress, Holds
  <2> QED BY <1>5, <2>3, <2>4, <2>5, <2>6 DEF MqttCommands
<1> QED BY <1>1, <1>3, <1>4, <1>5 DEF ConsoleInv, Done

\* What was acknowledged stays in the flash until a later command affects it.
LEMMA PromisesKept ==
    ASSUME Types, ConsoleInv, Progress, PromisesHeld, [Next]_vars
    PROVE  PromisesHeld'
<1> USE DEF Types
<1>1. CASE UNCHANGED <<nvs, promised, due>> /\ (UNCHANGED cmd \/ cmd' = "none")
  BY <1>1 DEF PromisesHeld, Holds, Affects
<1>2. CASE EraseAndOpenStores
  <2>1. cmd' = "none" /\ promised' = Nothing /\ due' = Nothing
    BY <1>2 DEF EraseAndOpenStores, ConsoleInv, consoleVars
  <2> QED BY <2>1 DEF PromisesHeld, Nothing
<1>3. CASE LoadMqtt \/ Status
  <2>1. PersistId /\ UNCHANGED <<cmd, promised, due>>
    BY <1>3 DEF LoadMqtt, Status, consoleVars, history
  <2>2. ASSUME NEW g \in Groups, promised'[g] # Absent
        PROVE  Holds(g, promised[g])'
    BY <2>1, <2>2, HoldsWhilePersisting DEF PromisesHeld
  <2> QED BY <2>1, <2>2 DEF PromisesHeld, Holds, Affects
<1>4. ASSUME NEW c \in WifiCommands \cup MqttCommands, NEW e \in Entries, Type(c, e)
      PROVE  PromisesHeld'
  <2> SUFFICES ASSUME NEW g \in Groups
               PROVE  /\ promised'[g] # Absent => Holds(g, promised[g])'
                      /\ due'[g] # Absent => due'[g] = promised'[g]
                      /\ g \in Affects(c) => promised'[g] = Absent /\ due'[g] = Absent
    BY <1>4 DEF PromisesHeld, Type, Affects
  <2>1. /\ promised'[g] = IF g \in Affects(c) THEN Absent ELSE promised[g]
        /\ due'[g] = IF g \in Affects(c) THEN Absent ELSE due[g]
        /\ UNCHANGED nvs
    BY <1>4 DEF Type
  <2> QED BY <2>1 DEF PromisesHeld, Holds
<1>5. CASE WriteKey \/ CommitFails
  <2>1. /\ MayWrite /\ left # <<>> /\ nvs' = Written /\ UNCHANGED <<promised, due>>
        /\ UNCHANGED cmd \/ cmd' = "none"
    BY <1>5 DEF WriteKey, CommitFails, Return, history
  <2>2. cmd # "none"
    BY <2>1 DEF MayWrite, ConsoleInv, WifiCommands, MqttCommands
  <2>3. ASSUME NEW g \in Groups, promised'[g] # Absent
        PROVE  Holds(g, promised[g])'
    <3>1. Holds(g, promised[g]) /\ g \notin Affects(cmd)
      BY <2>1, <2>2, <2>3 DEF PromisesHeld
    <3> QED BY <2>1, <3>1, HoldsWhileWriting
  <2> QED BY <2>1, <2>3 DEF PromisesHeld, Holds, Affects
<1>6. ASSUME NEW k \in MqttKeys, EraseKey(k)
      PROVE  PromisesHeld'
  <2>1. /\ cmd = "mqtt_clear" /\ UNCHANGED <<cmd, promised, due>>
        /\ nvs' = [nvs EXCEPT ![k] = Absent]
    BY <1>6 DEF EraseKey, consoleVars, history
  <2>2. ASSUME NEW g \in Groups, promised'[g] # Absent
        PROVE  Holds(g, promised[g])'
    <3>1. Holds(g, promised[g]) /\ g \notin MqttGroups
      BY <2>1, <2>2, AffectsWhat DEF PromisesHeld
    <3>2. k \in Keys \ GroupKeys(g)
      BY <3>1 DEF Groups, MqttGroups, GroupKeys, Keys, MqttKeys
    <3> QED BY <2>1, <3>1, <3>2, HoldsElsewhere
  <2> QED BY <2>1, <2>2 DEF PromisesHeld, Holds, Affects
<1>7. CASE Acknowledge
  <2>1. /\ Done /\ UNCHANGED <<nvs, due>> /\ promised' = Promise(cmd, arg) /\ cmd' = "none"
        /\ cmd # "none"
    BY <1>7 DEF Acknowledge, Return, Done
  <2> SUFFICES ASSUME NEW g \in Groups
               PROVE  /\ promised'[g] # Absent => Holds(g, promised[g])'
                      /\ due'[g] # Absent => due'[g] = promised'[g]
    BY <2>1 DEF PromisesHeld
  <2>2. CASE g \in Affects(cmd)
    <3>1. promised[g] = Absent /\ due[g] = Absent
      BY <2>1, <2>2 DEF PromisesHeld
    <3> QED BY <2>1, <2>2, <3>1, AcknowledgedHolds DEF Holds
  <2>3. CASE g \notin Affects(cmd)
    <3>1. promised'[g] = promised[g]
      BY <2>1, <2>3 DEF Promise
    <3> QED BY <2>1, <3>1 DEF PromisesHeld, Holds
  <2> QED BY <2>2, <2>3
<1>8. ASSUME NEW f \in Firmwares, Reboot(f)
      PROVE  PromisesHeld'
  <2>1. cmd' = "none" /\ due' = promised /\ UNCHANGED <<nvs, promised>>
    BY <1>8 DEF Reboot
  <2> QED BY <2>1 DEF PromisesHeld, Holds
<1> QED BY <1>1, <1>2, <1>3, <1>4, <1>5, <1>6, <1>7, <1>8
        DEF Next, vars, consoleVars, history, Boot, OpenStores, ReadSsid, ReadPassword,
            LoadMqttUnsaved, Console, TakeMutex, WriteFails, Return, EraseFails

----------------------------------------------------------------------------
(* The boot.                                                               *)

\* What hasCredentials has read so far is what was due.
LEMMA CredentialsRead ==
    ASSUME Types, PromisesHeld, BootReads, ReadSsid \/ ReadPassword
    PROVE  BootReads'
<1> USE DEF Types
<1> DEFINE d == due["wifi"]
<1>1. UNCHANGED due /\ "wifi" \in Groups /\ {"ssid", "password"} \subseteq Keys
  BY DEF ReadSsid, ReadPassword, history, Groups, Keys
<1>2. d \in Entries \cup {Absent, Empty}
  BY <1>1 DEF HistoryTypes, Texts
<1>3. d # Absent => nvs["ssid"] = d /\ nvs["password"] = d
  BY <1>1 DEF PromisesHeld, Holds
<1>4. CASE d = Absent
  <2>1. pc' \in {"password", "mqtt", "failed"}
    BY DEF ReadSsid, ReadPassword
  <2> QED BY <1>1, <1>4, <2>1, Markers DEF BootReads, AppliedAtBoot, Promises, Cleared
<1>5. CASE ReadSsid /\ d # Absent
  <2>1. pc = "ssid" /\ m_wifi_cfg = NoWifi
    BY <1>5 DEF ReadSsid, BootReads
  <2>2. CASE d \in Unfit["ssid"]
    <3>1. pc' = "mqtt" /\ d # Empty
      BY <1>1, <1>3, <1>5, <2>2, Markers DEF ReadSsid, Readable
    <3> QED BY <1>1, <2>2, <3>1 DEF BootReads, AppliedAtBoot, Promises, Cleared
  <2>3. CASE d \notin Unfit["ssid"]
    <3>1. pc' = "password" /\ m_wifi_cfg' = [ssid |-> d, password |-> Empty]
      BY <1>3, <1>5, <2>1, <2>3 DEF ReadSsid, Readable, NoWifi
    <3> QED BY <1>1, <2>3, <3>1 DEF BootReads, AppliedAtBoot
  <2> QED BY <2>2, <2>3
<1>6. CASE ReadPassword /\ d # Absent
  <2>1. d \notin Unfit["ssid"] /\ m_wifi_cfg = [ssid |-> d, password |-> Empty]
    BY <1>6 DEF ReadPassword, BootReads
  <2>2. CASE d \in Unfit["password"]
    <3>1. pc' = "mqtt" /\ m_wifi_cfg' = m_wifi_cfg /\ d # Empty
      BY <1>1, <1>3, <1>6, <2>2, Markers DEF ReadPassword, Readable
    <3> QED BY <1>1, <2>1, <2>2, <3>1 DEF BootReads, AppliedAtBoot, Promises, Cleared
  <2>3. CASE d \notin Unfit["password"]
    <3>1. pc' \in {"mqtt", "failed"} /\ m_wifi_cfg' = [ssid |-> d, password |-> d]
      BY <1>3, <1>6, <2>1, <2>3 DEF ReadPassword, Readable
    <3> QED BY <1>1, <3>1 DEF BootReads, AppliedAtBoot, Promises, Cleared
  <2> QED BY <2>2, <2>3
<1> QED BY <1>4, <1>5, <1>6

\* A text that was stored whole is read if it fits.
LEMMA TextRead ==
    ASSUME NEW k \in Keys, NEW d, nvs[k] = d, d \in Entries \ Unfit[k]
    PROVE  Text(k) = d
BY Markers DEF Text, Readable

\* What was due of the MQTT configuration is what hasConfig loads.
LEMMA ConfigurationLoaded ==
    ASSUME Types, PromisesHeld
    PROVE  /\ Promises("broker", "host", Loaded.host)
           /\ due["broker"] \in Entries => Loaded.port = StoredPort(EnteredPort[due["broker"]])
           /\ Promises("auth", "user", Loaded.username)
           /\ Promises("auth", "pass", Loaded.password)
           /\ Promises("ota", "ota_url", Loaded.ota_url)
           /\ Promises("device", "devid", Loaded.device_id)
           /\ Cleared("broker", Loaded.host) /\ Cleared("auth", Loaded.username)
           /\ Cleared("auth", Loaded.password) /\ Cleared("ota", Loaded.ota_url)
<1> USE DEF Types
<1>1. ASSUME NEW g \in Groups, due[g] # Absent
      PROVE  Holds(g, due[g])
  BY <1>1 DEF PromisesHeld
<1>2. /\ {"broker", "auth", "ota", "device"} \subseteq Groups
      /\ {"host", "user", "pass", "ota_url", "devid"} \subseteq Keys
  BY DEF Groups, MqttGroups, Keys, MqttKeys
<1>3. /\ Loaded.host = Text("host") /\ Loaded.username = Text("user")
      /\ Loaded.password = Text("pass") /\ Loaded.ota_url = Text("ota_url")
  BY DEF Loaded
<1>4. ASSUME due["broker"] \in Entries
      PROVE  /\ Promises("broker", "host", Loaded.host)
             /\ Loaded.port = StoredPort(EnteredPort[due["broker"]])
  <2> DEFINE d == due["broker"]
  <2>1. nvs["host"] = d /\ nvs["port"] = StoredPort(EnteredPort[d])
    BY <1>1, <1>2, <1>4, Markers DEF Holds
  <2>2. Loaded.port = StoredPort(EnteredPort[d])
    BY <1>4, <2>1, LoadedTypes, ValueTypes, Markers
  <2>3. d \notin Unfit["host"] => Text("host") = d
    BY <1>2, <1>4, <2>1, TextRead
  <2> QED BY <1>3, <2>2, <2>3 DEF Promises
<1>5. Promises("broker", "host", Loaded.host)
  BY <1>4 DEF Promises
<1>6. due["auth"] \in Entries => nvs["user"] = due["auth"] /\ nvs["pass"] = due["auth"]
  BY <1>1, <1>2, Markers DEF Holds
<1>7. Promises("auth", "user", Loaded.username) /\ Promises("auth", "pass", Loaded.password)
  BY <1>2, <1>3, <1>6, TextRead DEF Promises
<1>8. due["ota"] \in Entries => nvs["ota_url"] = due["ota"]
  BY <1>1, <1>2, Markers DEF Holds
<1>9. Promises("ota", "ota_url", Loaded.ota_url)
  BY <1>2, <1>3, <1>8, TextRead DEF Promises
<1>10. due["device"] \in Entries => nvs["devid"] = due["device"]
  BY <1>1, <1>2, Markers DEF Holds
<1>11. Promises("device", "devid", Loaded.device_id)
  BY <1>10, LoadedTypes, Markers DEF Promises
<1>12. \A k \in Keys : nvs[k] = Absent => Text(k) = Empty
  BY DEF Text, Readable
<1>13. /\ due["broker"] = Empty => nvs["host"] = Absent
       /\ due["auth"] = Empty => nvs["user"] = Absent /\ nvs["pass"] = Absent
       /\ due["ota"] = Empty => nvs["ota_url"] = Absent
  BY <1>1, <1>2, Markers DEF Holds
<1>14. /\ Cleared("broker", Loaded.host) /\ Cleared("auth", Loaded.username)
       /\ Cleared("auth", Loaded.password) /\ Cleared("ota", Loaded.ota_url)
  BY <1>2, <1>3, <1>12, <1>13 DEF Cleared
<1> QED BY <1>4, <1>5, <1>7, <1>9, <1>11, <1>14

\* What hasConfig loads is what was due.
LEMMA ConfigurationRead ==
    ASSUME Types, PromisesHeld, BootReads, pc = "mqtt", pc' = "run", m_mqtt_cfg' = Loaded,
           UNCHANGED <<m_wifi_cfg, due>>
    PROVE  BootReads'
BY ConfigurationLoaded DEF BootReads, AppliedAtBoot, Promises, Cleared

\* What the services have loaded is what was due, and stays so until the reset.
LEMMA BootKept ==
    ASSUME Types, ConsoleInv, PromisesHeld, BootReads, [Next]_vars
    PROVE  BootReads'
<1> USE DEF Types
<1>1. CASE UNCHANGED <<bootVars, due>>
  BY <1>1 DEF BootReads, AppliedAtBoot, bootVars, Promises, Cleared
<1>2. CASE OpenStores \/ EraseAndOpenStores
  <2>1. pc' = "ssid" /\ m_wifi_cfg' = NoWifi
    BY <1>2 DEF OpenStores, EraseAndOpenStores, BootReads
  <2> QED BY <2>1 DEF BootReads, AppliedAtBoot
<1>3. CASE LoadMqtt \/ LoadMqttUnsaved
  BY <1>3, ConfigurationRead DEF LoadMqtt, LoadMqttUnsaved
<1>4. ASSUME NEW c, NEW e, Type(c, e)
      PROVE  BootReads'
  <2>1. /\ \A g \in Groups : due'[g] = due[g] \/ due'[g] = Absent
        /\ UNCHANGED bootVars
    BY <1>4 DEF Type
  <2> QED BY <2>1, Markers DEF BootReads, AppliedAtBoot, bootVars, Groups, MqttGroups,
             Promises, Cleared
<1>5. ASSUME NEW f \in Firmwares, Reboot(f)
      PROVE  BootReads'
  BY <1>5 DEF Reboot, BootReads, AppliedAtBoot
<1> QED BY <1>1, <1>2, <1>3, <1>4, <1>5, CredentialsRead
        DEF Next, vars, history, Boot, Console, TakeMutex, WriteKey, WriteFails, CommitFails,
            Return, EraseKey, EraseFails, Acknowledge, Status

----------------------------------------------------------------------------
(* The pairs.                                                              *)

\* Who leaves a pair alone leaves it as whole as it was.
LEMMA PairsUntouched ==
    ASSUME UNCHANGED <<nvs["host"], nvs["port"], nvs["user"], nvs["pass"]>>
    PROVE  (BrokerWhole => BrokerWhole') /\ (AuthWhole => AuthWhole')
BY DEF BrokerWhole, AuthWhole

\* A command that writes no pair, or not yet, is not between two keys.
LEMMA NotBetween ==
    /\ \A a, b : <<a, b>> # <<b>> /\ <<a, b>> # <<>> /\ <<a>> # <<>>
    /\ Len(<<"port">>) = 1 /\ Len(<<"pass">>) = 1
OBVIOUS

\* A key is written: the first of a pair by a command that goes on with the
\* second, the second to what the first is already.
LEMMA PairsWhileWriting ==
    ASSUME Types, ConsoleInv, Progress, Pairs, MayWrite, left # <<>>, nvs' = Written
    PROVE  /\ \/ "broker" \in mixed /\ cmd # "mqtt_set"
              \/ BrokerWhole'
              \/ cmd = "mqtt_set" /\ left = <<"host", "port">> /\ Tail(left) = <<"port">>
           /\ \/ "auth" \in mixed /\ cmd # "mqtt_auth"
              \/ AuthWhole'
              \/ cmd = "mqtt_auth" /\ left = <<"user", "pass">> /\ Tail(left) = <<"pass">>
<1> USE DEF Types
<1>1. arg \in Entries
  BY DEF ConsoleInv, MayWrite, WifiCommands, MqttCommands
<1>2. ~Clearing
  BY NextWrite DEF Clearing, WritesNext
<1>3. CASE cmd = "mqtt_set"
  <2>1. UNCHANGED <<nvs["user"], nvs["pass"]>>
    BY <1>3, NextWrite, KeyWritten DEF WritesNext, Keys, MqttKeys
  <2>2. "auth" \in mixed \/ AuthWhole'
    BY <1>2, <1>3, <2>1 DEF Pairs, AuthWhole
  <2>3. CASE WritesNext({"mqtt_set"}, <<"port">>, "port", <<>>, 1)
    <3>1. left = <<"port">> /\ nvs' = [nvs EXCEPT !["port"] = StoredPort(EnteredPort[arg])]
      BY <1>3, <2>3 DEF WritesNext, Value
    <3>2. nvs["host"] = arg
      BY <1>3, <3>1, NotBetween DEF Progress
    <3>3. nvs'["host"] = arg /\ nvs'["port"] = StoredPort(EnteredPort[arg])
      BY <3>1, <3>2, KeyWritten DEF Keys, MqttKeys
    <3> QED BY <1>3, <2>2, <3>3 DEF BrokerWhole
  <2>4. CASE WritesNext({"mqtt_set"}, <<"host", "port">>, "host", <<"port">>, 2)
    BY <1>3, <2>2, <2>4 DEF WritesNext
  <2> QED BY <1>3, <2>3, <2>4, NextWrite DEF WritesNext
<1>4. CASE cmd = "mqtt_auth"
  <2>1. UNCHANGED <<nvs["host"], nvs["port"]>>
    BY <1>4, NextWrite, KeyWritten DEF WritesNext, Keys, MqttKeys
  <2>2. "broker" \in mixed \/ BrokerWhole'
    BY <1>2, <1>4, <2>1 DEF Pairs, BrokerWhole
  <2>3. CASE WritesNext({"mqtt_auth"}, <<"pass">>, "pass", <<>>, 1)
    <3>1. left = <<"pass">> /\ nvs' = [nvs EXCEPT !["pass"] = arg]
      BY <1>4, <2>3 DEF WritesNext, Value
    <3>2. nvs["user"] = arg
      BY <1>4, <3>1, NotBetween DEF Progress
    <3>3. nvs'["user"] = arg /\ nvs'["pass"] = arg
      BY <3>1, <3>2, KeyWritten DEF Keys, MqttKeys
    <3> QED BY <1>4, <2>2, <3>3 DEF AuthWhole
  <2>4. CASE WritesNext({"mqtt_auth"}, <<"user", "pass">>, "user", <<"pass">>, 2)
    BY <1>4, <2>2, <2>4 DEF WritesNext
  <2> QED BY <1>4, <2>3, <2>4, NextWrite DEF WritesNext
<1>5. CASE cmd \notin {"mqtt_set", "mqtt_auth"}
  <2>1. UNCHANGED <<nvs["host"], nvs["port"], nvs["user"], nvs["pass"]>>
    BY <1>5, NextWrite, KeyWritten DEF WritesNext, Keys, MqttKeys
  <2> QED BY <1>2, <1>5, <2>1, PairsUntouched DEF Pairs
<1> QED BY <1>3, <1>4, <1>5

\* A pair differs from its halves only while its command is between the two,
\* and the mutex keeps the readers out.
LEMMA PairsKept ==
    ASSUME Types, ConsoleInv, Progress, Pairs, [Next]_vars
    PROVE  Pairs'
<1> USE DEF Types
<1>1. CASE UNCHANGED <<nvs, cmd, left, mutex, mixed>>
  BY <1>1 DEF Pairs, BrokerWhole, AuthWhole, Clearing
<1>2. CASE EraseAndOpenStores
  BY <1>2 DEF EraseAndOpenStores, Pairs, BrokerWhole, AuthWhole, Keys, MqttKeys
<1>3. CASE LoadMqtt \/ Status
  <2>1. /\ UNCHANGED <<cmd, left, mutex, mixed>>
        /\ UNCHANGED <<nvs["host"], nvs["port"], nvs["user"], nvs["pass"]>>
    BY <1>3, KeyWritten DEF LoadMqtt, Status, PersistId, consoleVars, history, Keys, MqttKeys
  <2> QED BY <2>1, PairsUntouched DEF Pairs, Clearing
<1>4. ASSUME NEW c \in WifiCommands \cup MqttCommands, NEW e \in Entries, Type(c, e)
      PROVE  Pairs'
  BY <1>4 DEF Type, Pairs, BrokerWhole, AuthWhole, Clearing
<1>5. CASE TakeMutex
  BY <1>5 DEF TakeMutex, Pairs, BrokerWhole, AuthWhole, Clearing
<1>6. CASE WriteKey
  <2>1. /\ MayWrite /\ left # <<>> /\ nvs' = Written /\ left' = Tail(left)
        /\ UNCHANGED <<cmd, mixed>>
    BY <1>6 DEF WriteKey, history
  <2> QED BY <2>1, PairsWhileWriting DEF Pairs
<1>7. CASE CommitFails
  <2>1. /\ MayWrite /\ left # <<>> /\ nvs' = Written /\ mixed' = mixed \ Affects(cmd)
        /\ cmd \in WifiCommands \/ Len(left) = 1
    BY <1>7 DEF CommitFails
  <2>2. Len(<<"host", "port">>) # 1 /\ Len(<<"user", "pass">>) # 1
    OBVIOUS
  <2>3. /\ ("broker" \in mixed /\ cmd # "mqtt_set") \/ BrokerWhole'
        /\ ("auth" \in mixed /\ cmd # "mqtt_auth") \/ AuthWhole'
    BY <2>1, <2>2, PairsWhileWriting DEF WifiCommands
  <2>4. cmd \notin {"none", "mqtt_clear"}
    BY <2>1, NextWrite DEF WritesNext
  <2>5. /\ cmd # "mqtt_set" => "broker" \notin Affects(cmd)
        /\ cmd # "mqtt_auth" => "auth" \notin Affects(cmd)
    BY <2>4, AffectsWhat DEF ConsoleInv, WifiCommands, MqttCommands
  <2> QED BY <2>1, <2>3, <2>5 DEF Pairs
<1>8. ASSUME NEW k \in MqttKeys, EraseKey(k)
      PROVE  Pairs'
  BY <1>8 DEF EraseKey, consoleVars, Pairs, Clearing
<1>9. CASE UNCHANGED nvs /\ mixed' = mixed \cup CutOff
  BY <1>9, AffectsWhat, NotBetween
     DEF Pairs, BrokerWhole, AuthWhole, Clearing, CutOff, MqttGroups
<1>10. CASE Acknowledge
  <2>1. /\ left = <<>> /\ cmd # "none" /\ MayWrite /\ UNCHANGED nvs
        /\ mixed' = mixed \ Affects(cmd)
        /\ cmd = "mqtt_clear" => \A k \in MqttKeys : nvs[k] = Absent
    BY <1>10 DEF Acknowledge, Done
  <2>2. CASE cmd = "mqtt_clear"
    BY <2>1, <2>2 DEF Pairs, BrokerWhole, AuthWhole, MqttKeys
  <2>3. CASE cmd # "mqtt_clear"
    <3>1. /\ cmd = "mqtt_set" => BrokerWhole
          /\ cmd = "mqtt_auth" => AuthWhole
      BY <2>1, NotBetween DEF Progress, BrokerWhole, AuthWhole
    <3>2. /\ cmd # "mqtt_set" => "broker" \notin Affects(cmd)
          /\ cmd # "mqtt_auth" => "auth" \notin Affects(cmd)
      BY <2>1, <2>3, AffectsWhat DEF ConsoleInv, WifiCommands, MqttCommands
    <3>3. /\ "broker" \in mixed \/ BrokerWhole
          /\ "auth" \in mixed \/ AuthWhole
      BY <2>1, <2>3, NotBetween DEF Pairs, Clearing
    <3> QED BY <2>1, <3>1, <3>2, <3>3 DEF Pairs, BrokerWhole, AuthWhole
  <2> QED BY <2>2, <2>3
<1> QED BY <1>1, <1>2, <1>3, <1>4, <1>5, <1>6, <1>7, <1>8, <1>9, <1>10
        DEF Next, vars, consoleVars, history, Boot, OpenStores, ReadSsid, ReadPassword,
            LoadMqttUnsaved, Console, WriteFails, EraseFails, Reboot

----------------------------------------------------------------------------
(* The identity.                                                           *)

\* Who changes the stored id has given up the one in use.
LEMMA IdentityKept ==
    ASSUME Types, ConsoleInv, Identity, [Next]_vars
    PROVE  Identity'
<1> USE DEF Types
<1>1. CASE UNCHANGED <<nvs, cmd, mutex, identity>>
  BY <1>1 DEF Identity
<1>2. CASE EraseAndOpenStores \/ LoadMqttUnsaved
  BY <1>2 DEF EraseAndOpenStores, LoadMqttUnsaved, Identity
<1>3. CASE LoadMqtt
  <2>1. nvs'["devid"] = Loaded.device_id /\ identity' = Loaded.device_id /\ mutex' = "none"
    BY <1>3, KeyWritten DEF LoadMqtt, PersistId, consoleVars, Keys, MqttKeys
  <2> QED BY <2>1 DEF Identity
<1>4. CASE Status
  <2>1. nvs'["devid"] = Loaded.device_id /\ UNCHANGED identity /\ mutex' = "none"
    BY <1>4, KeyWritten DEF Status, PersistId, consoleVars, history, Keys, MqttKeys
  <2> QED BY <2>1, LoadedTypes DEF Identity
<1>5. ASSUME NEW c, NEW e, Type(c, e)
      PROVE  Identity'
  <2>1. mutex' = "none" /\ UNCHANGED <<nvs, identity>>
    BY <1>5 DEF Type, ConsoleInv, MqttCommands
  <2> QED BY <2>1 DEF Identity
<1>6. CASE TakeMutex
  <2>1. cmd \in {"mqtt_device", "mqtt_clear"} => "device" \in Affects(cmd)
    BY AffectsWhat DEF MqttGroups
  <2> QED BY <1>6, <2>1 DEF TakeMutex, Identity
<1>7. CASE WriteKey \/ CommitFails
  <2>1. /\ MayWrite /\ left # <<>> /\ nvs' = Written /\ UNCHANGED identity
        /\ UNCHANGED <<cmd, mutex>> \/ mutex' = "none"
    BY <1>7 DEF WriteKey, CommitFails, Return, history
  <2>2. CASE cmd = "mqtt_device"
    <3>1. mutex = "console"
      BY <2>1, <2>2 DEF MayWrite, WifiCommands
    <3> QED BY <2>1, <2>2, <3>1 DEF Identity
  <2>3. CASE cmd # "mqtt_device"
    <3>1. UNCHANGED nvs["devid"]
      BY <2>1, <2>3, NextWrite, KeyWritten DEF WritesNext, Keys, MqttKeys
    <3> QED BY <2>1, <3>1 DEF Identity
  <2> QED BY <2>2, <2>3
<1>8. ASSUME NEW k \in MqttKeys, EraseKey(k)
      PROVE  Identity'
  BY <1>8 DEF EraseKey, consoleVars, history, Identity
<1>9. CASE UNCHANGED <<nvs, identity>> /\ mutex' = "none"
  BY <1>9 DEF Identity
<1> QED BY <1>1, <1>2, <1>3, <1>4, <1>5, <1>6, <1>7, <1>8, <1>9
        DEF Next, vars, consoleVars, history, Boot, OpenStores, ReadSsid, ReadPassword,
            Console, WriteFails, Return, EraseFails, Acknowledge, Reboot

----------------------------------------------------------------------------
(* The theorems.                                                           *)

\* An empty flash, a node that is off.
LEMMA StartsWell == Init => StoreInv
<1> SUFFICES ASSUME Init PROVE StoreInv
  OBVIOUS
<1>1. DefaultPort \in Ports
  BY SMT DEF DefaultPort, Ports, MaxPort
<1>2. Types
  BY <1>1 DEF Init, Types, FlashTypes, BootTypes, HistoryTypes, Texts, NoWifi, NoMqtt,
              Nothing, Keys, MqttKeys
<1>3. ConsoleInv /\ Progress
  BY DEF Init, ConsoleInv, Progress, Remaining, MqttCommands
<1>4. PromisesHeld /\ BootReads
  BY DEF Init, PromisesHeld, Nothing, BootReads, AppliedAtBoot
<1>5. Pairs /\ Identity
  BY DEF Init, Pairs, BrokerWhole, AuthWhole, Identity, Keys, MqttKeys
<1> QED BY <1>2, <1>3, <1>4, <1>5 DEF StoreInv

\* The invariant the other theorems are drawn from: the console is within a
\* command, what it has written is in flash, and so are the promises.
LEMMA StoreInvariant == Spec => []StoreInv
<1>1. StoreInv /\ [Next]_vars => StoreInv'
  BY FlashKept, BootTypesKept, HistoryTypesKept, ConsoleKept, ProgressKept, PromisesKept,
     BootKept, PairsKept, IdentityKept
     DEF StoreInv, Types
<1> QED BY <1>1, StartsWell, PTL DEF Spec

\* TypeOK: whatever is typed, whatever fails and whenever the node resets, the flash
\* holds what its readers expect: a port is a port, an id is never empty.
THEOREM StoresTypeCorrect == Spec => []TypeOK
<1>1. StoreInv => TypeOK
  <2> SUFFICES ASSUME StoreInv PROVE TypeOK
    OBVIOUS
  <2> USE DEF StoreInv, Types
  <2>1. /\ \A k \in Keys \ {"port"} : nvs[k] \in Entries \cup Firmwares \cup {Absent, Empty}
        /\ nvs["port"] \in Ports \cup {Absent}
    BY DEF FlashTypes, Texts, Keys, MqttKeys
  <2>2. left \in Seq(Keys) /\ Len(left) <= 2
    <3>1. \A a, b \in Keys : /\ <<a, b>> \in Seq(Keys) /\ Len(<<a, b>>) <= 2
                            /\ <<a>> \in Seq(Keys) /\ Len(<<a>>) <= 2
      OBVIOUS
    <3>2. <<>> \in Seq(Keys) /\ Len(<<>>) <= 2
      OBVIOUS
    <3>3. \/ left = <<>>
          \/ \E a, b \in Keys : left = <<a, b>> \/ left = <<a>>
      BY DEF ConsoleInv, Remaining, WifiCommands, MqttCommands, Keys, MqttKeys
    <3> QED BY <3>1, <3>2, <3>3
  <2>3. /\ cmd \in WifiCommands \cup MqttCommands \cup {"none"}
        /\ arg \in Entries \cup {Absent} /\ mutex \in {"none", "console"}
    BY DEF ConsoleInv
  <2> QED BY <2>1, <2>2, <2>3 DEF TypeOK, BootTypes, HistoryTypes, Texts
<1> QED BY <1>1, StoreInvariant, PTL

\* AppliedAtBoot: what a command acknowledged is what the next boot reads, as far as it fits
\* the buffer it is read to, for any number of resets, failures and commands on other groups
\* in between.  Nothing follows for a text that is too long: it is acknowledged as well.
THEOREM AcknowledgedIsApplied == Spec => []AppliedAtBoot
<1>1. StoreInv => AppliedAtBoot
  BY DEF StoreInv, BootReads
<1> QED BY <1>1, StoreInvariant, PTL

\* PairsReadWhole: hasConfig finds the mutex free, so no command is between the two keys of a
\* pair: it reads the pair of one command, each half as far as it fits its buffer, unless
\* one was cut off.
THEOREM PairsAreReadWhole == Spec => PairsReadWhole
<1> DEFINE Whole ==
      /\ "broker" \notin mixed /\ m_mqtt_cfg'.host # Empty =>
            m_mqtt_cfg'.port = StoredPort(EnteredPort[m_mqtt_cfg'.host])
      /\ "auth" \notin mixed =>
            \E e \in Entries \cup {Empty} :
                /\ m_mqtt_cfg'.username = ReadAs(e, "user")
                /\ m_mqtt_cfg'.password = ReadAs(e, "pass")
<1>1. StoreInv /\ [Next]_vars => [pc = "mqtt" /\ pc' = "run" => Whole]_vars
  <2> SUFFICES ASSUME StoreInv, [Next]_vars, pc = "mqtt", pc' = "run"
               PROVE  Whole
    OBVIOUS
  <2> USE DEF StoreInv, Types
  <2>1. mutex = "none" /\ m_mqtt_cfg' = Loaded
    BY DEF Next, vars, bootVars, Boot, OpenStores, EraseAndOpenStores, ReadSsid, ReadPassword,
           LoadMqtt, LoadMqttUnsaved, Type, Console, TakeMutex, WriteKey, WriteFails,
           CommitFails, Return, EraseKey, EraseFails, Acknowledge, Status, Reboot
  <2>2. /\ ~(cmd = "mqtt_set" /\ left = <<"port">>)
        /\ ~(cmd = "mqtt_auth" /\ left = <<"pass">>)
    BY <2>1, NotBetween DEF ConsoleInv, MqttCommands, KeysOf
  <2>3. /\ "broker" \in mixed \/ BrokerWhole
        /\ "auth" \in mixed \/ AuthWhole
    BY <2>1, <2>2 DEF Pairs, Clearing
  <2>4. ASSUME "broker" \notin mixed, Loaded.host # Empty
        PROVE  Loaded.port = StoredPort(EnteredPort[Loaded.host])
    <3>1. Loaded.host = nvs["host"] /\ nvs["host"] \in Entries
      BY <2>4, LoadedTypes DEF FlashTypes, Texts, Readable
    <3>2. nvs["port"] = StoredPort(EnteredPort[nvs["host"]])
      BY <2>3, <2>4, <3>1, Markers DEF BrokerWhole
    <3>3. StoredPort(EnteredPort[nvs["host"]]) # Absent
      BY <3>1, ValueTypes, Markers
    <3> QED BY <3>1, <3>2, <3>3, LoadedTypes
  <2>5. ASSUME "auth" \notin mixed
        PROVE  \E e \in Entries \cup {Empty} :
                   Loaded.username = ReadAs(e, "user") /\ Loaded.password = ReadAs(e, "pass")
    <3>1. nvs["pass"] = nvs["user"] /\ nvs["user"] \in Entries \cup {Absent}
      BY <2>3, <2>5 DEF AuthWhole, FlashTypes, Texts
    <3>2. {"user", "pass"} \subseteq Keys
      BY DEF Keys, MqttKeys
    <3>3. CASE nvs["user"] = Absent
      <4>1. Loaded.username = Empty /\ Loaded.password = Empty
        BY <3>1, <3>3, LoadedTypes DEF Readable
      <4>2. ReadAs(Empty, "user") = Empty /\ ReadAs(Empty, "pass") = Empty
        BY DEF ReadAs
      <4> QED BY <4>1, <4>2
    <3>4. CASE nvs["user"] \in Entries
      <4>1. /\ Loaded.username = ReadAs(nvs["user"], "user")
            /\ Loaded.password = ReadAs(nvs["user"], "pass")
        BY <3>1, <3>4, LoadedTypes, Markers DEF Readable, ReadAs
      <4> QED BY <3>4, <4>1
    <3> QED BY <3>1, <3>3, <3>4
  <2> QED BY <2>1, <2>4, <2>5
<1> QED BY <1>1, StoreInvariant, PTL DEF Spec, PairsReadWhole

\* DeviceIdKept: the id in use is the stored one, and only who asked for another, an erased
\* store or a write that failed takes it away.
THEOREM DeviceIdIsKept == Spec => DeviceIdKept
<1>1. StoreInv /\ [Next]_vars
         => [identity # Absent /\ identity' # Absent => identity' = identity]_vars
  <2> SUFFICES ASSUME StoreInv, [Next]_vars, identity # Absent, identity' # Absent
               PROVE  identity' = identity
    OBVIOUS
  <2>1. CASE LoadMqtt
    BY <2>1, LoadedTypes DEF LoadMqtt, StoreInv, Types, Identity
  <2>2. CASE ~LoadMqtt
    BY <2>2 DEF Next, vars, history, Boot, OpenStores, EraseAndOpenStores, ReadSsid,
           ReadPassword, LoadMqttUnsaved, Type, Console, TakeMutex, WriteKey, WriteFails,
           CommitFails, EraseKey, EraseFails, Acknowledge, Status, Reboot
  <2> QED BY <2>1, <2>2
<1> QED BY <1>1, StoreInvariant, PTL DEF Spec, DeviceIdKept

=============================================================================
