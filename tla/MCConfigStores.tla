--------------------------- MODULE MCConfigStores ---------------------------
(***************************************************************************)
(* ConfigStores with three entries and two images.  The first entry fits   *)
(* its buffers, the passwords of the second do not, and nothing of the     *)
(* third does, whose port does not fit 16 bits either.  An operator works  *)
(* on some of the groups: those of WiFi and MQTT share nothing but the     *)
(* boot, those of MQTT the mutex and mqtt_clear.                           *)
(***************************************************************************)
EXTENDS ConfigStores, TLC

CONSTANTS entryA, entryB, entryC

MCUnfit == [k \in Keys |-> CASE k \in {"password", "pass"}            -> {entryB}
                             [] k \in {"ssid", "host", "user", "ota_url"} -> {entryC}
                             [] OTHER                                -> {}]
MCEnteredPort == entryA :> 0 @@ entryB :> 1883 @@ entryC :> 65536 + 8883
MCOperators == {WifiCommands,
                {"mqtt_set", "mqtt_clear", "mqtt_status"},
                {"mqtt_device", "mqtt_clear", "mqtt_status"},
                {"mqtt_auth", "mqtt_clear"},
                {"mqtt_ota_url", "mqtt_clear"}}
=============================================================================
