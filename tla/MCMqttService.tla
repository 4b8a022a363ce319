--------------------------- MODULE MCMqttService ---------------------------
(***************************************************************************)
(* MqttService with the backoff constants of the code, and the watchdog    *)
(* that supervises its task.                                               *)
(***************************************************************************)
EXTENDS MqttService

MCInitialBackoff == 2000
MCMaxBackoff == 60000

\* CONFIG_ESP_TASK_WDT_TIMEOUT_S of sdkconfig.defaults, in ms.
WatchdogTimeout == 30000

\* "Bounded waits so we keep feeding the watchdog": the task, subscribed by
\* esp_task_wdt_add, feeds it before ulTaskNotifyTake and not again until the
\* backoff delay is over.
WatchdogFed == wait_ms < WatchdogTimeout
=============================================================================
