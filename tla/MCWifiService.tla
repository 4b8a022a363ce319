--------------------------- MODULE MCWifiService ---------------------------
(***************************************************************************)
(* WifiService with the constants of the code: EVENT_QUEUE_SIZE and the    *)
(* ten attempts of taskLoop.                                               *)
(***************************************************************************)
EXTENDS WifiService

MCEventQueueSize == 5
MCMaxAttempts == 10
=============================================================================
