---------------------------- MODULE MCUartDriver ----------------------------
(***************************************************************************)
(* UartDriver with room for three events and two pieces of data: enough    *)
(* for an event before and one after an announcement, and for a full queue *)
(* to drop one.                                                            *)
(***************************************************************************)
EXTENDS UartDriver

MCQueueSize == 3
MCRingSize == 2
=============================================================================
