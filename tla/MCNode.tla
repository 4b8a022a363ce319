------------------------------- MODULE MCNode -------------------------------
(***************************************************************************)
(* Node with two association attempts and a single backoff value: the      *)
(* interleavings of the two services do not depend on how long a delay is. *)
(***************************************************************************)
EXTENDS Node

MCEventQueueSize == 5
MCMaxAttempts == 2
MCInitialBackoff == 1
MCMaxBackoff == 1
=============================================================================
