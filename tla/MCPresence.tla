----------------------------- MODULE MCPresence -----------------------------
(***************************************************************************)
(* Presence with the backoff constants of the code, and two packets under  *)
(* way, so that a refresh can follow a birth message the broker has not    *)
(* read.                                                                   *)
(***************************************************************************)
EXTENDS Presence

MCInitialBackoff == 2000
MCMaxBackoff == 60000
MCMaxUplink == 2
=============================================================================
