-------------------------- MODULE MCCommandSession --------------------------
(***************************************************************************)
(* CommandSession with two URLs, so that one update can meet a command for *)
(* another, an image of one read, so that a transfer can fail before it    *)
(* and after it, and a queue of two, so that a command can wait behind     *)
(* another.                                                                *)
(***************************************************************************)
EXTENDS CommandSession

MCImageSize == 1
MCMaxQueue == 2
=============================================================================
