---------------------------- MODULE NodeSession ----------------------------
(***************************************************************************)
(* What the application promises of the broker session, without its boot,  *)
(* its state machine, and the queue, flags and notifications between the   *)
(* tasks: an address that was obtained starts the session, sooner or       *)
(* later, even if it is lost again before that; nothing else does; and no  *)
(* session is made without a link.  Node implements it.                    *)
(***************************************************************************)

VARIABLES up,       \* the link has an address
          news,     \* an address was obtained and not acted on yet
          deaf,     \* addresses are not heard of at all
          started,  \* the session was started
          client    \* the session

sessionVars == <<up, news, deaf, started, client>>

Init == /\ up = FALSE /\ news = FALSE /\ deaf = FALSE
        /\ started = FALSE /\ client = "none"

\* The client is there before the first address, or it never will be.
Provision ==
    /\ client = "none" /\ ~news
    /\ client' = "idle"
    /\ UNCHANGED <<up, news, deaf, started>>

Deafen == ~up /\ deaf' = TRUE /\ UNCHANGED <<up, news, started, client>>

Obtain == up' = TRUE /\ news' = ~deaf /\ UNCHANGED <<deaf, started, client>>

Lose == up /\ up' = FALSE /\ UNCHANGED <<news, deaf, started, client>>

Start ==
    /\ news /\ client = "idle" /\ ~started
    /\ started' = TRUE
    /\ UNCHANGED <<up, news, deaf, client>>

\* Addresses are acted on one by one; another may wait.
Hear ==
    /\ news /\ (started \/ client = "none")
    /\ news' \in BOOLEAN
    /\ UNCHANGED <<up, deaf, started, client>>

\* ... which may fail for good.
Begin ==
    /\ client = "idle" /\ started
    /\ client' \in {"connecting", "dead"}
    /\ UNCHANGED <<up, news, deaf, started>>

Connect ==
    /\ client = "connecting" /\ up
    /\ client' = "connected"
    /\ UNCHANGED <<up, news, deaf, started>>

Break ==
    /\ client \in {"connecting", "connected"} /\ client' = "parked"
    /\ UNCHANGED <<up, news, deaf, started>>

Again ==
    /\ client = "parked" /\ client' = "connecting"
    /\ UNCHANGED <<up, news, deaf, started>>

Next == \/ Provision \/ Deafen \/ Obtain \/ Lose \/ Start \/ Hear
        \/ Begin \/ Connect \/ Break \/ Again

Spec == Init /\ [][Next]_sessionVars /\ WF_sessionVars(Start) /\ WF_sessionVars(Begin)
=============================================================================
