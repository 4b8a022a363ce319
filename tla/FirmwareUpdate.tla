--------------------------- MODULE FirmwareUpdate ---------------------------
(***************************************************************************)
(* What the OTA service promises, without its tasks, its mutex and its     *)
(* transfer: one update at a time, written beside the running image, which *)
(* either is given up or boots.  OTAService implements it.                 *)
(***************************************************************************)
EXTENDS Naturals

CONSTANTS Urls, NoUrl

VARIABLES job,       \* the URL of the update under way, or NoUrl
          running,   \* the slot the node booted from
          bootSlot,  \* the slot of the next boot
          image      \* what each slot holds

updateVars == <<job, running, bootSlot, image>>

Slots == {0, 1}

Init ==
    /\ job = NoUrl /\ running \in Slots /\ bootSlot = running
    /\ image \in [Slots -> {"complete", "partial"}] /\ image[running] = "complete"

Accept ==
    /\ job = NoUrl /\ job' \in Urls
    /\ UNCHANGED <<running, bootSlot, image>>

\* While an update is under way and not yet installed, the slot that is not
\* running is being written ...
Underway == job # NoUrl /\ bootSlot = running

Write ==
    /\ Underway
    /\ image' = [image EXCEPT ![1 - running] = "partial"]
    /\ UNCHANGED <<job, running, bootSlot>>

\* ... until it holds a whole image, which boots next ...
Install ==
    /\ Underway
    /\ image' = [image EXCEPT ![1 - running] = "complete"]
    /\ bootSlot' = 1 - running
    /\ UNCHANGED <<job, running>>

\* ... or until it is given up.  An installed one cannot be.
GiveUp ==
    /\ Underway
    /\ job' = NoUrl
    /\ UNCHANGED <<running, bootSlot, image>>

\* The node restarts, at the end of an update or for any other reason.
Restart ==
    /\ job' = NoUrl /\ running' = bootSlot
    /\ UNCHANGED <<bootSlot, image>>

Next == Accept \/ Write \/ Install \/ GiveUp \/ Restart

\* No update goes on for ever.
Ends == GiveUp \/ (job # NoUrl /\ Restart)

Spec == Init /\ [][Next]_updateVars /\ WF_updateVars(Ends)
=============================================================================
