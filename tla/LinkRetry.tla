----------------------------- MODULE LinkRetry -----------------------------
(***************************************************************************)
(* What the WiFi service promises of the link, without its queue, its task *)
(* and its flags: a link that is down is tried again, at most MaxAttempts  *)
(* times between two addresses, and every address renews the attempts.     *)
(* WifiService implements it.                                              *)
(***************************************************************************)
EXTENDS Naturals

CONSTANT MaxAttempts

VARIABLES link,      \* the station
          attempts,  \* tried since the last address that was heard of
          news,      \* an address was obtained and not heard of yet
          deaf       \* addresses are not heard of at all

retryVars == <<link, attempts, news, deaf>>

Init == link = "off" /\ attempts = 0 /\ news = FALSE /\ deaf = FALSE

Deafen == link = "off" /\ deaf' = TRUE /\ UNCHANGED <<link, attempts, news>>

TurnOn == link = "off" /\ link' = "idle" /\ UNCHANGED <<attempts, news, deaf>>

\* One try fewer, even if the link was up or on its way already.
Try ==
    /\ attempts < MaxAttempts /\ attempts' = attempts + 1
    /\ link' = IF link = "idle" THEN "connecting" ELSE link
    /\ UNCHANGED <<news, deaf>>

Obtain ==
    /\ link \in {"connecting", "up"}
    /\ link' = "up" /\ news' = ~deaf
    /\ UNCHANGED <<attempts, deaf>>

Lose ==
    /\ link \in {"connecting", "up"} /\ link' = "idle"
    /\ UNCHANGED <<attempts, news, deaf>>

\* Addresses are heard of one by one; another may wait.
Renew ==
    /\ news /\ news' \in BOOLEAN
    /\ attempts' = 0
    /\ UNCHANGED <<link, deaf>>

Next == Deafen \/ TurnOn \/ Try \/ Obtain \/ Lose \/ Renew

\* Tries and addresses that are due are not put off for ever.
Retry == link = "idle" /\ Try

Spec == Init /\ [][Next]_retryVars /\ WF_retryVars(Retry) /\ WF_retryVars(Renew)
=============================================================================
