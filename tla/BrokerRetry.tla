---------------------------- MODULE BrokerRetry ----------------------------
(***************************************************************************)
(* What the MQTT service promises of the broker connection, without its    *)
(* tasks, its notifications and its backoff: a connection that was lost is *)
(* retried, once, unless the start of the service raced.  MqttService      *)
(* implements it.                                                          *)
(***************************************************************************)

VARIABLES client,  \* the connection, as esp-mqtt knows it
          due,     \* it was lost, and will be retried
          raced    \* the task was started in its first loop, past its notification

retryVars == <<client, due, raced>>

Init == client = "none" /\ due = FALSE /\ raced = FALSE

Create == client = "none" /\ client' = "idle" /\ UNCHANGED <<due, raced>>

Race == client = "idle" /\ raced' = TRUE /\ UNCHANGED <<client, due>>

\* ... which may fail for good.
Begin ==
    /\ client = "idle" /\ client' \in {"connecting", "dead"}
    /\ UNCHANGED <<due, raced>>

Connect == client = "connecting" /\ client' = "connected" /\ UNCHANGED <<due, raced>>

Lose ==
    /\ client \in {"connecting", "connected"} /\ client' = "parked"
    /\ due' = TRUE
    /\ UNCHANGED raced

Retry ==
    /\ client = "parked" /\ due
    /\ client' = "connecting" /\ due' = FALSE
    /\ UNCHANGED raced

\* Two notifications merge into one that is not understood.
Forget ==
    /\ client = "parked" /\ due /\ raced
    /\ due' = FALSE
    /\ UNCHANGED <<client, raced>>

PowerLoss == client' = "none" /\ due' = FALSE /\ raced' = FALSE

Next == \/ Create \/ Race \/ Begin \/ Connect \/ Lose \/ Retry \/ Forget
        \/ PowerLoss

Spec == Init /\ [][Next]_retryVars /\ WF_retryVars(Retry)
=============================================================================
