--------------------------- MODULE CommandSession ---------------------------
(***************************************************************************)
(* Commands on their way from the server to the node: the broker's queue   *)
(* for the node's persistent session, the data handler of MqttService.cpp, *)
(* Application::onMqttCommand, and the OTA service (OTAService) that an    *)
(* "ota" command calls from inside that handler.                           *)
(*                                                                         *)
(* The broker and esp-mqtt are external.  A QoS 1 command stays at the     *)
(* broker until its PUBACK arrives, and is delivered again after every     *)
(* reconnect; esp-mqtt calls the handler first and sends the PUBACK when   *)
(* it has returned.  The connection may break, and the node be reset,      *)
(* between any two steps.                                                  *)
(***************************************************************************)
EXTENDS OTAService, Sequences

CONSTANTS CommandUrls, \* URLs that commands carry; NoUrl: the command has none
          StoredUrls,  \* values of the stored ota_url; NoUrl: none is stored
          MaxQueue     \* bound: commands the server has under way at a time

ASSUME SessionConstants == /\ CommandUrls \subseteq Urls \cup {NoUrl}
                           /\ StoredUrls \subseteq Urls \cup {NoUrl}
                           /\ MaxQueue \in Nat \ {0}

VARIABLES
    queue,      \* the session's queue at the broker: commands not yet PUBACKed
    ota_url,    \* m_mqtt_cfg.ota_url, as loaded at the boot
    connected,  \* the connection that carries them
    handler,    \* where the esp-mqtt task is in onMqttCommand
    ok,         \* onMqttCommand's local
    handled     \* history: the head of the queue has been handled to its end

sessionVars == <<queue, ota_url, connected, handler, ok, handled>>
nodeVars == <<vars, sessionVars>>

\* What a command's body says.  "garbled": it is not JSON, or its "command" is
\* no string; "other": get_status, or a verb the node does not know.
Commands == [verb : {"reboot", "other", "garbled"}, url : {NoUrl}]
            \cup [verb : {"ota"}, url : CommandUrls]

SessionTypeOK ==
    /\ TypeOK
    /\ queue \in Seq(Commands) /\ Len(queue) <= MaxQueue
    /\ ota_url \in StoredUrls
    /\ connected \in BOOLEAN /\ ok \in BOOLEAN /\ handled \in BOOLEAN
    /\ handler \in {"none", "request", "recheck", "answer", "restart", "puback"}

\* The broker knows the session since the node first subscribed.
SessionInit ==
    /\ Init
    /\ queue = << >> /\ ota_url \in StoredUrls /\ connected = FALSE /\ handled = FALSE
    /\ handler = "none" /\ ok = FALSE

----------------------------------------------------------------------------
(* The broker and the connection.                                          *)

SendCommand(c) ==
    /\ Len(queue) < MaxQueue
    /\ queue' = Append(queue, c)
    /\ UNCHANGED <<vars, ota_url, connected, handler, ok, handled>>

Send == \E c \in Commands : SendCommand(c)

\* Seeded fault: disable_clean_session is left out, each CONNECT starts a new
\* session.
ConnectClean ==
    /\ ~connected /\ handler = "none"
    /\ connected' = TRUE /\ queue' = << >>
    /\ UNCHANGED <<vars, ota_url, handler, ok, handled>>

\* CONNECT to a persistent session; onConnected's subscription renews itself.
Connect ==
    /\ ~connected /\ handler = "none"
    /\ connected' = TRUE
    /\ UNCHANGED <<vars, queue, ota_url, handler, ok, handled>>

\* The handler, if one runs, learns nothing of it.
ConnectionLost ==
    /\ connected /\ connected' = FALSE
    /\ UNCHANGED <<vars, queue, ota_url, handler, ok, handled>>

----------------------------------------------------------------------------
(* MQTT_EVENT_DATA: onMqttCommand, in the esp-mqtt task.                   *)

Delivered(verbs) == /\ connected /\ handler = "none" /\ queue # << >>
                    /\ Head(queue).verb \in verbs

\* No answer, not even an error.
Ignore ==
    /\ Delivered({"garbled"})
    /\ handler' = "puback" /\ handled' = TRUE
    /\ UNCHANGED <<vars, queue, ota_url, connected, ok>>

\* The answer is published first; then 200 ms, and esp_restart().
BeginReboot ==
    /\ Delivered({"reboot"})
    /\ handler' = "restart"
    /\ UNCHANGED <<vars, queue, ota_url, connected, ok, handled>>

\* get_status publishes the status document; an unknown verb is an error.
AnswerOther ==
    /\ Delivered({"other"})
    /\ handler' = "answer" /\ ok' \in BOOLEAN
    /\ UNCHANGED <<vars, queue, ota_url, connected, handled>>

Target == IF Head(queue).url # NoUrl THEN Head(queue).url ELSE ota_url

RejectOta ==
    /\ Delivered({"ota"}) /\ Target = NoUrl
    /\ handler' = "answer" /\ ok' = FALSE
    /\ UNCHANGED <<vars, queue, ota_url, connected, handled>>

\* requestUpdate goes ahead, to return true in the end ...
CallRequestUpdate ==
    /\ Delivered({"ota"}) /\ RequestUpdate(Target)
    /\ handler' = "request"
    /\ UNCHANGED <<queue, ota_url, connected, ok, handled>>

\* ... or returns false at once.
RequestRefused ==
    /\ Delivered({"ota"}) /\ Target # NoUrl
    /\ ~m_initialized \/ m_ota_in_progress
    /\ handler' = "recheck"
    /\ UNCHANGED <<vars, queue, ota_url, connected, ok, handled>>

RequestReturns ==
    /\ UnlockRequest
    /\ handler' = "answer" /\ ok' = TRUE
    /\ UNCHANGED <<queue, ota_url, connected, handled>>

\* Seeded fault: ok = requestUpdate(target), and nothing else.
NoRecheck ==
    /\ handler = "recheck" /\ handler' = "answer"
    /\ ok' = FALSE
    /\ UNCHANGED <<vars, queue, ota_url, connected, handled>>

\* ... || isOTAInProgress(), a second read.
Recheck ==
    /\ handler = "recheck" /\ handler' = "answer"
    /\ ok' = m_ota_in_progress
    /\ UNCHANGED <<vars, queue, ota_url, connected, handled>>

\* Seeded fault: the handler performs the update itself.
AnswerAfterUpdate ==
    /\ handler = "answer" /\ handler' = "puback"
    /\ ~m_ota_in_progress
    /\ ok' = FALSE /\ handled' = TRUE
    /\ UNCHANGED <<vars, queue, ota_url, connected>>

\* publishResponse, lost if the connection is; the handler returns.
Answer ==
    /\ handler = "answer" /\ handler' = "puback"
    /\ ok' = FALSE /\ handled' = TRUE
    /\ UNCHANGED <<vars, queue, ota_url, connected>>

\* esp-mqtt, external: the PUBACK, if it still gets through.
Puback ==
    /\ handler = "puback" /\ handler' = "none"
    /\ IF connected THEN queue' = Tail(queue) /\ handled' = FALSE
                    ELSE UNCHANGED <<queue, handled>>
    /\ UNCHANGED <<vars, ota_url, connected, ok>>

----------------------------------------------------------------------------
(* A reset ends the esp-mqtt task and the connection with everything else. *)

SessionReset ==
    /\ ota_url' \in StoredUrls
    /\ connected' = FALSE /\ handler' = "none" /\ ok' = FALSE
    /\ UNCHANGED <<queue, handled>>

RebootCommand == handler = "restart" /\ Reboot /\ SessionReset

ImageRestart == Restart /\ SessionReset

\* Where a restart is about to happen, a power loss is no different from it.
PowerLoss == handler # "restart" /\ pc # "restart" /\ Reboot /\ SessionReset

----------------------------------------------------------------------------
OtaSteps ==
    /\ \/ Initialize
       \/ LockRequest \/ StoreUrl \/ StoreInProgress
       \/ SeesRequest \/ LockTask \/ CopyUrl
       \/ BeginFails \/ BeginSucceeds \/ FinishFails \/ FinishSucceeds
       \/ Clear
    /\ UNCHANGED sessionVars

OtaTransfer == (Perform \/ TransferOutcome) /\ UNCHANGED sessionVars

Deliver == \/ Ignore \/ BeginReboot \/ AnswerOther
           \/ RejectOta \/ CallRequestUpdate \/ RequestRefused

HandlerSteps == Deliver \/ RequestReturns \/ Recheck \/ Answer \/ RebootCommand

SessionNext ==
    \/ Send \/ Connect \/ ConnectionLost
    \/ HandlerSteps \/ Puback
    \/ OtaSteps \/ OtaTransfer \/ ImageRestart
    \/ PowerLoss

\* The tasks run and the node connects again (MqttService!ParkedRetried).  A
\* restart into a new image cuts the handler off wherever it is, but not each
\* time at the same step: an update takes longer than an answer.
SessionFairness ==
    /\ WF_nodeVars(Connect) /\ WF_nodeVars(RebootCommand)
    /\ WF_nodeVars(OtaSteps) /\ WF_nodeVars(OtaTransfer) /\ WF_nodeVars(ImageRestart)
    /\ SF_nodeVars(Deliver) /\ SF_nodeVars(RequestReturns)
    /\ SF_nodeVars(Recheck) /\ SF_nodeVars(Answer) /\ SF_nodeVars(Puback)

SessionSpec == SessionInit /\ [][SessionNext]_nodeVars /\ SessionFairness

----------------------------------------------------------------------------
(* Properties                                                              *)

\* At least once: a command leaves the broker only after the node has handled
\* it to its end, whatever resets and broken connections came between.
NothingLost == [][queue' # queue /\ Len(queue') <= Len(queue)
                    => handled /\ queue' = Tail(queue)]_nodeVars

\* An ota command is answered with an error only if no update is under way:
\* the one that is delivered again, because its PUBACK was lost while its
\* update runs, is told "ok".  (With no URL at all it is always an error.)
ErrorMeansIdle == handler = "answer" /\ ~ok /\ Head(queue).verb = "ota" /\ Target # NoUrl
                    => ~m_ota_in_progress

\* The network and the power supply come to rest, and so does the server.
Settles == <>[][~(ConnectionLost \/ PowerLoss \/ Send)]_nodeVars

\* Every command is handled and forgotten, except a reboot and what waits
\* behind it.
QueueDrains == Settles => <>[](queue = << >> \/ Head(queue).verb = "reboot")

----------------------------------------------------------------------------
(* What the comments of the code promise, and the code does not keep.      *)

\* "a command sent while this node was rebooting is queued by the broker
\* rather than lost": each comes to the head of the queue.
CommandsGetThrough ==
    Settles => \A c \in Commands :
        (\E i \in 1..Len(queue) : queue[i] = c) ~> (queue # << >> /\ Head(queue) = c)
=============================================================================
