------------------------ MODULE CommandSessionProofs ------------------------
(***************************************************************************)
(* Theorems about CommandSession, for every set of URLs, image size and    *)
(* bound of the queue.                                                     *)
(*                                                                         *)
(* A step of the session is a step of the OTA service or leaves it alone   *)
(* (SessionStep), so the invariant of OTAServiceProofs holds here too.     *)
(* What the session adds is Occupied: the handler works on the head of the *)
(* queue, and a request is on its way only inside the handler.             *)
(***************************************************************************)
EXTENDS CommandSession, OTAServiceProofs

Typed ==
    /\ queue \in Seq(Commands) /\ Len(queue) <= MaxQueue
    /\ ota_url \in StoredUrls
    /\ connected \in BOOLEAN /\ ok \in BOOLEAN /\ handled \in BOOLEAN
    /\ handler \in {"none", "request", "recheck", "answer", "restart", "puback"}

Occupied ==
    /\ handler # "none" => queue # << >>
    /\ request # "none" <=> handler = "request"
    /\ handler = "puback" => handled = TRUE

SInv == IInv /\ Typed /\ Occupied /\ ErrorMeansIdle

----------------------------------------------------------------------------
\* The URL an "ota" command asks for is one of the modelled ones.
LEMMA TargetType ==
  ASSUME Typed, queue # << >>
  PROVE  Target \in Urls \cup {NoUrl}
<1>1. Head(queue) \in Commands
  BY DEF Typed
<1>2. Head(queue).url \in Urls \cup {NoUrl}
  BY <1>1, SessionConstants DEF Commands
<1> QED
  BY <1>2, SessionConstants DEF Target, Typed

\* A step of the session is a step of the OTA service, or none of its business.
LEMMA SessionStep ==
  ASSUME Typed, [SessionNext]_nodeVars
  PROVE  [Next]_vars
<1>1. CASE Send \/ Connect \/ ConnectionLost \/ Puback
  BY <1>1 DEF Send, SendCommand, Connect, ConnectionLost, Puback
<1>2. CASE Ignore \/ BeginReboot \/ AnswerOther \/ RejectOta \/ RequestRefused
           \/ Recheck \/ Answer
  BY <1>2 DEF Ignore, BeginReboot, AnswerOther, RejectOta, RequestRefused, Recheck,
              Answer
<1>3. CASE CallRequestUpdate
  <2>1. Target \in Urls \cup {NoUrl} /\ RequestUpdate(Target)
    BY <1>3, TargetType DEF CallRequestUpdate, Delivered
  <2> QED
    BY <2>1 DEF Next
<1>4. CASE RequestReturns
  BY <1>4 DEF RequestReturns, Next, RequestTask
<1>5. CASE RebootCommand \/ ImageRestart \/ PowerLoss
  BY <1>5 DEF RebootCommand, ImageRestart, PowerLoss, Restart, Next
<1>6. CASE OtaSteps
  BY <1>6 DEF OtaSteps, Next, OtaTask, RequestTask
<1>7. CASE OtaTransfer
  BY <1>7 DEF OtaTransfer, Next
<1>8. CASE UNCHANGED nodeVars
  BY <1>8 DEF nodeVars
<1> QED
  BY <1>1, <1>2, <1>3, <1>4, <1>5, <1>6, <1>7, <1>8 DEF SessionNext, HandlerSteps,
     Deliver

\* A step keeps the types of the session.
LEMMA TypedKept ==
  ASSUME Typed, IInv, Occupied, [SessionNext]_nodeVars
  PROVE  Typed'
<1> USE DEF Typed
<1>1. CASE Send
  <2> PICK c \in Commands : SendCommand(c)
    BY <1>1 DEF Send
  <2> QED
    BY SessionConstants DEF SendCommand
<1>2. CASE Connect \/ ConnectionLost
  BY <1>2 DEF Connect, ConnectionLost
<1>3. CASE Puback
  <2>1. queue # << >>
    BY <1>3 DEF Puback, Occupied
  <2>2. Tail(queue) \in Seq(Commands) /\ Len(Tail(queue)) <= MaxQueue
    BY <2>1, SessionConstants
  <2> QED
    BY <1>3, <2>2 DEF Puback
<1>4. CASE Deliver
  BY <1>4 DEF Deliver, Ignore, BeginReboot, AnswerOther, RejectOta, RequestRefused,
              CallRequestUpdate
<1>5. CASE RequestReturns \/ Recheck \/ Answer
  BY <1>5 DEF RequestReturns, Recheck, Answer, IInv, TypeOK
<1>6. CASE RebootCommand \/ ImageRestart \/ PowerLoss
  BY <1>6 DEF RebootCommand, ImageRestart, PowerLoss, SessionReset
<1>7. CASE OtaSteps \/ OtaTransfer
  BY <1>7 DEF OtaSteps, OtaTransfer, sessionVars
<1>8. CASE UNCHANGED nodeVars
  BY <1>8 DEF nodeVars, sessionVars
<1> QED
  BY <1>1, <1>2, <1>3, <1>4, <1>5, <1>6, <1>7, <1>8 DEF SessionNext, HandlerSteps

\* A step of the OTA tasks begins no request and, unless one is on its way,
\* raises no flag.
LEMMA OtaStepsInside ==
  ASSUME IInv, OtaSteps \/ OtaTransfer
  PROVE  /\ request' # "none" <=> request # "none"
         /\ request = "none" /\ m_ota_in_progress = FALSE
               => m_ota_in_progress' = FALSE
<1> USE DEF requestVars, flashVars
<1>1. CASE Initialize
  BY <1>1 DEF Initialize
<1>2. CASE LockRequest \/ StoreUrl \/ StoreInProgress
  BY <1>2 DEF LockRequest, StoreUrl, StoreInProgress
<1>3. CASE SeesRequest \/ LockTask \/ CopyUrl \/ BeginFails \/ BeginSucceeds
  BY <1>3 DEF SeesRequest, LockTask, CopyUrl, BeginFails, BeginSucceeds
<1>4. CASE FinishFails \/ FinishSucceeds \/ Clear
  BY <1>4 DEF FinishFails, FinishSucceeds, Clear
<1>5. CASE Perform \/ TransferOutcome
  BY <1>5 DEF Perform, TransferOutcome, TransferFails, TransferEnds
<1> QED
  BY <1>1, <1>2, <1>3, <1>4, <1>5 DEF OtaSteps, OtaTransfer

\* A step keeps the handler on the head of the queue.
LEMMA OccupiedKept ==
  ASSUME SInv, [SessionNext]_nodeVars
  PROVE  Occupied'
<1> USE DEF SInv, Occupied
<1>1. CASE Send
  <2> PICK c \in Commands : SendCommand(c)
    BY <1>1 DEF Send
  <2>1. queue' # << >>
    BY DEF SendCommand, Typed
  <2> QED
    BY <2>1 DEF SendCommand, vars, requestVars
<1>2. CASE Connect \/ ConnectionLost \/ Puback
  BY <1>2 DEF Connect, ConnectionLost, Puback, vars, requestVars
<1>3. CASE Ignore \/ BeginReboot \/ AnswerOther \/ RejectOta \/ RequestRefused
  BY <1>3 DEF Ignore, BeginReboot, AnswerOther, RejectOta, RequestRefused, Delivered,
              vars, requestVars
<1>4. CASE CallRequestUpdate
  BY <1>4 DEF CallRequestUpdate, Delivered, RequestUpdate
<1>5. CASE RequestReturns
  BY <1>5 DEF RequestReturns, UnlockRequest
<1>6. CASE Recheck \/ Answer
  BY <1>6 DEF Recheck, Answer, vars, requestVars
<1>7. CASE RebootCommand \/ ImageRestart \/ PowerLoss
  BY <1>7 DEF RebootCommand, ImageRestart, PowerLoss, SessionReset, Restart, Reboot
<1>8. CASE OtaSteps \/ OtaTransfer
  <2>1. UNCHANGED sessionVars
    BY <1>8 DEF OtaSteps, OtaTransfer
  <2> QED
    BY <1>8, <2>1, OtaStepsInside DEF sessionVars
<1>9. CASE UNCHANGED nodeVars
  BY <1>9 DEF nodeVars, sessionVars, vars, requestVars
<1> QED
  BY <1>1, <1>2, <1>3, <1>4, <1>5, <1>6, <1>7, <1>8, <1>9 DEF SessionNext,
     HandlerSteps, Deliver

\* A step keeps the answers true: between the second read of the flag and the
\* answer, nobody else can have a request accepted.
LEMMA ErrorMeansIdleKept ==
  ASSUME SInv, [SessionNext]_nodeVars
  PROVE  ErrorMeansIdle'
<1> USE DEF SInv, ErrorMeansIdle
<1>1. CASE Send
  <2> PICK c \in Commands : SendCommand(c)
    BY <1>1 DEF Send
  <2>1. ASSUME handler = "answer"
        PROVE  Head(queue') = Head(queue)
    <3>1. queue # << >> /\ queue \in Seq(Commands)
      BY <2>1 DEF Occupied, Typed
    <3> QED
      BY <3>1 DEF SendCommand
  <2> QED
    BY <2>1 DEF SendCommand, Target, vars
<1>2. CASE Connect \/ ConnectionLost
  BY <1>2 DEF Connect, ConnectionLost, Target, vars
<1>3. ASSUME handler' # "answer"
      PROVE  ErrorMeansIdle'
  BY <1>3
<1>4. CASE Puback \/ Ignore \/ BeginReboot \/ CallRequestUpdate \/ RequestRefused
           \/ Answer
  BY <1>3, <1>4 DEF Puback, Ignore, BeginReboot, CallRequestUpdate, RequestRefused,
                    Answer
<1>5. CASE AnswerOther
  <2>1. Head(queue').verb = "other"
    BY <1>5 DEF AnswerOther, Delivered
  <2> QED
    BY <2>1
<1>6. CASE RejectOta
  <2>1. Target' = NoUrl
    BY <1>6 DEF RejectOta, Target
  <2> QED
    BY <2>1
<1>7. CASE RequestReturns
  BY <1>7 DEF RequestReturns
<1>8. CASE Recheck
  <2>1. ok' <=> m_ota_in_progress'
    BY <1>8, Zenon DEF Recheck, vars
  <2> QED
    BY <2>1
<1>9. CASE RebootCommand \/ ImageRestart \/ PowerLoss
  BY <1>3, <1>9 DEF RebootCommand, ImageRestart, PowerLoss, SessionReset
<1>10. CASE OtaSteps \/ OtaTransfer
  <2>1. UNCHANGED sessionVars
    BY <1>10 DEF OtaSteps, OtaTransfer
  <2>2. ASSUME handler = "answer", m_ota_in_progress = FALSE
        PROVE  m_ota_in_progress' = FALSE
    BY <1>10, <2>2, OtaStepsInside DEF Occupied
  <2>3. Target' = Target
    BY <2>1 DEF Target, sessionVars
  <2>4. m_ota_in_progress \in BOOLEAN
    BY DEF IInv, TypeOK
  <2> QED
    BY <2>1, <2>2, <2>3, <2>4 DEF sessionVars
<1>11. CASE UNCHANGED nodeVars
  BY <1>11 DEF nodeVars, sessionVars, vars, Target
<1> QED
  BY <1>1, <1>2, <1>4, <1>5, <1>6, <1>7, <1>8, <1>9, <1>10, <1>11 DEF SessionNext,
     HandlerSteps, Deliver

----------------------------------------------------------------------------
(* The theorems.                                                           *)

\* The invariant the theorems rest on.
THEOREM SessionInvariant == SessionSpec => []SInv
<1>1. SessionInit => SInv
  <2>1. SessionInit => IInv
    BY AtBoot DEF SessionInit
  <2>2. SessionInit => queue \in Seq(Commands) /\ Len(queue) <= MaxQueue
    BY SessionConstants DEF SessionInit
  <2>3. SessionInit => Typed
    BY <2>2 DEF SessionInit, Typed
  <2>4. SessionInit => Occupied /\ ErrorMeansIdle
    BY DEF SessionInit, Init, Occupied, ErrorMeansIdle
  <2> QED
    BY <2>1, <2>3, <2>4 DEF SInv
<1>2. SInv /\ [SessionNext]_nodeVars => SInv'
  <2>1. ASSUME SInv, [SessionNext]_nodeVars
        PROVE  IInv'
    BY <2>1, SessionStep, IInvKept DEF SInv
  <2> QED
    BY <2>1, TypedKept, OccupiedKept, ErrorMeansIdleKept DEF SInv
<1> QED BY <1>1, <1>2, PTL DEF SessionSpec

\* Every variable of the session and of the OTA service keeps its type.
THEOREM SessionTypeCorrect == SessionSpec => []SessionTypeOK
<1>1. SInv => SessionTypeOK
  BY DEF SInv, IInv, Typed, SessionTypeOK
<1> QED BY <1>1, SessionInvariant, PTL

\* onMqttCommand answers an ota command with an error only when no update is
\* under way, whatever the OTA task does between the test of requestUpdate, the
\* second read of the flag and the answer.
THEOREM ErrorsAreTrue == SessionSpec => []ErrorMeansIdle
<1>1. SInv => ErrorMeansIdle
  BY DEF SInv
<1> QED BY <1>1, SessionInvariant, PTL

\* A command leaves the broker only after the handler has handled it to its end,
\* over any number of broken connections, resets and restarts.
THEOREM EveryCommandHandled == SessionSpec => NothingLost
<1>1. ASSUME SInv, [SessionNext]_nodeVars, queue' # queue, Len(queue') <= Len(queue)
      PROVE  handled /\ queue' = Tail(queue)
  <2>1. CASE Send
    <3> PICK c \in Commands : SendCommand(c)
      BY <2>1 DEF Send
    <3>1. Len(queue') = Len(queue) + 1
      BY DEF SendCommand, SInv, Typed
    <3> QED
      BY <1>1, <3>1 DEF SInv, Typed
  <2>2. CASE Puback
    BY <1>1, <2>2 DEF Puback, SInv, Occupied
  <2>3. CASE Connect \/ ConnectionLost \/ HandlerSteps
    BY <1>1, <2>3 DEF Connect, ConnectionLost, HandlerSteps, Deliver, Ignore,
       BeginReboot, AnswerOther, RejectOta, CallRequestUpdate, RequestRefused,
       RequestReturns, Recheck, Answer, RebootCommand, SessionReset
  <2>4. CASE OtaSteps \/ OtaTransfer \/ ImageRestart \/ PowerLoss
    BY <1>1, <2>4 DEF OtaSteps, OtaTransfer, ImageRestart, PowerLoss, SessionReset,
                      sessionVars
  <2>5. CASE UNCHANGED nodeVars
    BY <1>1, <2>5 DEF nodeVars, sessionVars
  <2> QED
    BY <1>1, <2>1, <2>2, <2>3, <2>4, <2>5 DEF SessionNext
<1>2. SInv /\ [SessionNext]_nodeVars
        => [queue' # queue /\ Len(queue') <= Len(queue)
               => handled /\ queue' = Tail(queue)]_nodeVars
  BY <1>1
<1> QED BY <1>2, SessionInvariant, PTL DEF SessionSpec, NothingLost

\* What OTAServiceProofs shows of any requests holds of those that commands make,
\* redelivered and cut off as they may be: the accepted URL is the one that runs,
THEOREM SessionRunsWhatWasAccepted == SessionSpec => []RunsWhatWasAccepted
<1>1. SInv => RunsWhatWasAccepted
  BY DEF SInv, IInv, Handover, RunsWhatWasAccepted
<1> QED BY <1>1, SessionInvariant, PTL

\* a reset at any point boots a whole image,
THEOREM SessionBootable == SessionSpec => []BootSlotComplete
<1>1. SInv => BootSlotComplete
  BY DEF SInv, IInv, Activation, BootSlotComplete
<1> QED BY <1>1, SessionInvariant, PTL

\* the service restarts the node only into the image it has written,
THEOREM SessionRestarts == SessionSpec => RestartsIntoUpdate
<1>1. SInv => (Restart => running' # running)
  BY DEF SInv, IInv, Activation, Restart, Reboot
<1>2. SInv => [Restart => running' # running]_vars
  BY <1>1
<1> QED BY <1>2, SessionInvariant, PTL DEF RestartsIntoUpdate

\* and the node updates itself as FirmwareUpdate says: the safety part of
\* ImplementsUpdate.
THEOREM SessionUpdates ==
  SessionSpec => Update!Init /\ [][Update!Next]_(Update!updateVars)
<1>1. SessionInit => Update!Init
  BY DEF SessionInit, Init, Update!Init, Slots, Update!Slots
<1>2. SInv /\ [SessionNext]_nodeVars => [Update!Next]_(Update!updateVars)
  <2>1. ASSUME SInv, [SessionNext]_nodeVars
        PROVE  [Next]_vars
    BY <2>1, SessionStep DEF SInv
  <2> QED
    BY <2>1, UpdateStep DEF SInv
<1> QED BY <1>1, <1>2, SessionInvariant, PTL DEF SessionSpec
=============================================================================
