-------------------------- MODULE OTAServiceProofs --------------------------
(***************************************************************************)
(* Theorems about OTAService, for every set of URLs and every image size.  *)
(*                                                                         *)
(* requestUpdate tests m_ota_in_progress before it takes the mutex, and    *)
(* the OTA task lowers the flag without taking it.  What makes this safe   *)
(* is Handover: the flag is down while a request is on its way, and up     *)
(* while the task works on one, so the two are never under way together.   *)
(***************************************************************************)
EXTENDS OTAService, TLAPS

\* One holder of the mutex, and no request without the service.
Locking ==
    /\ mutex = "request" <=> request \in {"url", "flag", "unlock"}
    /\ mutex = "task" <=> pc = "copy"
    /\ pc = "none" => request = "none" /\ m_initialized = FALSE

\* The request and the task own m_ota_url in turn.
Handover ==
    /\ request \in {"lock", "url", "flag"} => m_ota_in_progress = FALSE
    /\ pc \in Updating \cup {"lock", "copy", "clear"} => m_ota_in_progress = TRUE
    /\ pc \in Updating => url = m_ota_url
    /\ request = "flag" => m_ota_url = target
    /\ m_ota_in_progress = TRUE => m_ota_url \in Urls

\* The other slot is named exactly while the restart is due.
Activation ==
    /\ bootSlot # running <=> pc = "restart"
    /\ image[bootSlot] = "complete"

IInv == TypeOK /\ Locking /\ Handover /\ Activation

----------------------------------------------------------------------------
\* A step keeps the types.
LEMMA TypeKept ==
  ASSUME IInv, [Next]_vars
  PROVE  TypeOK'
<1> USE DEF IInv, TypeOK, Slots, Updating, requestVars, flashVars
<1>0. 0 \in 0..ImageSize
  BY OtaConstants
<1>1. CASE Initialize
  BY <1>1 DEF Initialize
<1>2. ASSUME NEW u \in Urls \cup {NoUrl}, RequestUpdate(u)
      PROVE  TypeOK'
  BY <1>2 DEF RequestUpdate
<1>3. CASE LockRequest
  BY <1>3 DEF LockRequest
<1>4. CASE StoreUrl
  BY <1>4 DEF StoreUrl
<1>5. CASE StoreInProgress
  BY <1>5 DEF StoreInProgress
<1>6. CASE UnlockRequest
  BY <1>6 DEF UnlockRequest
<1>7. CASE SeesRequest
  BY <1>7 DEF SeesRequest
<1>8. CASE LockTask
  BY <1>8 DEF LockTask
<1>9. CASE CopyUrl
  BY <1>9 DEF CopyUrl
<1>10. CASE BeginFails
  BY <1>10 DEF BeginFails
<1>11. CASE BeginSucceeds
  BY <1>0, <1>11 DEF BeginSucceeds
<1>12. CASE FinishFails
  BY <1>0, <1>12 DEF FinishFails
<1>13. CASE FinishSucceeds
  BY <1>0, <1>13 DEF FinishSucceeds, Inactive
<1>14. CASE Clear
  BY <1>14 DEF Clear
<1>15. CASE Reboot
  BY <1>0, <1>15 DEF Reboot
<1>16. CASE Perform
  <2>1. received' \in 0..ImageSize
    BY <1>16, OtaConstants DEF Perform
  <2>2. reported' \in BOOLEAN
    BY <1>16 DEF Perform
  <2> QED
    BY <1>16, <2>1, <2>2 DEF Perform
<1>17. CASE TransferFails
  BY <1>0, <1>17 DEF TransferFails
<1>18. CASE TransferEnds
  BY <1>18 DEF TransferEnds
<1>19. CASE UNCHANGED vars
  BY <1>19 DEF vars
<1> QED
  BY <1>1, <1>2, <1>3, <1>4, <1>5, <1>6, <1>7, <1>8, <1>9, <1>10, <1>11,
     <1>12, <1>13, <1>14, <1>15, <1>16, <1>17, <1>18, <1>19 DEF Next,
     RequestTask, OtaTask, TransferOutcome, Restart

\* A step keeps the mutex with one holder.
LEMMA LockingKept ==
  ASSUME IInv, [Next]_vars
  PROVE  Locking'
<1> USE DEF IInv, TypeOK, Locking, Updating, requestVars, flashVars
<1>1. CASE Initialize
  BY <1>1 DEF Initialize
<1>2. ASSUME NEW u \in Urls \cup {NoUrl}, RequestUpdate(u)
      PROVE  Locking'
  BY <1>2 DEF RequestUpdate
<1>3. CASE LockRequest
  BY <1>3 DEF LockRequest
<1>4. CASE StoreUrl
  BY <1>4 DEF StoreUrl
<1>5. CASE StoreInProgress
  BY <1>5 DEF StoreInProgress
<1>6. CASE UnlockRequest
  BY <1>6 DEF UnlockRequest
<1>7. CASE SeesRequest
  BY <1>7 DEF SeesRequest
<1>8. CASE LockTask
  BY <1>8 DEF LockTask
<1>9. CASE CopyUrl
  BY <1>9 DEF CopyUrl
<1>10. CASE BeginFails
  BY <1>10 DEF BeginFails
<1>11. CASE BeginSucceeds
  BY <1>11 DEF BeginSucceeds
<1>12. CASE FinishFails
  BY <1>12 DEF FinishFails
<1>13. CASE FinishSucceeds
  BY <1>13 DEF FinishSucceeds, Inactive
<1>14. CASE Clear
  BY <1>14 DEF Clear
<1>15. CASE Reboot
  BY <1>15 DEF Reboot
<1>16. CASE Perform
  BY <1>16 DEF Perform, Inactive
<1>17. CASE TransferFails
  BY <1>17 DEF TransferFails
<1>18. CASE TransferEnds
  BY <1>18 DEF TransferEnds
<1>19. CASE UNCHANGED vars
  BY <1>19 DEF vars
<1> QED
  BY <1>1, <1>2, <1>3, <1>4, <1>5, <1>6, <1>7, <1>8, <1>9, <1>10, <1>11,
     <1>12, <1>13, <1>14, <1>15, <1>16, <1>17, <1>18, <1>19 DEF Next,
     RequestTask, OtaTask, TransferOutcome, Restart

\* A step keeps request and update apart.
LEMMA HandoverKept ==
  ASSUME IInv, [Next]_vars
  PROVE  Handover'
<1> USE DEF IInv, TypeOK, Locking, Handover, Updating, requestVars, flashVars
<1>1. CASE Initialize
  BY <1>1 DEF Initialize
<1>2. ASSUME NEW u \in Urls \cup {NoUrl}, RequestUpdate(u)
      PROVE  Handover'
  BY <1>2 DEF RequestUpdate
<1>3. CASE LockRequest
  BY <1>3 DEF LockRequest
<1>4. CASE StoreUrl
  BY <1>4 DEF StoreUrl
<1>5. CASE StoreInProgress
  BY <1>5 DEF StoreInProgress
<1>6. CASE UnlockRequest
  BY <1>6 DEF UnlockRequest
<1>7. CASE SeesRequest
  BY <1>7 DEF SeesRequest
<1>8. CASE LockTask
  BY <1>8 DEF LockTask
<1>9. CASE CopyUrl
  BY <1>9 DEF CopyUrl
<1>10. CASE BeginFails
  BY <1>10 DEF BeginFails
<1>11. CASE BeginSucceeds
  BY <1>11 DEF BeginSucceeds
<1>12. CASE FinishFails
  BY <1>12 DEF FinishFails
<1>13. CASE FinishSucceeds
  BY <1>13 DEF FinishSucceeds, Inactive
<1>14. CASE Clear
  BY <1>14 DEF Clear
<1>15. CASE Reboot
  BY <1>15 DEF Reboot
<1>16. CASE Perform
  BY <1>16 DEF Perform, Inactive
<1>17. CASE TransferFails
  BY <1>17 DEF TransferFails
<1>18. CASE TransferEnds
  BY <1>18 DEF TransferEnds
<1>19. CASE UNCHANGED vars
  BY <1>19 DEF vars
<1> QED
  BY <1>1, <1>2, <1>3, <1>4, <1>5, <1>6, <1>7, <1>8, <1>9, <1>10, <1>11,
     <1>12, <1>13, <1>14, <1>15, <1>16, <1>17, <1>18, <1>19 DEF Next,
     RequestTask, OtaTask, TransferOutcome, Restart

\* A step keeps otadata on a whole image.
LEMMA ActivationKept ==
  ASSUME IInv, [Next]_vars
  PROVE  Activation'
<1> USE DEF IInv, TypeOK, Activation, Slots, Updating, requestVars, flashVars
<1>1. CASE Initialize
  BY <1>1 DEF Initialize
<1>2. ASSUME NEW u \in Urls \cup {NoUrl}, RequestUpdate(u)
      PROVE  Activation'
  BY <1>2 DEF RequestUpdate
<1>3. CASE LockRequest
  BY <1>3 DEF LockRequest
<1>4. CASE StoreUrl
  BY <1>4 DEF StoreUrl
<1>5. CASE StoreInProgress
  BY <1>5 DEF StoreInProgress
<1>6. CASE UnlockRequest
  BY <1>6 DEF UnlockRequest
<1>7. CASE SeesRequest
  BY <1>7 DEF SeesRequest
<1>8. CASE LockTask
  BY <1>8 DEF LockTask
<1>9. CASE CopyUrl
  BY <1>9 DEF CopyUrl
<1>10. CASE BeginFails
  BY <1>10 DEF BeginFails
<1>11. CASE BeginSucceeds
  BY <1>11 DEF BeginSucceeds
<1>12. CASE FinishFails
  BY <1>12 DEF FinishFails
<1>13. CASE FinishSucceeds
  BY <1>13 DEF FinishSucceeds, Inactive
<1>14. CASE Clear
  BY <1>14 DEF Clear
<1>15. CASE Reboot
  BY <1>15 DEF Reboot
<1>16. CASE Perform
  BY <1>16 DEF Perform, Inactive
<1>17. CASE TransferFails
  BY <1>17 DEF TransferFails
<1>18. CASE TransferEnds
  BY <1>18 DEF TransferEnds
<1>19. CASE UNCHANGED vars
  BY <1>19 DEF vars
<1> QED
  BY <1>1, <1>2, <1>3, <1>4, <1>5, <1>6, <1>7, <1>8, <1>9, <1>10, <1>11,
     <1>12, <1>13, <1>14, <1>15, <1>16, <1>17, <1>18, <1>19 DEF Next,
     RequestTask, OtaTask, TransferOutcome, Restart

----------------------------------------------------------------------------
(* The invariant: what every module that takes these steps can use.        *)

\* It holds at a first boot ...
LEMMA AtBoot == Init => IInv
<1>1. 0 \in 0..ImageSize
  BY OtaConstants
<1> QED
  BY <1>1 DEF Init, IInv, TypeOK, Locking, Handover, Activation, Slots,
              Updating

\* ... and every step of the two tasks and every reset keeps it.
LEMMA IInvKept == IInv /\ [Next]_vars => IInv'
BY TypeKept, LockingKept, HandoverKept, ActivationKept DEF IInv

----------------------------------------------------------------------------
(* The abstract update.  Most steps are invisible in it: the handover of   *)
(* the URL, the polling, the way to the end of a transfer.                 *)

\* A step of the service is a step of the update, or none.
LEMMA UpdateStep ==
  ASSUME IInv, [Next]_vars
  PROVE  [Update!Next]_(Update!updateVars)
<1> USE DEF Update!updateVars, Update!Next
<1>1. ASSUME UNCHANGED <<m_ota_in_progress, m_ota_url, flashVars>>
      PROVE  UNCHANGED Update!updateVars
  BY <1>1 DEF flashVars
<1>2. CASE Initialize
  BY <1>1, <1>2 DEF Initialize
<1>3. ASSUME NEW u \in Urls \cup {NoUrl}, RequestUpdate(u)
      PROVE  UNCHANGED Update!updateVars
  BY <1>1, <1>3 DEF RequestUpdate
<1>4. CASE LockRequest
  BY <1>1, <1>4 DEF LockRequest
<1>5. CASE StoreUrl
  <2>1. m_ota_in_progress = FALSE /\ m_ota_in_progress' = FALSE
    BY <1>5 DEF StoreUrl, IInv, Handover
  <2> QED
    BY <1>5, <2>1 DEF StoreUrl, flashVars
<1>6. CASE StoreInProgress
  <2>1. /\ m_ota_in_progress = FALSE /\ m_ota_in_progress' = TRUE
        /\ m_ota_url \in Urls /\ m_ota_url' = m_ota_url
    BY <1>6 DEF StoreInProgress, IInv, Handover, TypeOK
  <2>2. Update!Accept
    BY <1>6, <2>1 DEF StoreInProgress, flashVars, Update!Accept
  <2> QED
    BY <2>2
<1>7. CASE UnlockRequest
  BY <1>1, <1>7 DEF UnlockRequest
<1>8. CASE SeesRequest \/ LockTask \/ CopyUrl \/ BeginFails \/ BeginSucceeds
  BY <1>1, <1>8 DEF SeesRequest, LockTask, CopyUrl, BeginFails, BeginSucceeds
<1>9. CASE TransferOutcome \/ FinishFails
  BY <1>1, <1>9 DEF TransferOutcome, TransferFails, TransferEnds, FinishFails
<1>10. ASSUME pc \in {"transfer", "finish", "clear"}
       PROVE  Update!Underway
  <2>1. m_ota_in_progress = TRUE /\ m_ota_url # NoUrl
    BY <1>10, OtaConstants DEF IInv, Handover, Updating
  <2>2. bootSlot = running
    BY <1>10 DEF IInv, Activation
  <2> QED
    BY <2>1, <2>2 DEF Update!Underway
<1>11. CASE Perform
  <2>1. Update!Write
    BY <1>10, <1>11 DEF Perform, Inactive, Update!Write
  <2> QED
    BY <2>1
<1>12. CASE FinishSucceeds
  <2>1. Update!Install
    BY <1>10, <1>12 DEF FinishSucceeds, Inactive, Update!Install
  <2> QED
    BY <2>1
<1>13. CASE Clear
  <2>1. Update!GiveUp
    BY <1>10, <1>13 DEF Clear, flashVars, Update!GiveUp
  <2> QED
    BY <2>1
<1>14. CASE Reboot
  <2>1. Update!Restart
    BY <1>14 DEF Reboot, Update!Restart
  <2> QED
    BY <2>1
<1>15. CASE UNCHANGED vars
  BY <1>1, <1>15 DEF vars
<1> QED
  BY <1>2, <1>3, <1>4, <1>5, <1>6, <1>7, <1>8, <1>9, <1>11, <1>12, <1>13,
     <1>14, <1>15 DEF Next, RequestTask, OtaTask, Restart, TransferOutcome

----------------------------------------------------------------------------
(* The theorems.                                                           *)

\* The invariant the theorems rest on: who has the mutex, the URL and the boot
\* slot, at every step of the two tasks and after every reset.
THEOREM Invariant == Spec => []IInv
BY AtBoot, IInvKept, PTL DEF Spec

\* Every variable keeps its type; a request that is on its way has a URL.
THEOREM TypeCorrect == Spec => []TypeOK
<1>1. IInv => TypeOK
  BY DEF IInv
<1> QED BY <1>1, Invariant, PTL

\* runUpdate works on the URL of the accepted request and under its flag, for
\* any interleaving of requestUpdate with taskLoop.
THEOREM AcceptedUntouched == Spec => []RunsWhatWasAccepted
<1>1. IInv => RunsWhatWasAccepted
  BY DEF IInv, Handover, RunsWhatWasAccepted
<1> QED BY <1>1, Invariant, PTL

\* A reset at any point of an update boots a whole image.
THEOREM AlwaysBootable == Spec => []BootSlotComplete
<1>1. IInv => BootSlotComplete
  BY DEF IInv, Activation, BootSlotComplete
<1> QED BY <1>1, Invariant, PTL

\* esp_restart is reached with the other slot activated, so the node comes back
\* in the image it has written.
THEOREM RestartActivates == Spec => RestartsIntoUpdate
<1>1. IInv => (Restart => running' # running)
  BY DEF IInv, Activation, Restart, Reboot
<1>2. IInv => [Restart => running' # running]_vars
  BY <1>1
<1> QED BY <1>2, Invariant, PTL DEF RestartsIntoUpdate

\* One update at a time, written beside the running image, given up or booted:
\* the safety part of ImplementsUpdate.
THEOREM UpdateImplemented ==
  Spec => Update!Init /\ [][Update!Next]_(Update!updateVars)
<1>1. Init => Update!Init
  BY DEF Init, Update!Init, Slots, Update!Slots
<1>2. IInv /\ [Next]_vars => [Update!Next]_(Update!updateVars)
  BY UpdateStep
<1> QED BY <1>1, <1>2, Invariant, PTL DEF Spec
=============================================================================
