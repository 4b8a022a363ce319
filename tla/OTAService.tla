----------------------------- MODULE OTAService -----------------------------
(***************************************************************************)
(* The OTA service (main/services/ota/OTAService.cpp): one firmware update *)
(* at a time, requested by one task and performed by another.              *)
(*                                                                         *)
(* The esp-mqtt task calls requestUpdate.  The OTA task polls              *)
(* m_ota_in_progress, copies m_ota_url under the mutex and runs the        *)
(* transfer into the slot that is not running; success restarts the node.  *)
(*                                                                         *)
(* esp_https_ota, the flash and the bootloader are external.  A reset (a   *)
(* power loss, a watchdog, the reboot command) may come at any time: it    *)
(* clears the RAM and boots the slot that otadata names.                   *)
(***************************************************************************)
EXTENDS Naturals

CONSTANTS Urls,        \* the image URLs that are requested
          NoUrl,       \* the empty string
          ImageSize    \* reads that a complete image takes

ASSUME OtaConstants == NoUrl \notin Urls /\ ImageSize \in Nat \ {0}

VARIABLES
    \* RAM
    m_initialized, m_ota_in_progress, m_ota_url,
    mutex,       \* who holds m_ota_mutex
    request,     \* where the esp-mqtt task is in requestUpdate
    target,      \* requestUpdate's argument
    pc,          \* where the OTA task is; "none" before initialize()
    url,         \* taskLoop's local copy
    received,    \* reads done by the transfer
    reported,    \* history: this update called m_progress_cb
    \* flash
    running,     \* the slot the node booted from
    bootSlot,    \* the slot otadata names for the next boot
    image        \* what each slot holds

requestVars == <<request, target>>
flashVars == <<running, bootSlot, image>>
vars == <<m_initialized, m_ota_in_progress, m_ota_url, mutex, requestVars, pc,
          url, received, reported, flashVars>>

Slots == {0, 1}

\* runUpdate's part of the OTA task.
Updating == {"begin", "transfer", "finish", "restart"}

TypeOK ==
    /\ m_initialized \in BOOLEAN /\ m_ota_in_progress \in BOOLEAN
    /\ m_ota_url \in Urls \cup {NoUrl} /\ url \in Urls \cup {NoUrl}
    /\ mutex \in {"none", "request", "task"}
    /\ request \in {"none", "lock", "url", "flag", "unlock"}
    /\ target \in (IF request = "none" THEN {NoUrl} ELSE Urls)
    /\ pc \in Updating \cup {"none", "poll", "lock", "copy", "clear"}
    /\ received \in 0..ImageSize /\ reported \in BOOLEAN
    /\ running \in Slots /\ bootSlot \in Slots
    /\ image \in [Slots -> {"complete", "partial"}]

\* A node that has just booted its image.
Init ==
    /\ m_initialized = FALSE /\ m_ota_in_progress = FALSE /\ m_ota_url = NoUrl
    /\ mutex = "none" /\ request = "none" /\ target = NoUrl
    /\ pc = "none" /\ url = NoUrl /\ received = 0 /\ reported = FALSE
    /\ running \in Slots /\ bootSlot = running
    /\ image \in [Slots -> {"complete", "partial"}] /\ image[running] = "complete"

----------------------------------------------------------------------------
(* initialize(), in the main task.  When it fails the application goes on  *)
(* without the service, and every request is refused.                      *)

Initialize ==
    /\ pc = "none" /\ ~m_initialized
    /\ pc' = "poll" /\ m_initialized' = TRUE
    /\ UNCHANGED <<m_ota_in_progress, m_ota_url, mutex, requestVars, url,
                   received, reported, flashVars>>

----------------------------------------------------------------------------
(* requestUpdate(), in the esp-mqtt task.                                  *)

\* Seeded fault: the empty URL is let through.
RequestAnything(u) ==
    /\ request = "none"
    /\ m_initialized /\ ~m_ota_in_progress
    /\ request' = "lock" /\ target' = u
    /\ UNCHANGED <<m_initialized, m_ota_in_progress, m_ota_url, mutex, pc, url,
                   received, reported, flashVars>>

\* Seeded fault: an update in progress is no reason to refuse.
RequestUnchecked(u) ==
    /\ request = "none"
    /\ m_initialized /\ u # NoUrl
    /\ request' = "lock" /\ target' = u
    /\ UNCHANGED <<m_initialized, m_ota_in_progress, m_ota_url, mutex, pc, url,
                   received, reported, flashVars>>

\* Otherwise it returns false and changes nothing.
RequestUpdate(u) ==
    /\ request = "none"
    /\ m_initialized /\ u # NoUrl /\ ~m_ota_in_progress
    /\ request' = "lock" /\ target' = u
    /\ UNCHANGED <<m_initialized, m_ota_in_progress, m_ota_url, mutex, pc, url,
                   received, reported, flashVars>>

LockRequest ==
    /\ request = "lock" /\ mutex = "none"
    /\ mutex' = "request" /\ request' = "url"
    /\ UNCHANGED <<m_initialized, m_ota_in_progress, m_ota_url, target, pc, url,
                   received, reported, flashVars>>

StoreUrl ==
    /\ request = "url" /\ request' = "flag"
    /\ m_ota_url' = target
    /\ UNCHANGED <<m_initialized, m_ota_in_progress, mutex, target, pc, url,
                   received, reported, flashVars>>

StoreInProgress ==
    /\ request = "flag" /\ request' = "unlock"
    /\ m_ota_in_progress' = TRUE
    /\ UNCHANGED <<m_initialized, m_ota_url, mutex, target, pc, url, received,
                   reported, flashVars>>

\* Seeded fault: the mutex is kept.
UnlockForgotten ==
    /\ request = "unlock" /\ request' = "none" /\ target' = NoUrl
    /\ UNCHANGED <<m_initialized, m_ota_in_progress, m_ota_url, mutex, pc, url,
                   received, reported, flashVars>>

UnlockRequest ==
    /\ request = "unlock" /\ request' = "none" /\ target' = NoUrl
    /\ mutex' = "none"
    /\ UNCHANGED <<m_initialized, m_ota_in_progress, m_ota_url, pc, url,
                   received, reported, flashVars>>

RequestTask == LockRequest \/ StoreUrl \/ StoreInProgress \/ UnlockRequest

----------------------------------------------------------------------------
(* The OTA task: taskLoop around runUpdate.                                *)

SeesRequest ==
    /\ pc = "poll" /\ m_ota_in_progress
    /\ pc' = "lock"
    /\ UNCHANGED <<m_initialized, m_ota_in_progress, m_ota_url, mutex,
                   requestVars, url, received, reported, flashVars>>

LockTask ==
    /\ pc = "lock" /\ mutex = "none"
    /\ mutex' = "task" /\ pc' = "copy"
    /\ UNCHANGED <<m_initialized, m_ota_in_progress, m_ota_url, requestVars,
                   url, received, reported, flashVars>>

\* An empty URL is not run.
CopyUrl ==
    /\ pc = "copy"
    /\ url' = m_ota_url /\ mutex' = "none"
    /\ pc' = IF m_ota_url = NoUrl THEN "clear" ELSE "begin"
    /\ reported' = FALSE
    /\ UNCHANGED <<m_initialized, m_ota_in_progress, m_ota_url, requestVars,
                   received, flashVars>>

\* esp_https_ota_begin: no server, no trust, no handle.
BeginFails ==
    /\ pc = "begin" /\ pc' = "clear"
    /\ UNCHANGED <<m_initialized, m_ota_in_progress, m_ota_url, mutex,
                   requestVars, url, received, reported, flashVars>>

BeginSucceeds ==
    /\ pc = "begin" /\ pc' = "transfer" /\ received' = 0
    /\ UNCHANGED <<m_initialized, m_ota_in_progress, m_ota_url, mutex,
                   requestVars, url, reported, flashVars>>

\* esp_ota_get_next_update_partition(NULL): the slot that is not running.
Inactive == 1 - running

\* esp_https_ota_perform returns IN_PROGRESS.  The loop reports a percentage
\* that changed, if the server told the size.
Perform ==
    /\ pc = "transfer" /\ received < ImageSize
    /\ received' = received + 1
    /\ image' = [image EXCEPT ![Inactive] = "partial"]
    /\ reported' \in {TRUE, reported}
    /\ UNCHANGED <<m_initialized, m_ota_in_progress, m_ota_url, mutex,
                   requestVars, pc, url, running, bootSlot>>

\* An error, or a body shorter than announced: report 0, abort.
TransferFails ==
    /\ pc = "transfer" /\ pc' = "clear" /\ reported' = TRUE
    /\ received' = 0
    /\ UNCHANGED <<m_initialized, m_ota_in_progress, m_ota_url, mutex,
                   requestVars, url, flashVars>>

TransferEnds ==
    /\ pc = "transfer" /\ received = ImageSize
    /\ pc' = "finish"
    /\ UNCHANGED <<m_initialized, m_ota_in_progress, m_ota_url, mutex,
                   requestVars, url, received, reported, flashVars>>

\* Seeded fault: the return after a failing esp_https_ota_finish is missing.
FinishFailsGoesOn ==
    /\ pc = "finish" /\ pc' = "restart" /\ reported' = TRUE
    /\ received' = 0
    /\ UNCHANGED <<m_initialized, m_ota_in_progress, m_ota_url, mutex,
                   requestVars, url, flashVars>>

\* esp_https_ota_finish: the image does not validate, report 0.
FinishFails ==
    /\ pc = "finish" /\ pc' = "clear" /\ reported' = TRUE
    /\ received' = 0
    /\ UNCHANGED <<m_initialized, m_ota_in_progress, m_ota_url, mutex,
                   requestVars, url, flashVars>>

\* Seeded fault: the new image waits for somebody else's restart.
FinishSucceedsQuietly ==
    /\ pc = "finish" /\ pc' = "clear" /\ reported' = TRUE
    /\ received' = 0
    /\ image' = [image EXCEPT ![Inactive] = "complete"]
    /\ bootSlot' = Inactive
    /\ UNCHANGED <<m_initialized, m_ota_in_progress, m_ota_url, mutex,
                   requestVars, url, running>>

\* It validates: otadata names the new slot, report 100.
FinishSucceeds ==
    /\ pc = "finish" /\ pc' = "restart" /\ reported' = TRUE
    /\ received' = 0
    /\ image' = [image EXCEPT ![Inactive] = "complete"]
    /\ bootSlot' = Inactive
    /\ UNCHANGED <<m_initialized, m_ota_in_progress, m_ota_url, mutex,
                   requestVars, url, running>>

\* Seeded fault: the failed update stays in progress.
ClearForgotten ==
    /\ pc = "clear" /\ pc' = "poll"
    /\ UNCHANGED <<m_initialized, m_ota_in_progress, m_ota_url, mutex,
                   requestVars, url, received, reported, flashVars>>

\* "Reached only on failure": the service is ready for the next request.
Clear ==
    /\ pc = "clear" /\ pc' = "poll"
    /\ m_ota_in_progress' = FALSE
    /\ UNCHANGED <<m_initialized, m_ota_url, mutex, requestVars, url, received,
                   reported, flashVars>>

\* A reset: the RAM is cleared, the bootloader starts the slot of otadata.
Reboot ==
    /\ m_initialized' = FALSE /\ m_ota_in_progress' = FALSE /\ m_ota_url' = NoUrl
    /\ mutex' = "none" /\ request' = "none" /\ target' = NoUrl
    /\ pc' = "none" /\ url' = NoUrl /\ received' = 0 /\ reported' = FALSE
    /\ running' = bootSlot
    /\ UNCHANGED <<bootSlot, image>>

\* esp_restart(), a second after the last report.
Restart == pc = "restart" /\ Reboot

TransferOutcome == TransferFails \/ TransferEnds

OtaTask == \/ SeesRequest \/ LockTask \/ CopyUrl
           \/ BeginFails \/ BeginSucceeds
           \/ FinishFails \/ FinishSucceeds
           \/ Clear \/ Restart

Next == \/ Initialize
        \/ \E u \in Urls \cup {NoUrl} : RequestUpdate(u)
        \/ RequestTask
        \/ OtaTask \/ Perform \/ TransferOutcome
        \/ Reboot

\* The tasks run, and a transfer ends one way or the other: it has no time-out
\* of its own, so this is a promise of the server.  No request need ever come,
\* and no reset.
Fairness ==
    /\ WF_vars(Initialize) /\ WF_vars(RequestTask) /\ WF_vars(OtaTask)
    /\ WF_vars(Perform \/ TransferOutcome)

Spec == Init /\ [][Next]_vars /\ Fairness

----------------------------------------------------------------------------
(* Properties                                                              *)

\* The update that runs is the one that was accepted: no later request changes
\* its URL, and the flag stays up until the task has taken it down.
RunsWhatWasAccepted == pc \in Updating => m_ota_in_progress /\ url = m_ota_url

\* An update may be cut off anywhere: otadata never names a slot whose image is
\* not whole.  The one that waits for its restart is the one that would be
\* overwritten by the next transfer.
BootSlotComplete == image[bootSlot] = "complete"

\* The service restarts the node only into the image it has just written.
RestartsIntoUpdate == [][Restart => running' # running]_vars

\* An accepted request is run, unless the node is reset before.
AcceptedIsRun ==
    \A u \in Urls : (request = "unlock" /\ target = u)
                        ~> ((pc \in Updating /\ url = u) \/ ~m_initialized)

\* One update at a time, under the URL it was accepted with, that is given up
\* or boots: the flag and the URL, written one after the other by one task and
\* taken down by another, stand for one atomic job.
Update == INSTANCE FirmwareUpdate
          WITH job <- IF m_ota_in_progress THEN m_ota_url ELSE NoUrl

ImplementsUpdate == Update!Spec
=============================================================================
