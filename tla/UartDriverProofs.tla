-------------------------- MODULE UartDriverProofs --------------------------
(***************************************************************************)
(* Theorems about UartDriver, for every queue and ring.                    *)
(*                                                                         *)
(* stop() does not wait for the task, so what keeps the task from a driver *)
(* that is gone is the handle: it is live exactly while the task is, and   *)
(* null from the moment stop() deletes anything else (Handles).            *)
(***************************************************************************)
EXTENDS UartDriver, TLAPS

Alive == task \in {"ready"} \union Working

Handles ==
    /\ m_task_handle = "live" <=> Alive
    /\ m_task_handle = "stale" => task = "ended"
    /\ caller = "configuring" =>
          /\ m_initialized = FALSE /\ m_running = FALSE /\ m_task_handle = "null"
          /\ installed = TRUE /\ m_uart_queue = "live"
    /\ caller \in {"deletingTask", "deletingDriver", "deletingQueue"} => m_running = FALSE
    /\ caller \in {"deletingDriver", "deletingQueue"} => m_task_handle = "null"
    /\ caller = "deletingQueue" => installed = FALSE

UInv == UartTypeOK /\ TaskHasDriver /\ NothingLeftBehind /\ Handles

----------------------------------------------------------------------------
\* The queue takes an event or drops it.
LEMMA PostedType ==
  ASSUME Buffers, NEW kind \in Kinds
  PROVE  Posted(kind) \in Seq(Kinds) /\ Len(Posted(kind)) <= QueueSize
BY UartConstants DEF Posted, Buffers

\* The queue and the ring stay within their bounds.
LEMMA BuffersKept ==
  ASSUME Buffers, [Next]_vars
  PROVE  Buffers'
<1> USE DEF driverVars
<1>0. << >> \in Seq(Kinds) /\ Len(<< >>) <= QueueSize /\ 0 \in 0 .. RingSize
  BY UartConstants
<1>1. CASE UNCHANGED <<events, ring>>
  BY <1>1 DEF Buffers
<1>2. CASE events' = << >> /\ ring' = 0
  BY <1>0, <1>2 DEF Buffers
<1>3. CASE CallerReads
  BY <1>3, UartConstants DEF CallerReads, Buffers
<1>4. CASE Receive
  BY <1>4, UartConstants DEF Receive, Buffers
<1>5. CASE ReadAll \/ Flush
  BY <1>0, <1>5 DEF ReadAll, Flush, Buffers
<1>6. CASE ResetQueue
  BY <1>0, <1>6 DEF ResetQueue, Buffers
<1>7. CASE Interrupt
  <2>1. events' \in Seq(Kinds) /\ Len(events') <= QueueSize
    BY <1>7, PostedType DEF Interrupt, Arrives, LineEvent, Kinds
  <2>2. ring' \in 0 .. RingSize
    BY <1>7, UartConstants DEF Interrupt, Arrives, LineEvent, Buffers
  <2> QED
    BY <2>1, <2>2 DEF Buffers
<1>8. Caller => CallerReads \/ UNCHANGED <<events, ring>> \/ (events' = << >> /\ ring' = 0)
  BY DEF Caller, InstallFails, Install, ConfigureFails, CreateTask, Start, Stop, StopTask,
         StopDriver, StopQueue, DeleteDriver, Panic
<1> QED
  BY <1>1, <1>2, <1>3, <1>4, <1>5, <1>6, <1>7, <1>8
     DEF Next, TaskLoop, EnterLoop, LeaveLoop, vars

\* The invariant holds before the driver is installed.
LEMMA UartAtBoot == Init => UInv
<1> SUFFICES ASSUME Init PROVE UInv
  OBVIOUS
<1>1. Buffers
  BY UartConstants DEF Init, Buffers
<1> QED
  BY <1>1 DEF Init, UInv, UartTypeOK, TaskHasDriver, NothingLeftBehind, Handles, Alive, Working

\* The panic handler restarts the chip.
LEMMA UartAtPanic == Panic => UInv'
<1>1. Panic => Init'
  BY DEF Panic, Init
<1> QED
  BY <1>1, UartAtBoot, PTL

\* Every step keeps the invariant.
LEMMA UartKept == UInv /\ [Next]_vars => UInv'
<1> SUFFICES ASSUME UInv, [Next]_vars PROVE UInv'
  OBVIOUS
<1>0. Buffers'
  BY BuffersKept DEF UInv, UartTypeOK
<1> USE <1>0 DEF UInv, UartTypeOK, TaskHasDriver, NothingLeftBehind, Handles, Alive, Working,
                 callerVars, driverVars
<1>1. CASE InstallFails \/ Install \/ CreateTask
  <2>1. CASE InstallFails
    BY <2>1 DEF InstallFails
  <2>2. CASE Install
    BY <2>2 DEF Install
  <2>3. CASE CreateTask
    BY <2>3 DEF CreateTask
  <2> QED
    BY <1>1, <2>1, <2>2, <2>3
<1>2. CASE Start \/ Stop \/ CallerReads
  <2>1. CASE Start
    BY <2>1 DEF Start
  <2>2. CASE Stop
    BY <2>2 DEF Stop
  <2>3. CASE CallerReads
    BY <2>3 DEF CallerReads
  <2> QED
    BY <1>2, <2>1, <2>2, <2>3
<1>3. CASE ConfigureFails \/ StopDriver
  <2>1. m_uart_queue' \in {"null", "freed"} /\ installed' = FALSE
    BY <1>3 DEF ConfigureFails, StopDriver, DeleteDriver
  <2>2. CASE ConfigureFails
    BY <2>1, <2>2 DEF ConfigureFails
  <2>3. CASE StopDriver
    BY <2>1, <2>3 DEF StopDriver
  <2> QED
    BY <1>3, <2>2, <2>3
<1>4. CASE Panic
  BY <1>4, UartAtPanic
<1>5. CASE StopTask /\ ~Panic
  BY <1>5 DEF StopTask
<1>6. CASE StopQueue /\ ~Panic
  <2>1. m_task_handle = "null" /\ installed = FALSE /\ m_running = FALSE
    BY <1>6 DEF StopQueue
  <2>2. task \in {"none", "ended"}
    BY <2>1
  <2> QED
    BY <1>6, <2>1, <2>2 DEF StopQueue
<1>7. CASE EnterLoop \/ LeaveLoop
  BY <1>7 DEF EnterLoop, LeaveLoop
<1>8. CASE Receive
  <2>1. Head(events) \in Kinds
    BY <1>8 DEF Receive, Buffers
  <2> QED
    BY <1>8, <2>1 DEF Receive, Kinds
<1>9. CASE ReadAll \/ Flush \/ ResetQueue
  BY <1>9 DEF ReadAll, Flush, ResetQueue
<1>10. CASE Interrupt
  BY <1>10 DEF Interrupt, Arrives, LineEvent
<1>11. CASE UNCHANGED vars
  BY <1>11 DEF vars
<1> QED
  BY <1>1, <1>2, <1>3, <1>4, <1>5, <1>6, <1>7, <1>8, <1>9, <1>10, <1>11
     DEF Next, Caller, TaskLoop

\* In every state the handle tells the truth about the task.
THEOREM UartInvariant == Spec => []UInv
BY UartAtBoot, UartKept, PTL DEF Spec

\* Every variable of the driver keeps its type, whatever the queue and the
\* ring hold.
THEOREM UartTypeCorrect == Spec => []UartTypeOK
<1>1. UInv => UartTypeOK
  BY DEF UInv
<1> QED
  BY <1>1, UartInvariant, PTL

\* stop() and a failing initialize() never take the driver from under a task
\* (stop, initialize).
THEOREM TaskKeepsDriver == Spec => []TaskHasDriver
<1>1. UInv => TaskHasDriver
  BY DEF UInv
<1> QED
  BY <1>1, UartInvariant, PTL

\* However initialize() fails, and however often it is called, nothing of it
\* outlives it (initialize, stop).
THEOREM NoLeftovers == Spec => []NothingLeftBehind
<1>1. UInv => NothingLeftBehind
  BY DEF UInv
<1> QED
  BY <1>1, UartInvariant, PTL
=============================================================================
