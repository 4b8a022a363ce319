----------------------------- MODULE UartDriver -----------------------------
(***************************************************************************)
(* The UART driver class on a port of its own, as Application::initialize  *)
(* asks for before it may be enabled: one caller in initialize, start,     *)
(* stop or read, the task of taskLoop, and the interrupt handler.          *)
(*                                                                         *)
(* ESP-IDF's driver is external.  Its interrupt handler puts what arrives  *)
(* into a ring buffer and one event into a queue, or drops the event when  *)
(* the queue is full.  uart_driver_delete frees that queue (the comment at *)
(* Application.cpp:138).  Deleting a task or a queue that is gone is       *)
(* undefined: here it does nothing, or the panic handler restarts the chip.*)
(***************************************************************************)
EXTENDS Naturals, Sequences

CONSTANTS QueueSize,  \* events the queue holds (20 in the code)
          RingSize    \* data the ring buffer holds (UART_RX_BUF_SIZE)

ASSUME UartConstants == QueueSize \in Nat \ {0} /\ RingSize \in Nat \ {0}

VARIABLES m_initialized, m_running,
          m_port,         \* m_uart_num: the console's until initialize
          m_uart_queue, m_task_handle,
          caller,         \* where the caller is
          task,           \* where taskLoop is
          installed,      \* ESP-IDF's driver is installed
          events, ring    \* its queue and its ring buffer

callerVars == <<m_initialized, m_running, m_port, m_uart_queue, m_task_handle, caller>>
driverVars == <<installed, events, ring>>
vars == <<callerVars, task, driverVars>>

Kinds == {"data", "overflow", "line"}   \* "line": logged and nothing else
Working == {"waiting", "data", "overflow", "resetting"}

Buffers == events \in Seq(Kinds) /\ Len(events) <= QueueSize /\ ring \in 0 .. RingSize

\* Besides the types: the queue of m_uart_queue is there as long as the driver
\* is, whose interrupt handler posts into it whatever the caller does.
UartTypeOK ==
    /\ m_initialized \in BOOLEAN /\ m_running \in BOOLEAN /\ m_port \in {"console", "own"}
    /\ m_uart_queue \in {"null", "live", "freed"}
    /\ m_task_handle \in {"null", "live", "stale"}
    /\ caller \in {"idle", "configuring", "deletingTask", "deletingDriver", "deletingQueue"}
    /\ task \in {"none", "ready", "ended"} \union Working
    /\ installed \in BOOLEAN /\ Buffers
    /\ installed <=> m_uart_queue = "live"

Init ==
    /\ m_initialized = FALSE /\ m_running = FALSE /\ m_port = "console"
    /\ m_uart_queue = "null" /\ m_task_handle = "null" /\ caller = "idle"
    /\ task = "none" /\ installed = FALSE /\ events = << >> /\ ring = 0

Panic ==
    /\ m_initialized' = FALSE /\ m_running' = FALSE /\ m_port' = "console"
    /\ m_uart_queue' = "null" /\ m_task_handle' = "null" /\ caller' = "idle"
    /\ task' = "none" /\ installed' = FALSE /\ events' = << >> /\ ring' = 0

----------------------------------------------------------------------------
(* The caller.                                                             *)

DeleteDriver ==
    /\ installed' = FALSE /\ events' = << >> /\ ring' = 0
    /\ m_uart_queue' = IF installed THEN "freed" ELSE m_uart_queue

\* initialize, up to uart_driver_install.
InstallFails ==
    /\ caller = "idle" /\ ~m_initialized /\ m_port' = "own"
    /\ UNCHANGED <<m_initialized, m_running, m_uart_queue, m_task_handle, caller, task,
                   driverVars>>

Install ==
    /\ caller = "idle" /\ ~m_initialized
    /\ m_port' = "own" /\ installed' = TRUE /\ m_uart_queue' = "live"
    /\ caller' = "configuring"
    /\ UNCHANGED <<m_initialized, m_running, m_task_handle, task, events, ring>>

\* Seeded fault: the driver stays when the task cannot be created.
ConfigureFailsLoose ==
    /\ caller = "configuring" /\ caller' = "idle"
    /\ UNCHANGED <<m_initialized, m_running, m_port, m_uart_queue, m_task_handle, task,
                   driverVars>>

\* The parameters, the pins, the interrupt or the task.
ConfigureFails ==
    /\ caller = "configuring" /\ caller' = "idle"
    /\ DeleteDriver
    /\ UNCHANGED <<m_initialized, m_running, m_port, m_task_handle, task>>

CreateTask ==
    /\ caller = "configuring" /\ caller' = "idle"
    /\ task' = "ready" /\ m_task_handle' = "live" /\ m_initialized' = TRUE
    /\ UNCHANGED <<m_running, m_port, m_uart_queue, driverVars>>

Start ==
    /\ caller = "idle" /\ m_initialized /\ m_running' = TRUE
    /\ UNCHANGED <<m_initialized, m_port, m_uart_queue, m_task_handle, caller, task,
                   driverVars>>

\* stop.  Before any initialize it would be aimed at the console's port, which
\* the application avoids by never calling it.
Stop ==
    /\ caller = "idle" /\ m_port = "own"
    /\ m_running' = FALSE /\ caller' = "deletingTask"
    /\ UNCHANGED <<m_initialized, m_port, m_uart_queue, m_task_handle, task, driverVars>>

\* Seeded fault: stop() removes the driver under its task.
StopsDriverFirst ==
    \/ /\ caller = "deletingTask" /\ caller' = "deletingDriver"
       /\ DeleteDriver
       /\ UNCHANGED <<m_initialized, m_running, m_port, m_task_handle, task>>
    \/ /\ caller = "deletingDriver" /\ caller' = "deletingQueue"
       /\ task' = IF m_task_handle = "live" THEN "none" ELSE task
       /\ m_task_handle' = "null"
       /\ UNCHANGED <<m_initialized, m_running, m_port, m_uart_queue, driverVars>>

StopTask ==
    /\ caller = "deletingTask"
    /\ \/ /\ task' = IF m_task_handle = "live" THEN "none" ELSE task
          /\ m_task_handle' = "null" /\ caller' = "deletingDriver"
          /\ UNCHANGED <<m_initialized, m_running, m_port, m_uart_queue, driverVars>>
       \/ m_task_handle = "stale" /\ Panic

\* Seeded fault: stop() deletes the queue before the driver.
StopsQueueFirst ==
    \/ /\ caller = "deletingDriver" /\ caller' = "deletingQueue"
       /\ m_uart_queue' = "null"
       /\ UNCHANGED <<m_initialized, m_running, m_port, m_task_handle, task, driverVars>>
    \/ /\ caller = "deletingQueue" /\ installed /\ caller' = "idle"
       /\ DeleteDriver /\ m_initialized' = FALSE
       /\ UNCHANGED <<m_running, m_port, m_task_handle, task>>

StopDriver ==
    /\ caller = "deletingDriver" /\ caller' = "deletingQueue"
    /\ DeleteDriver
    /\ UNCHANGED <<m_initialized, m_running, m_port, m_task_handle, task>>

StopQueue ==
    /\ caller = "deletingQueue"
    /\ \/ /\ m_uart_queue' = "null" /\ m_initialized' = FALSE /\ caller' = "idle"
          /\ UNCHANGED <<m_running, m_port, m_task_handle, task, driverVars>>
       \/ m_uart_queue = "freed" /\ Panic

\* read, from outside the class; write changes nothing here.
CallerReads ==
    /\ caller = "idle" /\ m_running /\ ring' \in 0 .. ring
    /\ UNCHANGED <<callerVars, task, installed, events>>

Caller == \/ InstallFails \/ Install \/ ConfigureFails \/ CreateTask
          \/ Start \/ Stop \/ StopTask \/ StopDriver \/ StopQueue \/ CallerReads

----------------------------------------------------------------------------
(* taskLoop.                                                               *)

\* while (m_running); taskEntry deletes the task that leaves the loop.
EnterLoop ==
    /\ task = "ready" /\ m_running /\ task' = "waiting"
    /\ UNCHANGED <<callerVars, driverVars>>

LeaveLoop ==
    /\ task = "ready" /\ ~m_running
    /\ task' = "ended" /\ m_task_handle' = "stale"
    /\ UNCHANGED <<m_initialized, m_running, m_port, m_uart_queue, caller, driverVars>>

\* xQueueReceive, and the events that are only logged.
Receive ==
    /\ task = "waiting" /\ events # << >>
    /\ task' = IF Head(events) = "line" THEN "ready" ELSE Head(events)
    /\ events' = Tail(events)
    /\ UNCHANGED <<callerVars, installed, ring>>

\* UART_DATA: the buffer is as large as the ring.
ReadAll ==
    /\ task = "data" /\ task' = "ready"
    /\ ring' = IF m_running THEN 0 ELSE ring
    /\ UNCHANGED <<callerVars, installed, events>>

\* Seeded fault: the queue is reset and the ring is not.
FlushNothing ==
    /\ task = "overflow" /\ task' = "resetting"
    /\ UNCHANGED <<callerVars, driverVars>>

\* UART_FIFO_OVF, UART_BUFFER_FULL.
Flush ==
    /\ task = "overflow" /\ task' = "resetting" /\ ring' = 0
    /\ UNCHANGED <<callerVars, installed, events>>

ResetQueue ==
    /\ task = "resetting" /\ task' = "ready" /\ events' = << >>
    /\ UNCHANGED <<callerVars, installed, ring>>

TaskLoop == EnterLoop \/ LeaveLoop \/ Receive \/ ReadAll \/ Flush \/ ResetQueue

----------------------------------------------------------------------------
(* The interrupt handler.                                                  *)

Posted(kind) == IF Len(events) < QueueSize THEN Append(events, kind) ELSE events

Arrives ==
    /\ installed /\ ring < RingSize
    /\ ring' = ring + 1 /\ events' = Posted("data")
    /\ UNCHANGED <<callerVars, task, installed>>

LineEvent ==
    /\ installed /\ \E kind \in {"overflow", "line"} : events' = Posted(kind)
    /\ UNCHANGED <<callerVars, task, installed, ring>>

Interrupt == Arrives \/ LineEvent

Next == Caller \/ TaskLoop \/ Interrupt

Spec == Init /\ [][Next]_vars /\ WF_vars(TaskLoop)

----------------------------------------------------------------------------
(* Properties.                                                             *)

\* The task never waits on, or reads from, a driver that stop() or a failed
\* initialize() has deleted, although neither waits for the task.
TaskHasDriver ==
    task \in {"ready"} \union Working => installed /\ m_uart_queue = "live"

\* An initialize() that failed and a stop() that returned leave nothing
\* behind: no driver, no task that runs, and no handle of one.
NothingLeftBehind ==
    caller = "idle" /\ ~m_initialized =>
        ~installed /\ ~m_running /\ m_task_handle = "null" /\ task \in {"none", "ended"}

\* What has arrived and is announced by an event is read or flushed by a task
\* that is in its loop, whatever events come before and after it: an overflow
\* or an earlier read may have taken it, or it waits for its own.  What comes
\* between the flush and the reset is excepted: xQueueReset takes its event,
\* and it stays in the ring until something else arrives.
AnnouncedIsRead ==
    (task \in Working \ {"resetting"} /\ \E i \in DOMAIN events : events[i] = "data")
        ~> (ring = 0 \/ ~m_running)
=============================================================================
