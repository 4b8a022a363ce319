---------------------------- MODULE WifiService ----------------------------
(***************************************************************************)
(* The WiFi service of the node (main/services/wifi/WifiService.cpp).      *)
(*                                                                         *)
(* Three tasks meet here.  The main task boots the service (initialize,    *)
(* connect).  The default event-loop task runs onWifiEvent for every       *)
(* driver event and posts it, without blocking, to a queue of              *)
(* EventQueueSize slots: a full queue loses the event.  The service task   *)
(* drains the queue, keeps the service's view of the link and launches     *)
(* reconnect attempts, at most MaxAttempts between two addresses.          *)
(*                                                                         *)
(* The station driver is external: it leaves "idle" only when somebody     *)
(* calls esp_wifi_connect, and reports each attempt's outcome.             *)
(***************************************************************************)
EXTENDS Naturals, Sequences

CONSTANTS EventQueueSize,   \* EVENT_QUEUE_SIZE, 5
          MaxAttempts       \* the literal 10 of taskLoop

ASSUME WifiConstants == /\ EventQueueSize \in Nat \ {0}
                        /\ MaxAttempts \in Nat \ {0}

VARIABLES boot,                   \* how far the main task is in bringing WiFi up
          deaf,                   \* no handler is registered for IP_EVENT
          link,                   \* the station, as the driver knows it
          queue,                  \* m_event_queue
          dropped,                \* history: some event found the queue full
          m_initialized,
          m_connected,            \* the service's view of the link
          m_should_reconnect,
          m_reconnect_attempts,
          retryDue,               \* (now - last_reconnect) > 5000 ms
          pc,                     \* where the service task is
          event                   \* taskLoop's local: the event being handled

vars == <<boot, deaf, link, queue, dropped, m_initialized, m_connected,
          m_should_reconnect, m_reconnect_attempts, retryDue, pc, event>>

view == <<m_connected, m_should_reconnect, m_reconnect_attempts>>

Event == {"sta_start", "got_ip", "disconnected"}

TypeOK ==
    /\ boot \in {"new", "created", "initialized", "ready", "started", "failed"}
    /\ deaf \in BOOLEAN
    /\ link \in {"off", "idle", "connecting", "up"}
    /\ queue \in Seq(Event) /\ Len(queue) <= EventQueueSize
    /\ dropped \in BOOLEAN
    /\ m_initialized \in BOOLEAN
    /\ m_connected \in BOOLEAN
    /\ m_should_reconnect \in BOOLEAN
    /\ m_reconnect_attempts \in 0..MaxAttempts
    /\ retryDue \in BOOLEAN
    /\ pc \in {"none", "receive", "callback", "reconnect"}
    /\ event \in Event \cup {"none"}

Init ==
    /\ boot = "new" /\ deaf = FALSE /\ link = "off"
    /\ queue = <<>> /\ dropped = FALSE
    /\ m_initialized = FALSE /\ m_connected = FALSE
    /\ m_should_reconnect = FALSE /\ m_reconnect_attempts = 0
    /\ retryDue = FALSE
    /\ pc = "none" /\ event = "none"

----------------------------------------------------------------------------
(* onWifiEvent, in the event-loop task: a post that never waits.           *)

HasRoom == Len(queue) < EventQueueSize

Post(e) ==
    \/ HasRoom /\ queue' = Append(queue, e) /\ UNCHANGED dropped
    \/ ~HasRoom /\ dropped' = TRUE /\ UNCHANGED queue

----------------------------------------------------------------------------
(* The main task: initialize() and connect(), called by Application.       *)

\* initialize() up to the task's creation.  The handlers are registered, but
\* the radio is off, so no event can come before connect().  Without the second
\* handler, the one of IP_EVENT, it only warns and goes on.
Initialize ==
    /\ boot = "new"
    /\ boot' = "created" /\ pc' = "receive" /\ deaf' \in BOOLEAN
    /\ UNCHANGED <<link, queue, dropped, m_initialized, view, retryDue, event>>

\* One of the early returns of initialize(); each comes before the task runs.
InitializeFails ==
    /\ boot = "new"
    /\ boot' = "failed"
    /\ UNCHANGED <<deaf, link, queue, dropped, m_initialized,
                   view, retryDue, pc, event>>

\* The task already runs when these two flags are written, 50 ms apart.
SetInitialized ==
    /\ boot = "created"
    /\ boot' = "initialized" /\ m_initialized' = TRUE
    /\ UNCHANGED <<deaf, link, queue, dropped, view, retryDue, pc, event>>

SetReconnect ==
    /\ boot = "initialized"
    /\ boot' = "ready" /\ m_should_reconnect' = TRUE
    /\ UNCHANGED <<deaf, link, queue, dropped, m_initialized, m_connected,
                   m_reconnect_attempts, retryDue, pc, event>>

\* connect(): esp_wifi_start() turns the radio on, and the driver posts
\* STA_START.  Nothing here associates: that is the first "reconnect".
Connect ==
    /\ boot = "ready"
    /\ boot' = "started" /\ link' = "idle"
    /\ Post("sta_start")
    /\ UNCHANGED <<deaf, m_initialized, view, retryDue, pc, event>>

\* No SSID, or the driver refuses.  The application gives up; the task stays.
ConnectFails ==
    /\ boot = "ready"
    /\ boot' = "failed"
    /\ UNCHANGED <<deaf, link, queue, dropped, m_initialized,
                   view, retryDue, pc, event>>

----------------------------------------------------------------------------
(* The service task: handleWifiEvent.                                      *)

HandleStaStart ==
    /\ m_should_reconnect' = TRUE
    /\ UNCHANGED <<m_connected, m_reconnect_attempts>>

\* Seeded fault: an address only resets the count.
HandleGotIpForgets ==
    /\ m_reconnect_attempts' = 0
    /\ UNCHANGED <<m_connected, m_should_reconnect>>

\* Seeded fault: an address does not renew the attempts.
HandleGotIpCountsOn ==
    /\ m_connected' = TRUE
    /\ m_should_reconnect' = FALSE
    /\ UNCHANGED m_reconnect_attempts

HandleGotIp ==
    /\ m_connected' = TRUE
    /\ m_reconnect_attempts' = 0
    /\ m_should_reconnect' = FALSE

\* Seeded fault: the flag keeps its old value.
HandleDisconnectedKeepsView ==
    /\ m_should_reconnect' = TRUE
    /\ UNCHANGED <<m_connected, m_reconnect_attempts>>

\* Seeded fault: the reconnect is left to the next STA_START.
HandleDisconnectedStaysQuiet ==
    /\ m_connected' = FALSE
    /\ UNCHANGED <<m_should_reconnect, m_reconnect_attempts>>

\* Seeded fault: a loss starts the count again.
HandleDisconnectedResets ==
    /\ m_connected' = FALSE
    /\ m_should_reconnect' = TRUE
    /\ m_reconnect_attempts' = 0

HandleDisconnected ==
    /\ m_connected' = FALSE
    /\ m_should_reconnect' = TRUE
    /\ UNCHANGED m_reconnect_attempts

HandleWifiEvent(e) ==
    \/ e = "sta_start" /\ HandleStaStart
    \/ e = "got_ip" /\ HandleGotIp
    \/ e = "disconnected" /\ HandleDisconnected

Receive ==
    /\ pc = "receive" /\ queue # <<>>
    /\ event' = Head(queue) /\ queue' = Tail(queue)
    /\ HandleWifiEvent(Head(queue))
    /\ pc' = "callback"
    /\ UNCHANGED <<boot, deaf, link, dropped, m_initialized, retryDue>>

\* m_event_cb(event): Application::onWifiEvent, see module Node.
Callback ==
    /\ pc = "callback"
    /\ pc' = "reconnect" /\ event' = "none"
    /\ UNCHANGED <<boot, deaf, link, queue, dropped, m_initialized,
                   view, retryDue>>

\* xQueueReceive gives up after 1000 ms.
ReceiveTimesOut ==
    /\ pc = "receive" /\ queue = <<>>
    /\ pc' = "reconnect"
    /\ UNCHANGED <<boot, deaf, link, queue, dropped, m_initialized,
                   view, retryDue, event>>

----------------------------------------------------------------------------
(* The service task: the reconnect part of taskLoop.                       *)

WantsReconnect == m_should_reconnect /\ ~m_connected /\ m_initialized

\* Seeded fault: no limit.
MayRetryForever == retryDue

MayRetry == retryDue /\ m_reconnect_attempts < MaxAttempts

BudgetSpent == m_reconnect_attempts >= MaxAttempts

\* esp_wifi_connect() does nothing to a radio that is off, or to a link that
\* is being made or already up but not yet reported; the attempt still counts.
Associate == link' = IF link = "idle" THEN "connecting" ELSE link

Reconnect ==
    /\ pc = "reconnect" /\ WantsReconnect /\ MayRetry
    /\ retryDue' = FALSE
    /\ m_reconnect_attempts' = m_reconnect_attempts + 1
    /\ Associate
    /\ pc' = "receive"
    /\ UNCHANGED <<boot, deaf, queue, dropped, m_initialized, m_connected,
                   m_should_reconnect, event>>

GiveUp ==
    /\ pc = "reconnect" /\ WantsReconnect /\ ~MayRetry /\ BudgetSpent
    /\ m_should_reconnect' = FALSE
    /\ pc' = "receive"
    /\ UNCHANGED <<boot, deaf, link, queue, dropped, m_initialized, m_connected,
                   m_reconnect_attempts, retryDue, event>>

SkipReconnect ==
    /\ pc = "reconnect" /\ ~(WantsReconnect /\ (MayRetry \/ BudgetSpent))
    /\ pc' = "receive"
    /\ UNCHANGED <<boot, deaf, link, queue, dropped, m_initialized,
                   view, retryDue, event>>

\* Five seconds pass since last_reconnect (since boot, before the first one).
RetryIntervalElapses ==
    /\ ~retryDue /\ retryDue' = TRUE
    /\ UNCHANGED <<boot, deaf, link, queue, dropped, m_initialized,
                   view, pc, event>>

Task == \/ Receive \/ Callback \/ ReceiveTimesOut
        \/ Reconnect \/ GiveUp \/ SkipReconnect

----------------------------------------------------------------------------
(* The station driver, external: it answers each association attempt.      *)

\* IP_EVENT_STA_GOT_IP, if anybody listens.
PostAddress == IF deaf THEN UNCHANGED <<queue, dropped>> ELSE Post("got_ip")

GetIp ==
    /\ link = "connecting"
    /\ link' = "up" /\ PostAddress
    /\ UNCHANGED <<boot, deaf, m_initialized, view, retryDue, pc, event>>

AssociationFails ==
    /\ link = "connecting"
    /\ link' = "idle" /\ Post("disconnected")
    /\ UNCHANGED <<boot, deaf, m_initialized, view, retryDue, pc, event>>

LinkLost ==
    /\ link = "up"
    /\ link' = "idle" /\ Post("disconnected")
    /\ UNCHANGED <<boot, deaf, m_initialized, view, retryDue, pc, event>>

\* A lease renewal that brings another address posts GOT_IP again.  Renewals
\* are minutes apart: the service has drained the queue since the last event.
AddressChanges ==
    /\ link = "up" /\ queue = <<>>
    /\ PostAddress
    /\ UNCHANGED <<boot, deaf, link, m_initialized, view, retryDue, pc, event>>

Driver == GetIp \/ AssociationFails \/ LinkLost \/ AddressChanges

----------------------------------------------------------------------------
\* initialize() failed before the task existed: app_main returns, for good.
Halted == boot = "failed" /\ pc = "none" /\ UNCHANGED vars

Boot == \/ Initialize \/ InitializeFails \/ SetInitialized \/ SetReconnect
        \/ Connect \/ ConnectFails

Next == Boot \/ Task \/ RetryIntervalElapses \/ Driver \/ Halted

\* The scheduler runs the service task, the tick count advances, and the
\* driver answers every association attempt.  Nothing obliges the link to
\* come up or to break.
Fairness ==
    /\ WF_vars(Task)
    /\ WF_vars(RetryIntervalElapses)
    /\ WF_vars(GetIp \/ AssociationFails)

Spec == Init /\ [][Next]_vars /\ Fairness

----------------------------------------------------------------------------
(* Properties                                                              *)

\* Once the queued events are handled, m_connected says what the link is:
\* the newest link event in the queue, or m_connected when there is none,
\* agrees with the driver.  Ordering of the queue and of the two writers,
\* onWifiEvent against handleWifiEvent, is what could break it; a service that
\* registered no handler for the address never learns of one.
IsLinkEvent(e) == e \in {"got_ip", "disconnected"}

Newest(q, i) == IsLinkEvent(q[i]) /\ \A j \in (i + 1)..Len(q) : ~IsLinkEvent(q[j])

Agrees(q, up, connected) ==
    /\ \A i \in 1..Len(q) : Newest(q, i) => (up <=> q[i] = "got_ip")
    /\ (\A i \in 1..Len(q) : ~IsLinkEvent(q[i])) => (up <=> connected)

ViewAfterDrain == ~dropped /\ ~deaf => Agrees(queue, link = "up", m_connected)

\* The non-blocking post of onWifiEvent ignores a full queue.  It never meets
\* one: each attempt yields at most an address and a loss, and the next
\* attempt waits for the task that drains them.
NoEventDropped == ~dropped

\* The service stops trying while it believes the link is down only after it
\* spent every attempt (taskLoop's else-if), whatever order the boot writes,
\* the events and the give-up came in.
NotRetryingMeansSpent ==
    (boot \in {"ready", "started"} /\ ~m_connected /\ ~m_should_reconnect)
        => m_reconnect_attempts = MaxAttempts

\* Giving up is final: m_reconnect_attempts is reset by GOT_IP alone, so an
\* idle link whose attempts are spent is never tried again, whatever the
\* radio environment does.
GaveUp == /\ boot = "started" /\ link = "idle"
          /\ m_reconnect_attempts = MaxAttempts
          /\ \A i \in 1..Len(queue) : queue[i] # "got_ip"

BudgetSpentIsFinal == [][GaveUp => GaveUp']_vars

\* Until then a link that is down is tried again ("auto-reconnect").
DownLinkRetried ==
    (boot = "started" /\ link = "idle")
        ~> (link # "idle" \/ m_reconnect_attempts = MaxAttempts)

\* What the service promises of the link, with its view, its queue and its task
\* left out: no try beyond the last, none for free, and only an address that
\* was really obtained renews them.
AddressQueued(q) == \E i \in 1..Len(q) : q[i] = "got_ip"

Supervised == INSTANCE LinkRetry
              WITH attempts <- m_reconnect_attempts, news <- AddressQueued(queue)

ImplementsLinkRetry == Supervised!Spec
=============================================================================
