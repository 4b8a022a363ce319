------------------------------ MODULE Presence ------------------------------
(***************************************************************************)
(* What the server sees of the node: the retained status document, written *)
(* by the node's birth message and its periodic refresh, and by the broker *)
(* when it publishes the Last Will.  Composes the MQTT service             *)
(* (MqttService) with its broker, and lets the node lose its power.        *)
(*                                                                         *)
(* The broker and the network are external.  The broker keeps the will of  *)
(* a connection until a DISCONNECT packet discards it (MQTT 3.1.1), and    *)
(* publishes it when the connection ends in any other way: it is closed,   *)
(* its keepalive expires, or the same client id connects again.  Whatever  *)
(* the node has sent may be lost once the node has left the connection.    *)
(***************************************************************************)
EXTENDS MqttService, Sequences

CONSTANT MaxUplink    \* bound: packets on their way to the broker

ASSUME PresenceConstants == MaxUplink \in Nat \ {0}

VARIABLES accepted,   \* the broker took the CONNECT of the node's connection
          session,    \* the broker's connection for this client id
          uplink,     \* packets the node sent on it that are not yet read
          status,     \* the retained status document
          resetRaced  \* history: the last reset of the backoff came between the
                      \* doubling's read and its write

brokerVars == <<accepted, session, uplink, status>>
allVars == <<vars, brokerVars>>

PresenceTypeOK ==
    /\ TypeOK
    /\ accepted \in BOOLEAN /\ session \in {"open", "closed"}
    /\ uplink \in Seq({"online", "disconnect", "fin"})
    /\ status \in {"none", "online", "offline"}
    /\ resetRaced \in BOOLEAN

PresenceInit ==
    /\ Init
    /\ accepted = FALSE /\ session = "closed" /\ uplink = << >> /\ status = "none"
    /\ resetRaced = FALSE

\* A closed session reads nothing more.
Sent(packet) == IF session = "open" THEN Append(uplink, packet) ELSE uplink

----------------------------------------------------------------------------
(* The broker and the network.                                             *)

\* The retained will, {"status":"offline"}.
AfterWill == "offline"

\* CONNECT.  An older connection of the same client id is closed first, and
\* what it had not read is never read.
BrokerAccepts ==
    /\ client = "connecting" /\ ~accepted
    /\ accepted' = TRUE /\ session' = "open" /\ uplink' = << >>
    /\ status' = IF session = "open" THEN AfterWill ELSE status
    /\ UNCHANGED vars

Closes(newStatus) == session' = "closed" /\ uplink' = << >> /\ status' = newStatus

ReadUplink ==
    /\ session = "open" /\ uplink # << >>
    /\ CASE Head(uplink) = "online"     -> /\ status' = "online"
                                           /\ uplink' = Tail(uplink)
                                           /\ UNCHANGED session
         [] Head(uplink) = "disconnect" -> Closes(status)
         [] Head(uplink) = "fin"        -> Closes(AfterWill)
    /\ UNCHANGED <<vars, accepted>>

\* Seeded fault: no keepalive.
NeverExpires == FALSE /\ UNCHANGED allVars

\* 45 s without a packet: the node has vanished, or the path is dead.
KeepaliveExpires ==
    /\ session = "open" /\ Closes(AfterWill)
    /\ UNCHANGED <<vars, accepted>>

UplinkLost ==
    /\ ~accepted /\ uplink # << >> /\ uplink' = << >>
    /\ UNCHANGED <<vars, accepted, session, status>>

Broker == BrokerAccepts \/ ReadUplink \/ KeepaliveExpires \/ UplinkLost

----------------------------------------------------------------------------
(* The node: each action of MqttService with what it sends.                *)

\* Seeded fault: the birth message is left to the periodic refresh.
NoBirth ==
    (BirthSent \/ SubscribeFails) /\ UNCHANGED brokerVars

\* onConnected: the birth message; its subscription does not show in the status.
Birth ==
    /\ BirthSent \/ SubscribeFails
    /\ uplink' = Sent("online")
    /\ UNCHANGED <<accepted, session, status>>

\* publishTelemetry, in the main task, every STATUS_EVERY_N_TICKS cycles, or
\* get_status.  A QoS 1 publish that waits in the outbox goes out like this one.
RefreshStatus ==
    /\ m_connected /\ client = "connected" /\ Len(uplink) < MaxUplink
    /\ uplink' = Sent("online")
    /\ UNCHANGED <<vars, accepted, session, status>>

CONNACK == ConnectSucceeds /\ accepted /\ UNCHANGED brokerVars

Leave(packet) ==
    /\ accepted' = FALSE
    /\ uplink' = IF accepted THEN Sent(packet) ELSE uplink
    /\ UNCHANGED <<session, status>>

CloseConnection == Abort /\ Leave("fin")

\* A birth message that cannot be written closes the connection, at once or in
\* the CloseConnection that follows the ERROR.
BirthLost ==
    /\ BirthFails
    /\ IF client' = "parked" THEN Leave("fin") ELSE UNCHANGED brokerVars

\* esp-mqtt sends a DISCONNECT packet: the broker discards the will.
SayGoodbye == HonourDisconnect /\ Leave("disconnect")

NodeSteps ==
    \/ CONNACK \/ Birth \/ BirthLost \/ CloseConnection \/ SayGoodbye
    \/ /\ \/ MainTask \/ WifiTask \/ ServiceTask
          \/ BeginReconnect \/ TransportError
          \/ StoreConnected \/ ResetBackoff \/ ConnectCallback \/ OnError
          \/ StoreDisconnected \/ DropCallback \/ NotifyDisconnect
       /\ UNCHANGED brokerVars

\* A reset, of the node only: no packet tells the broker.
PowerLoss ==
    /\ client' = "none" /\ handler' = "none" /\ birthFailed' = FALSE
    /\ reconnectBit' = FALSE /\ disconnectBit' = FALSE
    /\ m_connected' = FALSE /\ m_started' = FALSE
    /\ m_backoff_ms' = InitialBackoff /\ loaded' = 0 /\ wait_ms' = 0
    /\ notified' = 0
    /\ pc' = "none" /\ caller' = "none"
    /\ startRaced' = FALSE
    /\ accepted' = FALSE
    /\ UNCHANGED <<session, uplink, status>>

PresenceNext == NodeSteps \/ RefreshStatus \/ Broker \/ PowerLoss
                \/ (Waits /\ UNCHANGED brokerVars)

RecordsRace ==
    resetRaced' = IF handler = "resetBackoff" /\ handler' # "resetBackoff"
                  THEN pc = "store" ELSE resetRaced

\* As in MqttService.  initialize() goes on to its end; the broker reads what
\* arrives, and declares a connection dead that the node has left; esp-mqtt
\* misses its PINGRESP on one that the broker has closed.
PresenceFairness ==
    /\ WF_allVars(CreateTask /\ UNCHANGED brokerVars)
    /\ WF_allVars(ServiceTask /\ UNCHANGED brokerVars)
    /\ WF_allVars(Birth \/ BirthLost)
    /\ WF_allVars(EventHandler /\ handler # "birth" /\ UNCHANGED brokerVars)
    /\ WF_allVars((NotifyStart \/ RequestDisconnect) /\ UNCHANGED brokerVars)
    /\ WF_allVars(BeginReconnect /\ UNCHANGED brokerVars)
    /\ WF_allVars(SayGoodbye)
    /\ WF_allVars(client = "connecting"
                    /\ (CONNACK \/ CloseConnection
                        \/ (TransportError /\ UNCHANGED brokerVars)))
    /\ WF_allVars(handler = "aborting" /\ CloseConnection)
    /\ WF_allVars(client = "connected" /\ session = "closed" /\ CloseConnection)
    /\ WF_allVars(BrokerAccepts) /\ WF_allVars(accepted /\ ReadUplink)
    /\ WF_allVars(~accepted /\ KeepaliveExpires)

PresenceSpec == /\ PresenceInit
                /\ [][PresenceNext /\ RecordsRace]_<<allVars, resetRaced>>
                /\ PresenceFairness

----------------------------------------------------------------------------
(* Properties                                                              *)

\* A session starts with the initial backoff again, doubled at most once by the
\* cycle that brought it about: a delay in hand, a notification too many or a
\* write from an older cycle would send a node that just had its broker back
\* to a long wait.  Only a reset that falls between the read and the write of
\* the doubling is lost.
Renewed == client = "connected" /\ handler \notin {"connected", "resetBackoff"}

ResetLostOnlyByRace ==
    (Renewed /\ ~startRaced /\ ~resetRaced)
        => m_backoff_ms \in {InitialBackoff, NextBackoff(InitialBackoff)}

\* While the node is connected, and what it sent has been read, its status is
\* online: the will of an older connection, published as late as it may be,
\* never overwrites the birth message.
BirthOutlivesWill ==
    (/\ client = "connected" /\ session = "open" /\ uplink = << >>
     /\ handler \notin {"connected", "resetBackoff", "birth"} /\ ~birthFailed)
        => status = "online"

\* A node that vanished without a DISCONNECT packet is shown offline, unless
\* it comes back first.
VanishedShownOffline ==
    (client = "none" /\ session = "open"
        /\ \A i \in 1..Len(uplink) : uplink[i] # "disconnect")
    ~> (status = "offline" \/ client # "none")

\* What breaks a connection, besides the two sides themselves.
Failure == \/ PowerLoss \/ (SeesConnected /\ UNCHANGED brokerVars)
           \/ (TransportError /\ UNCHANGED brokerVars)
           \/ BirthLost \/ (SubscribeFails /\ Birth)
           \/ accepted /\ KeepaliveExpires
           \/ /\ CloseConnection /\ handler = "none"
              /\ ~(client = "connected" /\ session = "closed")

\* Once nothing breaks the connection any more, a node that has been started is
\* shown online in the end, whatever the failures have left behind: a stale
\* session with its will, a retry, a request to disconnect, a birth message that
\* was not written.  Only the race of start() with the first loop excuses it, and
\* a client that could not be started.
StableShownOnline ==
    <>[][~Failure]_allVars
        => <>[](status = "online" \/ ~m_started \/ startRaced \/ client = "dead")

----------------------------------------------------------------------------
(* What the comments of the code promise, and the code does not keep.      *)

\* "Disconnect explicitly so the broker publishes our Last Will now".
ClosedShownOffline == session = "closed" => status # "online"
=============================================================================
