------------------------------ MODULE Endpoint ------------------------------
(***************************************************************************)
(* The connection management of bee-network: the EndpointWorker with its   *)
(* contact list, connected list and outbox, the TcpWorker that accepts     *)
(* inbound connections, and for each TCP connection a reader and a writer  *)
(* task.                                                                   *)
(*                                                                         *)
(* The tasks talk to the EndpointWorker over one bounded event channel.    *)
(* The worker handles one command or event at a time, but it awaits the    *)
(* TCP connect, and its own sends on that same channel, in the middle of a *)
(* handler, and the other tasks run meanwhile.                             *)
(*                                                                         *)
(* An endpoint id is an address.  An inbound connection comes from an      *)
(* ephemeral port, so its id is never that of a contact.  Responders are   *)
(* left out, and published events are always taken.                        *)
(***************************************************************************)
EXTENDS Integers, Sequences

CONSTANTS
    Contact,      \* endpoints the client may add
    Inbound,      \* endpoints that may contact us
    Ip,           \* Ip[e]: the IP address of endpoint e
    Conn,         \* TCP connections; each is made once (bound)
    None,         \* no endpoint, no connection
    Capacity,     \* EVENT_CHANNEL_CAPACITY
    ByteCapacity, \* BYTES_CHANNEL_CAPACITY
    MaxCommands,  \* bound: commands handled
    MaxMessages   \* bound: messages received

Ep == Contact \union Inbound

ASSUME EndpointAssumption ==
    /\ None \notin Ep
    /\ None \notin Conn
    /\ Contact \intersect Inbound = {}
    /\ {"worker", "tcp", "timer"} \intersect Conn = {}
    /\ Capacity \in Nat
    /\ ByteCapacity \in Nat
    /\ MaxCommands \in Nat
    /\ MaxMessages \in Nat

VARIABLES
    contacts,   \* the contact list
    whitelist,  \* endpoints whose IP address is whitelisted
    connected,  \* the connected list
    outbox,     \* outbox[e]: the connection whose BytesSender it holds, or None
    events,     \* the internal event channel
    parked,     \* tasks whose send waits for room in it, first come first
    wpc,        \* where the EndpointWorker is
    wep,        \* the endpoint it connects or sends to, or None
    wto,        \* the endpoints it has still to send bytes to
    wconn,      \* the connection it is about to announce, or None
    tconn,      \* the same for the TcpWorker
    tpc,        \* whether the TcpWorker runs
    cep,        \* cep[c]: the remote endpoint of connection c, None before it exists
    writer,     \* writer[c]: where the writer task of c is, None if it does not run
    bytes,      \* bytes[c]: chunks in its channel
    reader,     \* reader[c]: whether the reader task of c runs
    closed,     \* connections the remote side has closed
    timers,     \* timers[e]: delayed TryConnect events under way
    down,       \* whether Shutdown::execute was called
    view,       \* view[e]: what the published events say of e
    cut,        \* endpoints that RemoveEndpoint cut off while they could be sent to,
                \* until the next event about them is published (history)
    wanted,     \* endpoints the client asked to be connected to (history)
    commands,   \* commands handled so far (bound)
    msgs        \* messages received so far (bound)

listVars == <<contacts, whitelist, connected, outbox>>
chanVars == <<events, parked>>
workerVars == <<wpc, wep, wto, wconn>>
tcpVars == <<tconn, tpc>>
connVars == <<cep, writer, bytes, reader, closed>>
clientVars == <<view, cut, wanted, commands>>
vars == <<listVars, chanVars, workerVars, tcpVars, connVars, timers, down,
          clientVars, msgs>>

Init ==
    /\ contacts = {}
    /\ whitelist = {}
    /\ connected = {}
    /\ outbox = [e \in Ep |-> None]
    /\ events = <<>>
    /\ parked = <<>>
    /\ wpc = "select"
    /\ wep = None
    /\ wto = {}
    /\ wconn = None
    /\ tconn = None
    /\ tpc = "accept"
    /\ cep = [c \in Conn |-> None]
    /\ writer = [c \in Conn |-> None]
    /\ bytes = [c \in Conn |-> 0]
    /\ reader = [c \in Conn |-> FALSE]
    /\ closed = {}
    /\ timers = [e \in Ep |-> 0]
    /\ down = FALSE
    /\ view = [e \in Ep |-> "down"]
    /\ cut = {}
    /\ wanted = {}
    /\ commands = 0
    /\ msgs = 0

-----------------------------------------------------------------------------
(* The event channel (futures mpsc).  A send over the capacity puts the    *)
(* event in the queue and parks the sending task; each receive lets the    *)
(* longest parked task go on.  It fails once the worker, which owns the    *)
(* receiver, is gone.                                                      *)

Event(type, e, c) == [type |-> type, ep |-> e, conn |-> c]

Queued(ev) == \E i \in 1..Len(events) : events[i] = ev

IsParked(t) == \E i \in 1..Len(parked) : parked[i] = t

Send(t, ev) ==
    IF wpc = "done"
    THEN UNCHANGED chanVars
    ELSE /\ events' = Append(events, ev)
         /\ parked' = IF Len(events) < Capacity THEN parked ELSE Append(parked, t)

Receive(type) ==
    /\ wpc = "select"
    /\ events # <<>>
    /\ Head(events).type = type
    /\ events' = Tail(events)
    /\ parked' = IF parked = <<>> THEN parked ELSE Tail(parked)

-----------------------------------------------------------------------------
(* Connections.                                                            *)

(* spawn_connection_workers, up to its announcement: both tasks run. *)
Spawn(c, e) ==
    /\ cep[c] = None
    /\ cep' = [cep EXCEPT ![c] = e]
    /\ writer' = [writer EXCEPT ![c] = "wait"]
    /\ reader' = [reader EXCEPT ![c] = TRUE]

(* Who holds the BytesSender of c: the task that announces it, the         *)
(* announcement, or the outbox.                                            *)
SenderHeld(c) ==
    \/ wconn = c
    \/ tconn = c
    \/ Queued(Event("NewConnection", cep[c], c))
    \/ outbox[cep[c]] = c

(* The writer takes the next chunk and awaits write_all, which returns     *)
(* when the remote side reads or the socket fails: both lead back to the   *)
(* loop, and a remote that does neither keeps the writer there.            *)
WriterTake(c) ==
    /\ writer[c] = "wait"
    /\ bytes[c] > 0
    /\ bytes' = [bytes EXCEPT ![c] = @ - 1]
    /\ writer' = [writer EXCEPT ![c] = "write"]
    /\ UNCHANGED <<listVars, chanVars, workerVars, tcpVars, cep, reader, closed,
                   timers, down, clientVars, msgs>>

WriteReturns(c) ==
    /\ writer[c] = "write"
    /\ writer' = [writer EXCEPT ![c] = "wait"]
    /\ UNCHANGED <<listVars, chanVars, workerVars, tcpVars, cep, bytes, reader, closed,
                   timers, down, clientVars, msgs>>

(* Its loop ends when the channel is empty and the last sender dropped,    *)
(* and tells the reader.                                                   *)
WriterEnd(c) ==
    /\ writer[c] = "wait"
    /\ bytes[c] = 0
    /\ ~SenderHeld(c)
    /\ writer' = [writer EXCEPT ![c] = None]
    /\ UNCHANGED <<listVars, chanVars, workerVars, tcpVars, cep, bytes, reader, closed,
                   timers, down, clientVars, msgs>>

(* The reader's select!: bytes, the end of the stream, or the writer. *)
ReadBytes(c) ==
    /\ reader[c]
    /\ ~IsParked(c)
    /\ c \notin closed
    /\ msgs < MaxMessages
    /\ msgs' = msgs + 1
    /\ Send(c, Event("MessageReceived", cep[c], None))
    /\ UNCHANGED <<listVars, workerVars, tcpVars, connVars, timers, down, clientVars>>

ReadEof(c) ==
    /\ reader[c]
    /\ ~IsParked(c)
    /\ c \in closed
    /\ Send(c, Event("LostConnection", cep[c], None))
    /\ reader' = [reader EXCEPT ![c] = FALSE]
    /\ UNCHANGED <<listVars, workerVars, tcpVars, cep, writer, bytes, closed, timers, down,
                   clientVars, msgs>>

(* Mutant: the reader does not listen to the writer's shutdown signal. *)
ReaderEndDeaf(c) == FALSE /\ UNCHANGED vars

ReaderEnd(c) ==
    /\ reader[c]
    /\ ~IsParked(c)
    /\ writer[c] = None
    /\ reader' = [reader EXCEPT ![c] = FALSE]
    /\ UNCHANGED <<listVars, chanVars, workerVars, tcpVars, cep, writer, bytes, closed,
                   timers, down, clientVars, msgs>>

RemoteClose(c) ==
    /\ reader[c]
    /\ c \notin closed
    /\ closed' = closed \union {c}
    /\ UNCHANGED <<listVars, chanVars, workerVars, tcpVars, cep, writer, bytes, reader,
                   timers, down, clientVars, msgs>>

-----------------------------------------------------------------------------
(* TcpWorker.                                                              *)

(* An inbound stream whose IP address is whitelisted; the stream is        *)
(* dropped otherwise.                                                      *)
Accept(c, e) ==
    /\ tpc = "accept"
    /\ tconn = None
    /\ ~IsParked("tcp")
    /\ ~down
    /\ \E f \in whitelist : Ip[f] = Ip[e]
    /\ Spawn(c, e)
    /\ tconn' = c
    /\ UNCHANGED <<listVars, chanVars, workerVars, tpc, bytes, closed, timers, down,
                   clientVars, msgs>>

TcpAnnounce ==
    /\ tconn # None
    /\ Send("tcp", Event("NewConnection", cep[tconn], tconn))
    /\ tconn' = None
    /\ UNCHANGED <<listVars, workerVars, tpc, connVars, timers, down, clientVars, msgs>>

-----------------------------------------------------------------------------
(* try_connect.  The worker is at "connect" while TcpStream::connect is    *)
(* awaited, at "announce" between the spawns and the send of               *)
(* NewConnection, and at "flush" until a send on the channel completes.    *)

(* The attempt starts if e is a contact and not in the connected list. *)
TryConnect(e, conn) ==
    IF e \in contacts /\ e \notin conn
    THEN wpc' = "connect" /\ wep' = e
    ELSE UNCHANGED <<wpc, wep>>

ConnectOk(c) ==
    /\ wpc = "connect"
    /\ Spawn(c, wep)
    /\ wconn' = c
    /\ wpc' = "announce"
    /\ UNCHANGED <<listVars, chanVars, wep, wto, tcpVars, bytes, closed, timers, down,
                   clientVars, msgs>>

(* Mutant: a failed attempt is not repeated. *)
ConnectFailedForGood ==
    /\ wpc = "connect"
    /\ wpc' = "select"
    /\ wep' = None
    /\ UNCHANGED <<listVars, chanVars, wto, wconn, tcpVars, connVars, timers, down,
                   clientVars, msgs>>

(* A failed attempt spawns raise_event_after_delay. *)
ConnectFailed ==
    /\ wpc = "connect"
    /\ timers' = [timers EXCEPT ![wep] = @ + 1]
    /\ wpc' = "select"
    /\ wep' = None
    /\ UNCHANGED <<listVars, chanVars, wto, wconn, tcpVars, connVars, down, clientVars, msgs>>

Announce ==
    /\ wpc = "announce"
    /\ Send("worker", Event("NewConnection", wep, wconn))
    /\ wconn' = None
    /\ wpc' = "flush"
    /\ UNCHANGED <<listVars, wep, wto, tcpVars, connVars, timers, down, clientVars, msgs>>

(* The send is complete.  After NewConnection the endpoint is put on the   *)
(* connected list; after EndpointAdded or EndpointRemoved (wep = None)     *)
(* there is nothing left to do.                                            *)
Flushed ==
    /\ wpc = "flush"
    /\ ~IsParked("worker")
    /\ connected' = connected \union ({wep} \ {None})
    /\ wpc' = "select"
    /\ wep' = None
    /\ UNCHANGED <<contacts, whitelist, outbox, chanVars, wto, wconn, tcpVars, connVars,
                   timers, down, clientVars, msgs>>

(* Mutant: the event is raised whether or not an attempt has failed. *)
TimerFiresUnasked(e) ==
    /\ timers' = [timers EXCEPT ![e] = @ - 1]
    /\ Send("timer", Event("TryConnect", e, None))
    /\ UNCHANGED <<listVars, workerVars, tcpVars, connVars, down, clientVars, msgs>>

(* raise_event_after_delay: the delay is over. *)
TimerFires(e) ==
    /\ timers[e] > 0
    /\ timers' = [timers EXCEPT ![e] = @ - 1]
    /\ Send("timer", Event("TryConnect", e, None))
    /\ UNCHANGED <<listVars, workerVars, tcpVars, connVars, down, clientVars, msgs>>

-----------------------------------------------------------------------------
(* Commands of the client.                                                 *)

Command ==
    /\ wpc = "select"
    /\ commands < MaxCommands
    /\ commands' = commands + 1

(* An endpoint that is in the list already is not added again. *)
AddEndpoint(e) ==
    /\ Command
    /\ ~down
    /\ e \notin contacts
    /\ contacts' = contacts \union {e}
    /\ whitelist' = whitelist \union {e}
    /\ Send("worker", Event("EndpointAdded", e, None))
    /\ wpc' = "flush"
    /\ UNCHANGED <<connected, outbox, wep, wto, wconn, tcpVars, connVars, timers, down,
                   view, cut, wanted, msgs>>

(* A removal that finds neither a contact nor a connection changes nothing. *)
(* Only EndpointRemoved is published, of a connected endpoint too.          *)
RemoveEndpoint(e) ==
    /\ Command
    /\ ~down
    /\ e \in contacts \union connected
    /\ contacts' = contacts \ {e}
    /\ whitelist' = whitelist \ {e}
    /\ connected' = connected \ {e}
    /\ outbox' = [outbox EXCEPT ![e] = None]
    /\ cut' = IF outbox[e] = None THEN cut ELSE cut \union {e}
    /\ wanted' = wanted \ {e}
    /\ Send("worker", Event("EndpointRemoved", e, None))
    /\ wpc' = "flush"
    /\ UNCHANGED <<wep, wto, wconn, tcpVars, connVars, timers, down, view, msgs>>

Connect(e) ==
    /\ Command
    /\ e \in contacts
    /\ TryConnect(e, connected)
    /\ wanted' = wanted \union {e}
    /\ UNCHANGED <<listVars, chanVars, wto, wconn, tcpVars, connVars, timers, down, view, cut,
                   msgs>>

(* Mutant: the endpoint stays on the connected list. *)
DropConnectionListed(e) ==
    /\ UNCHANGED connected
    /\ outbox' = [outbox EXCEPT ![e] = None]
    /\ IF e \in connected
       THEN view' = [view EXCEPT ![e] = "down"] /\ cut' = cut \ {e}
       ELSE UNCHANGED <<view, cut>>

(* disconnect, and EndpointDisconnected if e was on the connected list. *)
DropConnection(e) ==
    /\ connected' = connected \ {e}
    /\ outbox' = [outbox EXCEPT ![e] = None]
    /\ IF e \in connected
       THEN view' = [view EXCEPT ![e] = "down"] /\ cut' = cut \ {e}
       ELSE UNCHANGED <<view, cut>>

Disconnect(e) ==
    /\ Command
    /\ DropConnection(e)
    /\ wanted' = wanted \ {e}
    /\ UNCHANGED <<contacts, whitelist, chanVars, workerVars, tcpVars, connVars, timers,
                   down, msgs>>

(* SendMessage, MulticastMessage and BroadcastMessage: the outbox awaits    *)
(* the channels of the recipients it knows one after the other, in the     *)
(* order of its hash map.                                                  *)
SendBytes(recipients) ==
    /\ Command
    /\ wto' = {e \in recipients : outbox[e] # None}
    /\ wpc' = "send"
    /\ UNCHANGED <<listVars, chanVars, wep, wconn, tcpVars, connVars, timers, down, view, cut,
                   wanted, msgs>>

(* The next chunk is queued; a send over the capacity waits for the writer. *)
PushBytes(e) ==
    /\ wpc = "send"
    /\ wep = None
    /\ e \in wto
    /\ bytes' = [bytes EXCEPT ![outbox[e]] = @ + 1]
    /\ wep' = e
    /\ wto' = wto \ {e}
    /\ UNCHANGED <<listVars, chanVars, wpc, wconn, tcpVars, cep, writer, reader, closed,
                   timers, down, clientVars, msgs>>

PushedBytes ==
    /\ wpc = "send"
    /\ IF wep = None THEN wto = {} ELSE bytes[outbox[wep]] <= ByteCapacity
    /\ wep' = None
    /\ wpc' = IF wto = {} THEN "select" ELSE "send"
    /\ UNCHANGED <<listVars, chanVars, wto, wconn, tcpVars, connVars, timers, down,
                   clientVars, msgs>>

-----------------------------------------------------------------------------
(* Events.                                                                 *)

(* EndpointAdded, EndpointRemoved and MessageReceived are only published. *)
Publish ==
    /\ \E type \in {"EndpointAdded", "EndpointRemoved", "MessageReceived"} : Receive(type)
    /\ UNCHANGED <<listVars, workerVars, tcpVars, connVars, timers, down, clientVars, msgs>>

(* Mutant: the connected list is left to try_connect. *)
NewConnectionUnlisted ==
    /\ Receive("NewConnection")
    /\ LET e == Head(events).ep IN
       /\ outbox' = [outbox EXCEPT ![e] = IF @ = None THEN Head(events).conn ELSE @]
       /\ view' = [view EXCEPT ![e] = "up"]
       /\ cut' = cut \ {e}
    /\ UNCHANGED <<contacts, whitelist, connected, workerVars, tcpVars, connVars, timers,
                   down, wanted, commands, msgs>>

(* Both inserts keep an entry that is there; the sender that comes second  *)
(* is dropped.  EndpointConnected is published in any case.                *)
NewConnection ==
    /\ Receive("NewConnection")
    /\ LET e == Head(events).ep IN
       /\ outbox' = [outbox EXCEPT ![e] = IF @ = None THEN Head(events).conn ELSE @]
       /\ connected' = connected \union {e}
       /\ view' = [view EXCEPT ![e] = "up"]
       /\ cut' = cut \ {e}
    /\ UNCHANGED <<contacts, whitelist, workerVars, tcpVars, connVars, timers, down,
                   wanted, commands, msgs>>

LostConnection ==
    /\ Receive("LostConnection")
    /\ DropConnection(Head(events).ep)
    /\ TryConnect(Head(events).ep, {})
    /\ UNCHANGED <<contacts, whitelist, wto, wconn, tcpVars, connVars, timers, down, wanted,
                   commands, msgs>>

RetryConnect ==
    /\ Receive("TryConnect")
    /\ TryConnect(Head(events).ep, connected)
    /\ UNCHANGED <<listVars, wto, wconn, tcpVars, connVars, timers, down, clientVars, msgs>>

-----------------------------------------------------------------------------
(* Shutdown::execute drops the whitelist, then signals both workers.  A    *)
(* worker that asks for the whitelist in between panics, which stops it    *)
(* just the same.                                                          *)

Execute ==
    /\ ~down
    /\ down' = TRUE
    /\ whitelist' = {}
    /\ UNCHANGED <<contacts, connected, outbox, chanVars, workerVars, tcpVars, connVars,
                   timers, clientVars, msgs>>

(* The lists, the outbox and the event queue are dropped with the worker. *)
WorkerStop ==
    /\ down
    /\ wpc = "select"
    /\ wpc' = "done"
    /\ contacts' = {}
    /\ connected' = {}
    /\ outbox' = [e \in Ep |-> None]
    /\ events' = <<>>
    /\ parked' = <<>>
    /\ view' = [e \in Ep |-> "down"]
    /\ cut' = {}
    /\ wanted' = {}
    /\ UNCHANGED <<whitelist, wep, wto, wconn, tcpVars, connVars, timers, down, commands, msgs>>

TcpStop ==
    /\ down
    /\ tpc = "accept"
    /\ tconn = None
    /\ ~IsParked("tcp")
    /\ tpc' = "done"
    /\ UNCHANGED <<listVars, chanVars, workerVars, tconn, connVars, timers, down,
                   clientVars, msgs>>

-----------------------------------------------------------------------------

ReaderStep(c) == ReadBytes(c) \/ ReadEof(c) \/ ReaderEnd(c)

HandleCommand ==
    \/ \E e \in Contact : AddEndpoint(e) \/ Connect(e)
    \/ \E e \in Ep : RemoveEndpoint(e) \/ Disconnect(e)
    \/ \E recipients \in SUBSET Ep : SendBytes(recipients)

HandleEvent == Publish \/ NewConnection \/ LostConnection \/ RetryConnect

Sending == (\E e \in Ep : PushBytes(e)) \/ PushedBytes

WriterStep(c) == WriterTake(c) \/ WriterEnd(c)

Connecting == (\E c \in Conn : ConnectOk(c)) \/ ConnectFailed \/ Announce \/ Flushed

Next ==
    \/ \E c \in Conn : WriterStep(c) \/ WriteReturns(c) \/ ReaderStep(c) \/ RemoteClose(c)
    \/ \E c \in Conn, e \in Inbound : Accept(c, e)
    \/ TcpAnnounce
    \/ Connecting
    \/ \E e \in Contact : TimerFires(e)
    \/ HandleCommand
    \/ Sending
    \/ HandleEvent
    \/ Execute
    \/ WorkerStop
    \/ TcpStop

(* Every task that can go on does: connects return, timers fire, the       *)
(* worker's select! takes events and the shutdown signal.  Clients need    *)
(* not send commands and remotes need not connect, close or read.          *)
Fairness ==
    /\ \A c \in Conn : WF_vars(WriterStep(c)) /\ WF_vars(ReaderStep(c))
    /\ \A e \in Contact : WF_vars(TimerFires(e))
    /\ WF_vars(TcpAnnounce)
    /\ WF_vars(Connecting)
    /\ WF_vars(Sending)
    /\ WF_vars(HandleEvent)
    /\ SF_vars(WorkerStop)
    /\ WF_vars(TcpStop)

Spec == Init /\ [][Next]_vars
FairSpec == Spec /\ Fairness

-----------------------------------------------------------------------------
(* Properties.                                                             *)

EventType == {"EndpointAdded", "EndpointRemoved", "NewConnection", "LostConnection",
              "MessageReceived", "TryConnect"}

(* All lists, queues and program counters are in range. *)
TypeOK ==
    /\ contacts \subseteq Contact
    /\ whitelist \subseteq Contact
    /\ connected \subseteq Ep
    /\ outbox \in [Ep -> Conn \union {None}]
    /\ events \in Seq([type : EventType, ep : Ep, conn : Conn \union {None}])
    /\ parked \in Seq({"worker", "tcp", "timer"} \union Conn)
    /\ wpc \in {"select", "connect", "announce", "flush", "send", "done"}
    /\ wep \in Ep \union {None}
    /\ wto \subseteq Ep
    /\ wconn \in Conn \union {None}
    /\ tconn \in Conn \union {None}
    /\ tpc \in {"accept", "done"}
    /\ cep \in [Conn -> Ep \union {None}]
    /\ writer \in [Conn -> {"wait", "write", None}]
    /\ bytes \in [Conn -> Nat]
    /\ reader \in [Conn -> BOOLEAN]
    /\ closed \subseteq Conn
    /\ timers \in [Ep -> Nat]
    /\ down \in BOOLEAN
    /\ view \in [Ep -> {"up", "down"}]
    /\ cut \subseteq Ep
    /\ wanted \subseteq Contact
    /\ commands \in Nat
    /\ msgs \in Nat

(* The published events follow the outbox, however announcements, losses,  *)
(* commands and retries of old and new connections interleave: an endpoint *)
(* it can reach was announced by EndpointConnected, and one it cannot      *)
(* reach any more by EndpointDisconnected, "a connection to an Endpoint    *)
(* has been dropped" (events.rs:78).  Of endpoints that RemoveEndpoint cut *)
(* off the second half is not claimed: worker.rs:261 publishes nothing of  *)
(* the kind for them.                                                      *)
ViewMatchesOutbox ==
    \A e \in Ep :
        /\ outbox[e] # None => view[e] = "up" /\ e \notin cut
        /\ view[e] = "up" => outbox[e] # None \/ e \in cut

(* try_connect puts an endpoint on the connected list while its sender is  *)
(* still in the event queue.  No connected endpoint is without both: its   *)
(* sender is in the outbox or on the way there.                            *)
SenderOnTheWay ==
    \A e \in connected :
        outbox[e] # None \/ \E c \in Conn : Queued(Event("NewConnection", e, c))

(* The worker is trying to connect to e. *)
Attempting(e) == wpc \in {"connect", "announce", "flush"} /\ wep = e

(* A contact the client asked to connect to is never forgotten: it is      *)
(* connected, or an attempt, a retry timer or a TryConnect event exists.   *)
NeverAbandoned ==
    \A e \in wanted :
        /\ e \in contacts
        /\ \/ e \in connected
           \/ Attempting(e)
           \/ timers[e] > 0
           \/ Queued(Event("TryConnect", e, None))

(* No writer stays in write_all for ever: what the liveness properties     *)
(* need of the remote sides.                                               *)
WritesReturn == \A c \in Conn : []<>(writer[c] # "write")

(* And the retries do come: again and again, such a contact is connected   *)
(* or attempted (CONNECT_INTERVAL, raise_event_after_delay), unless a      *)
(* remote that does not read stops the worker in the middle of a send.     *)
KeepsTrying ==
    WritesReturn =>
        \A e \in Contact : []<>(e \in wanted => e \in connected \/ Attempting(e))

(* "Releasing the channel sender half will cause the writer task to end"   *)
(* (outbox.rs:54), and the writer ends the reader: no task outlives its    *)
(* connection's sender, be it replaced, disconnected, removed, refused by  *)
(* the outbox or dropped by the shutdown, unless a write on that very      *)
(* connection never returns.                                               *)
DroppedSenderEnds ==
    \A c \in Conn :
        []<>(writer[c] # "write") =>
            ((cep[c] # None /\ ~SenderHeld(c)) ~> (writer[c] = None /\ ~reader[c]))

(* "drop connections once the contact is removed" (worker.rs:268). *)
RemovedContactDropped == \A e \in Contact \ contacts : outbox[e] = None

(* "Signals that a connection to an `Endpoint` has been dropped"           *)
(* (events.rs:78): a connection that the remote side closed does not stay  *)
(* in the outbox for ever.                                                 *)
LossIsNoticed ==
    \A c \in Conn : \A e \in Ep : (c \in closed /\ outbox[e] = c) ~> outbox[e] # c

=============================================================================
