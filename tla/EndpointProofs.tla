--------------------------- MODULE EndpointProofs ---------------------------
(***************************************************************************)
(* Proofs about Endpoint, for any contacts, inbound endpoints, number of   *)
(* connections and capacity of the event channel.                          *)
(***************************************************************************)
EXTENDS Endpoint, DataLemmas, TLAPS

-----------------------------------------------------------------------------
(* The event channel.                                                      *)

EventSet == [type : EventType, ep : Ep, conn : Conn \union {None}]
Task == {"worker", "tcp", "timer"} \union Conn

ChanOK == events \in Seq(EventSet) /\ parked \in Seq(Task)

LEMMA EventParts ==
  ASSUME NEW ev \in EventSet
  PROVE  /\ ev.type \in EventType /\ ev.ep \in Ep /\ ev.conn \in Conn \union {None}
         /\ ev = Event(ev.type, ev.ep, ev.conn)
BY DEF EventSet, Event

LEMMA EventIn ==
  ASSUME NEW type \in EventType, NEW e \in Ep, NEW c \in Conn \union {None}
  PROVE  /\ Event(type, e, c) \in EventSet
         /\ Event(type, e, c).type = type
         /\ Event(type, e, c).ep = e
         /\ Event(type, e, c).conn = c
BY DEF EventSet, Event

(* A send adds its event, or changes nothing once the worker is gone. *)
LEMMA SendAdds ==
  ASSUME ChanOK, NEW t \in Task, NEW ev \in EventSet, Send(t, ev)
  PROVE  /\ ChanOK'
         /\ \A x : Queued(x) => Queued(x)'
         /\ \A x : Queued(x)' => Queued(x) \/ x = ev
         /\ wpc # "done" => Queued(ev)'
<1>1. CASE wpc = "done"
  BY <1>1 DEF Send, chanVars, Queued, ChanOK
<1>2. CASE wpc # "done"
  <2>1. events' = Append(events, ev) /\ parked' \in {parked, Append(parked, t)}
    BY <1>2 DEF Send
  <2>2. ChanOK'
    BY <2>1 DEF ChanOK
  <2>3. \A x : InSeq(x, Append(events, ev)) <=> InSeq(x, events) \/ x = ev
    BY AppendHas DEF ChanOK
  <2>4. \A x : InSeq(x, events') <=> InSeq(x, events) \/ x = ev
    BY <2>1, <2>3
  <2> QED BY <2>2, <2>4 DEF InSeq, Queued
<1> QED BY <1>1, <1>2

(* A receive takes the first event out. *)
LEMMA ReceiveTakes ==
  ASSUME ChanOK, NEW type, Receive(type)
  PROVE  /\ ChanOK'
         /\ Head(events) \in EventSet
         /\ Head(events).type = type
         /\ Head(events) = Event(type, Head(events).ep, Head(events).conn)
         /\ Queued(Head(events))
         /\ \A x : Queued(x)' => Queued(x)
         /\ \A x : Queued(x) => Queued(x)' \/ x = Head(events)
<1>1. events \in Seq(EventSet) /\ events # <<>> /\ events' = Tail(events)
  BY DEF Receive, ChanOK
<1>2. ChanOK'
  <2>1. Tail(events) \in Seq(EventSet)
    BY <1>1
  <2>2. parked' \in Seq(Task)
    BY DEF Receive, ChanOK
  <2> QED BY <1>1, <2>1, <2>2 DEF ChanOK
<1>3. Head(events) \in EventSet
  BY <1>1
<1>4. Head(events).type = type
  BY DEF Receive
<1>5. \A x : InSeq(x, events) <=> x = Head(events) \/ InSeq(x, Tail(events))
  BY <1>1, HeadTailHas
<1>6. \A x : InSeq(x, events) <=> x = Head(events) \/ InSeq(x, events')
  BY <1>1, <1>5
<1> QED BY <1>2, <1>3, <1>4, <1>6, EventParts DEF InSeq, Queued

-----------------------------------------------------------------------------
(* Types.                                                                  *)

(* The worker knows the endpoint it connects to and the connection it      *)
(* announces; between handlers it holds neither.                           *)
WorkerHolds ==
  /\ wpc \in {"connect", "announce"} => wep \in Contact
  /\ wpc = "announce" => wconn \in Conn
  /\ wpc = "select" => wep = None

(* A connection that is announced or read from has a remote endpoint. *)
ConnKnown ==
  /\ tconn # None => cep[tconn] \in Ep
  /\ \A c \in Conn : reader[c] => cep[c] \in Ep

(* An announcement carries a sender. *)
NewHasConn == \A e \in Ep : ~Queued(Event("NewConnection", e, None))

TypeInv == TypeOK /\ WorkerHolds /\ ConnKnown /\ NewHasConn

(* TypeOK but for the channel. *)
RestOK ==
    /\ contacts \subseteq Contact
    /\ whitelist \subseteq Contact
    /\ connected \subseteq Ep
    /\ outbox \in [Ep -> Conn \union {None}]
    /\ wpc \in {"select", "connect", "announce", "flush", "send", "done"}
    /\ wep \in Ep \union {None}
    /\ wto \subseteq Ep
    /\ wconn \in Conn \union {None}
    /\ tconn \in Conn \union {None}
    /\ tpc \in {"accept", "done"}
    /\ cep \in [Conn -> Ep \union {None}]
    /\ writer \in [Conn -> {"wait", "write", None}]
    /\ bytes \in [Conn -> Nat]
    /\ reader \in [Conn -> BOOLEAN]
    /\ closed \subseteq Conn
    /\ timers \in [Ep -> Nat]
    /\ down \in BOOLEAN
    /\ view \in [Ep -> {"up", "down"}]
    /\ cut \subseteq Ep
    /\ wanted \subseteq Contact
    /\ commands \in Nat
    /\ msgs \in Nat

LEMMA TypeSplit == TypeOK <=> ChanOK /\ RestOK
BY DEF TypeOK, ChanOK, RestOK, EventSet, Task

LEMMA TypeSplitNext == TypeOK' <=> ChanOK' /\ RestOK'
BY DEF TypeOK, ChanOK, RestOK, EventSet, Task

LEMMA InitType == Init => TypeInv
<1> SUFFICES ASSUME Init PROVE TypeInv
  OBVIOUS
<1> USE EndpointAssumption DEF Init
<1>1. ChanOK
  BY DEF ChanOK
<1>4. outbox \in [Ep -> Conn \union {None}] /\ timers \in [Ep -> Nat]
  OBVIOUS
<1>5. view \in [Ep -> {"up", "down"}]
  OBVIOUS
<1>6. /\ cep \in [Conn -> Ep \union {None}]
      /\ writer \in [Conn -> {"wait", "write", None}]
      /\ bytes \in [Conn -> Nat]
      /\ reader \in [Conn -> BOOLEAN]
  OBVIOUS
<1>7. RestOK
  BY <1>4, <1>5, <1>6 DEF RestOK
<1>2. WorkerHolds /\ ConnKnown
  BY DEF WorkerHolds, ConnKnown
<1>3. NewHasConn
  BY DEF NewHasConn, Queued
<1> QED BY <1>1, <1>2, <1>3, <1>7, TypeSplit DEF TypeInv

LEMMA NextType == TypeInv /\ [Next]_vars => TypeInv'
<1> SUFFICES ASSUME TypeInv, [Next]_vars PROVE TypeInv'
  OBVIOUS
<1>0. ChanOK /\ RestOK /\ WorkerHolds /\ ConnKnown /\ NewHasConn
  BY TypeSplit DEF TypeInv
<1> SUFFICES ChanOK' /\ RestOK' /\ WorkerHolds' /\ ConnKnown' /\ NewHasConn'
  BY TypeSplitNext DEF TypeInv
<1> DEFINE Goal == ChanOK' /\ RestOK' /\ WorkerHolds' /\ ConnKnown' /\ NewHasConn'
<1>same. ASSUME UNCHANGED chanVars PROVE ChanOK' /\ NewHasConn'
  BY <1>0, <1>same DEF ChanOK, NewHasConn, Queued, chanVars
<1>recv. ASSUME NEW type, Receive(type)
         PROVE  ChanOK' /\ NewHasConn' /\ Head(events).ep \in Ep
  BY <1>0, <1>recv, ReceiveTakes, EventParts DEF NewHasConn
<1>send. ASSUME NEW t \in Task, NEW type \in EventType, NEW e \in Ep,
                NEW c \in Conn \union {None}, type = "NewConnection" => c # None,
                Send(t, Event(type, e, c))
         PROVE  ChanOK' /\ NewHasConn'
  <2>1. Event(type, e, c) \in EventSet
    BY EventIn
  <2>2. ChanOK' /\ \A x : Queued(x)' => Queued(x) \/ x = Event(type, e, c)
    BY <1>0, <1>send, <2>1, SendAdds
  <2>3. \A f \in Ep : Event("NewConnection", f, None) # Event(type, e, c)
    BY <1>send DEF Event
  <2> QED BY <1>0, <2>2, <2>3 DEF NewHasConn
<1> USE EndpointAssumption DEF RestOK, WorkerHolds, ConnKnown
<1> USE DEF listVars, chanVars, workerVars, tcpVars, connVars, clientVars
<1>1. ASSUME NEW c \in Conn, WriterStep(c) \/ WriteReturns(c) PROVE Goal
  BY <1>0, <1>1, <1>same DEF WriterStep, WriterTake, WriterEnd, WriteReturns
<1>2. ASSUME NEW c \in Conn, ReadBytes(c) PROVE Goal
  <2>1. ChanOK' /\ NewHasConn'
    BY <1>0, <1>2, <1>send DEF ReadBytes, EventType, Task
  <2> QED BY <1>0, <1>2, <2>1 DEF ReadBytes
<1>3. ASSUME NEW c \in Conn, ReadEof(c) PROVE Goal
  <2>1. ChanOK' /\ NewHasConn'
    BY <1>0, <1>3, <1>send DEF ReadEof, EventType, Task
  <2> QED BY <1>0, <1>3, <2>1 DEF ReadEof
<1>4. ASSUME NEW c \in Conn, ReaderEnd(c) PROVE Goal
  BY <1>0, <1>4, <1>same DEF ReaderEnd
<1>5. ASSUME NEW c \in Conn, RemoteClose(c) PROVE Goal
  BY <1>0, <1>5, <1>same DEF RemoteClose
<1>6. ASSUME NEW c \in Conn, NEW e \in Inbound, Accept(c, e) PROVE Goal
  BY <1>0, <1>6, <1>same DEF Accept, Spawn, Ep
<1>7. CASE TcpAnnounce
  <2>1. ChanOK' /\ NewHasConn'
    BY <1>0, <1>7, <1>send DEF TcpAnnounce, EventType, Task
  <2> QED BY <1>0, <1>7, <2>1 DEF TcpAnnounce
<1>8. ASSUME NEW c \in Conn, ConnectOk(c) PROVE Goal
  BY <1>0, <1>8, <1>same DEF ConnectOk, Spawn, Ep
<1>9. CASE ConnectFailed
  BY <1>0, <1>9, <1>same DEF ConnectFailed, Ep
<1>10. CASE Announce
  <2>1. ChanOK' /\ NewHasConn'
    BY <1>0, <1>10, <1>send DEF Announce, EventType, Task, Ep
  <2> QED BY <1>0, <1>10, <2>1 DEF Announce
<1>11. CASE Flushed
  BY <1>0, <1>11, <1>same DEF Flushed, Ep
<1>12. ASSUME NEW e \in Contact, TimerFires(e) PROVE Goal
  <2>1. ChanOK' /\ NewHasConn'
    BY <1>0, <1>12, <1>send DEF TimerFires, EventType, Task, Ep
  <2> QED BY <1>0, <1>12, <2>1 DEF TimerFires, Ep
<1>13. ASSUME NEW e \in Contact, AddEndpoint(e) PROVE Goal
  <2>1. ChanOK' /\ NewHasConn'
    BY <1>0, <1>13, <1>send DEF AddEndpoint, EventType, Task, Ep
  <2> QED BY <1>0, <1>13, <2>1 DEF AddEndpoint, Command
<1>14. ASSUME NEW e \in Contact, Connect(e) PROVE Goal
  BY <1>0, <1>14, <1>same DEF Connect, Command, TryConnect, Ep
<1>15. ASSUME NEW e \in Ep, RemoveEndpoint(e) PROVE Goal
  <2>1. ChanOK' /\ NewHasConn'
    BY <1>0, <1>15, <1>send DEF RemoveEndpoint, EventType, Task
  <2> QED BY <1>0, <1>15, <2>1 DEF RemoveEndpoint, Command
<1>16. ASSUME NEW e \in Ep, Disconnect(e) PROVE Goal
  BY <1>0, <1>16, <1>same DEF Disconnect, Command, DropConnection
<1>17. CASE Publish
  BY <1>0, <1>17, <1>recv DEF Publish
<1>18. CASE NewConnection
  <2>1. ChanOK' /\ NewHasConn' /\ Head(events).ep \in Ep
    BY <1>18, <1>recv DEF NewConnection
  <2>2. Head(events).conn \in Conn \union {None}
    BY <1>0, <1>18, ReceiveTakes, EventParts DEF NewConnection
  <2> QED BY <1>0, <1>18, <2>1, <2>2 DEF NewConnection
<1>19. CASE LostConnection
  <2>1. ChanOK' /\ NewHasConn' /\ Head(events).ep \in Ep
    BY <1>19, <1>recv DEF LostConnection
  <2> QED BY <1>0, <1>19, <2>1 DEF LostConnection, DropConnection, TryConnect
<1>20. CASE RetryConnect
  <2>1. ChanOK' /\ NewHasConn' /\ Head(events).ep \in Ep
    BY <1>20, <1>recv DEF RetryConnect
  <2> QED BY <1>0, <1>20, <2>1 DEF RetryConnect, TryConnect
<1>21. CASE Execute
  BY <1>0, <1>21, <1>same DEF Execute
<1>22. CASE WorkerStop
  <2>1. ChanOK' /\ NewHasConn'
    BY <1>22 DEF WorkerStop, ChanOK, NewHasConn, Queued
  <2> QED BY <1>0, <1>22, <2>1 DEF WorkerStop
<1>23. CASE TcpStop
  BY <1>0, <1>23, <1>same DEF TcpStop
<1>24. ASSUME NEW recipients \in SUBSET Ep, SendBytes(recipients) PROVE Goal
  BY <1>0, <1>24, <1>same DEF SendBytes, Command
<1>25. ASSUME NEW e \in Ep, PushBytes(e) PROVE Goal
  <2>1. bytes \in [Conn -> Nat] /\ \A c \in Conn : bytes[c] + 1 \in Nat
    BY <1>0
  <2>2. bytes' = [bytes EXCEPT ![outbox[e]] = bytes[outbox[e]] + 1]
    BY <1>25 DEF PushBytes
  <2>3. bytes' \in [Conn -> Nat]
    BY <2>1, <2>2
  <2> QED BY <1>0, <1>25, <2>3, <1>same DEF PushBytes
<1>26. CASE PushedBytes
  BY <1>0, <1>26, <1>same DEF PushedBytes
<1>27. CASE UNCHANGED vars
  BY <1>0, <1>27, <1>same DEF vars
<1> HIDE DEF RestOK, WorkerHolds, ConnKnown
<1> QED
  BY <1>1, <1>2, <1>3, <1>4, <1>5, <1>6, <1>7, <1>8, <1>9, <1>10, <1>11, <1>12,
     <1>13, <1>14, <1>15, <1>16, <1>17, <1>18, <1>19, <1>20, <1>21, <1>22, <1>23, <1>24,
     <1>25, <1>26, <1>27
  DEF Next, ReaderStep, Connecting, HandleCommand, Sending, HandleEvent

(* Every reachable state of the network layer is well-typed, whatever the  *)
(* interleaving of commands, events, connection tasks and shutdown.        *)
THEOREM TypeCorrect == Spec => []TypeOK
<1>1. TypeInv => TypeOK
  BY DEF TypeInv
<1> QED BY <1>1, InitType, NextType, PTL DEF Spec

-----------------------------------------------------------------------------
(* The client's view.                                                      *)

(* What can be sent to is on the connected list, so `disconnect` never     *)
(* drops a sender without reporting it.                                    *)
OutboxConnected == \A e \in Ep : outbox[e] # None => e \in connected

ViewInv == ViewMatchesOutbox /\ OutboxConnected

LEMMA InitView == Init => ViewInv
BY DEF Init, ViewInv, ViewMatchesOutbox, OutboxConnected

LEMMA NextView == TypeInv /\ ViewInv /\ [Next]_vars => ViewInv'
<1> SUFFICES ASSUME TypeInv, ViewInv, [Next]_vars PROVE ViewInv'
  OBVIOUS
<1>0. ChanOK /\ RestOK /\ NewHasConn
  BY TypeSplit DEF TypeInv
<1> USE EndpointAssumption DEF ViewInv, ViewMatchesOutbox, OutboxConnected
<1> USE DEF listVars, clientVars
<1>1. ASSUME NEW e \in Ep, DropConnection(e) PROVE ViewInv'
  BY <1>0, <1>1 DEF DropConnection, RestOK
<1>2. ASSUME UNCHANGED <<outbox, view, cut>>, connected \subseteq connected' PROVE ViewInv'
  BY <1>2
<1>3. ASSUME NEW c \in Conn,
             WriterStep(c) \/ WriteReturns(c) \/ ReaderStep(c) \/ RemoteClose(c)
      PROVE  ViewInv'
  BY <1>2, <1>3 DEF WriterStep, WriterTake, WriterEnd, WriteReturns, ReaderStep, ReadBytes,
     ReadEof, ReaderEnd, RemoteClose
<1>4. ASSUME NEW c \in Conn, NEW e \in Inbound, Accept(c, e) PROVE ViewInv'
  BY <1>2, <1>4 DEF Accept
<1>5. CASE TcpAnnounce
  BY <1>2, <1>5 DEF TcpAnnounce
<1>6. CASE Connecting
  BY <1>2, <1>6 DEF Connecting, ConnectOk, ConnectFailed, Announce, Flushed
<1>7. ASSUME NEW e \in Contact, TimerFires(e) PROVE ViewInv'
  BY <1>2, <1>7 DEF TimerFires
<1>8. ASSUME NEW e \in Contact, AddEndpoint(e) \/ Connect(e) PROVE ViewInv'
  BY <1>2, <1>8 DEF AddEndpoint, Connect
<1>9. ASSUME NEW e \in Ep, RemoveEndpoint(e) PROVE ViewInv'
  BY <1>0, <1>9 DEF RemoveEndpoint, RestOK
<1>10. ASSUME NEW e \in Ep, Disconnect(e) PROVE ViewInv'
  BY <1>1, <1>10 DEF Disconnect
<1>11. CASE Publish
  BY <1>2, <1>11 DEF Publish
<1>12. CASE NewConnection
  <2>1. /\ Head(events).ep \in Ep
        /\ Head(events).conn \in Conn \union {None}
        /\ Head(events) = Event("NewConnection", Head(events).ep, Head(events).conn)
        /\ Queued(Head(events))
    BY <1>0, <1>12, ReceiveTakes, EventParts DEF NewConnection
  <2>2. Head(events).conn # None
    BY <1>0, <2>1 DEF NewHasConn
  <2> QED BY <1>0, <1>12, <2>1, <2>2 DEF NewConnection, RestOK
<1>13. CASE LostConnection
  <2>1. Head(events).ep \in Ep
    BY <1>0, <1>13, ReceiveTakes, EventParts DEF LostConnection
  <2> QED BY <1>1, <1>13, <2>1 DEF LostConnection
<1>14. CASE RetryConnect
  BY <1>2, <1>14 DEF RetryConnect
<1>15. CASE Execute
  BY <1>2, <1>15 DEF Execute
<1>16. CASE WorkerStop
  BY <1>16 DEF WorkerStop
<1>17. CASE TcpStop
  BY <1>2, <1>17 DEF TcpStop
<1>18. ASSUME NEW recipients \in SUBSET Ep, SendBytes(recipients) PROVE ViewInv'
  BY <1>2, <1>18 DEF SendBytes
<1>19. CASE Sending
  BY <1>2, <1>19 DEF Sending, PushBytes, PushedBytes
<1>20. CASE UNCHANGED vars
  BY <1>2, <1>20 DEF vars
<1> HIDE DEF ViewInv
<1> QED
  BY <1>3, <1>4, <1>5, <1>6, <1>7, <1>8, <1>9, <1>10, <1>11, <1>12, <1>13, <1>14,
     <1>15, <1>16, <1>17, <1>18, <1>19, <1>20
  DEF Next, HandleCommand, HandleEvent

(* EndpointConnected / EndpointDisconnected, as published, agree with what *)
(* the EndpointWorker's outbox can reach; the endpoints that               *)
(* RemoveEndpoint cut off are the only exception, and stay one until the   *)
(* next event about them.                                                  *)
THEOREM ViewCorrect == Spec => []ViewMatchesOutbox
<1>1. ViewInv => ViewMatchesOutbox
  BY DEF ViewInv
<1>2. Init => TypeInv /\ ViewInv
  BY InitType, InitView
<1>3. (TypeInv /\ ViewInv) /\ [Next]_vars => (TypeInv /\ ViewInv)'
  BY NextType, NextView
<1> QED BY <1>1, <1>2, <1>3, PTL DEF Spec

-----------------------------------------------------------------------------
(* Senders on the way.                                                     *)

Incoming(e) == \E c \in Conn : Queued(Event("NewConnection", e, c))

(* While the worker waits for its announcement to be taken over by the     *)
(* channel, the announcement is in the queue.                              *)
Announced == wpc = "flush" /\ wep # None => Incoming(wep)

SenderInv == SenderOnTheWay /\ Announced

LEMMA InitSender == Init => SenderInv
BY DEF Init, SenderInv, SenderOnTheWay, Announced

LEMMA NextSender == TypeInv /\ SenderInv /\ [Next]_vars => SenderInv'
<1> SUFFICES ASSUME TypeInv, SenderInv, [Next]_vars PROVE SenderInv'
  OBVIOUS
<1>0. ChanOK /\ RestOK /\ NewHasConn /\ WorkerHolds /\ ConnKnown
  BY TypeSplit DEF TypeInv
<1>i. /\ \A e \in connected : outbox[e] # None \/ Incoming(e)
      /\ Announced
  BY DEF SenderInv, SenderOnTheWay, Incoming
<1> DEFINE Goal == /\ \A e \in connected' : outbox'[e] # None \/ Incoming(e)'
                   /\ Announced'
<1> SUFFICES Goal
  BY DEF SenderInv, SenderOnTheWay, Incoming
<1>same. ASSUME UNCHANGED chanVars PROVE \A e : Incoming(e) => Incoming(e)'
  BY <1>same DEF Incoming, Queued, chanVars
<1>send. ASSUME NEW t \in Task, NEW type \in EventType, NEW e \in Ep,
                NEW c \in Conn \union {None}, Send(t, Event(type, e, c))
         PROVE  /\ \A f : Incoming(f) => Incoming(f)'
                /\ wpc # "done" => Queued(Event(type, e, c))'
  <2>1. Event(type, e, c) \in EventSet
    BY EventIn
  <2> QED BY <1>0, <1>send, <2>1, SendAdds DEF Incoming
<1>recv. ASSUME NEW type, Receive(type)
         PROVE  \A e : Incoming(e) =>
                   Incoming(e)' \/ (type = "NewConnection" /\ Head(events).ep = e)
  <2> SUFFICES ASSUME NEW e, Incoming(e), ~Incoming(e)'
               PROVE  type = "NewConnection" /\ Head(events).ep = e
    OBVIOUS
  <2>1. PICK c \in Conn : Queued(Event("NewConnection", e, c))
    BY DEF Incoming
  <2>2. Event("NewConnection", e, c) = Head(events) /\ Head(events).type = type
    BY <1>0, <1>recv, <2>1, ReceiveTakes DEF Incoming
  <2> QED BY <2>2 DEF Event
<1>keep. ASSUME \A e : Incoming(e) => Incoming(e)', UNCHANGED outbox,
                connected' \subseteq connected,
                UNCHANGED <<wpc, wep>> \/ wpc' # "flush" \/ wep' = None
         PROVE  Goal
  BY <1>i, <1>keep DEF Announced
<1> USE EndpointAssumption
<1> USE DEF listVars, workerVars
<1> HIDE DEF Goal
<1>1. ASSUME NEW c \in Conn,
             WriterStep(c) \/ WriteReturns(c) \/ ReaderEnd(c) \/ RemoteClose(c)
      PROVE  Goal
  BY <1>1, <1>same, <1>keep DEF WriterStep, WriterTake, WriterEnd, WriteReturns, ReaderEnd,
     RemoteClose
<1>2. ASSUME NEW c \in Conn, ReadBytes(c) \/ ReadEof(c) PROVE Goal
  <2>1. \A e : Incoming(e) => Incoming(e)'
    BY <1>0, <1>2, <1>send DEF ReadBytes, ReadEof, EventType, Task, ConnKnown
  <2> QED BY <1>2, <2>1, <1>keep DEF ReadBytes, ReadEof
<1>3. ASSUME NEW c \in Conn, NEW e \in Inbound, Accept(c, e) PROVE Goal
  BY <1>3, <1>same, <1>keep DEF Accept
<1>4. CASE TcpAnnounce
  <2>1. \A e : Incoming(e) => Incoming(e)'
    BY <1>0, <1>4, <1>send DEF TcpAnnounce, EventType, Task, ConnKnown, RestOK
  <2> QED BY <1>4, <2>1, <1>keep DEF TcpAnnounce
<1>5. ASSUME NEW c \in Conn, ConnectOk(c) PROVE Goal
  BY <1>5, <1>same, <1>keep DEF ConnectOk
<1>6. CASE ConnectFailed
  BY <1>6, <1>same, <1>keep DEF ConnectFailed
<1>7. CASE Announce
  <2>1. wep \in Ep /\ wconn \in Conn /\ wpc # "done"
    BY <1>0, <1>7 DEF Announce, WorkerHolds, Ep
  <2> DEFINE ev == Event("NewConnection", wep, wconn)
  <2>2. /\ \A e : Incoming(e) => Incoming(e)'
        /\ InSeq(ev, events')
    <3>1. ev \in EventSet /\ Send("worker", ev) /\ "worker" \in Task
      BY <1>7, <2>1, EventIn DEF Announce, EventType, Task
    <3>2. events' = Append(events, ev)
      BY <2>1, <3>1 DEF Send
    <3> HIDE DEF ev
    <3>3. \A x : InSeq(x, Append(events, ev)) <=> InSeq(x, events) \/ x = ev
      BY <1>0, <3>1, AppendHas DEF ChanOK
    <3>4. \A x : InSeq(x, events') <=> InSeq(x, events) \/ x = ev
      BY <3>2, <3>3
    <3> QED BY <3>4 DEF Incoming, Queued, InSeq
  <2>3. wep' = wep
    BY <1>7 DEF Announce
  <2>4. Incoming(wep)'
    BY <2>1, <2>2, <2>3 DEF Incoming, Queued, InSeq
  <2>5. Announced'
    BY <2>4 DEF Announced
  <2> QED BY <1>i, <1>7, <2>2, <2>5 DEF Announce, Goal
<1>8. CASE Flushed
  <2>1. \A e : Incoming(e) => Incoming(e)'
    BY <1>8, <1>same DEF Flushed
  <2>2. \A e \in connected' : e \in connected \/ (e = wep /\ wep # None)
    BY <1>8 DEF Flushed
  <2>3. Announced'
    BY <1>8 DEF Flushed, Announced
  <2>4. wpc = "flush" /\ UNCHANGED outbox
    BY <1>8 DEF Flushed
  <2> QED BY <1>i, <2>1, <2>2, <2>3, <2>4 DEF Announced, Goal
<1>9. ASSUME NEW e \in Contact, TimerFires(e) PROVE Goal
  <2>1. \A f : Incoming(f) => Incoming(f)'
    BY <1>9, <1>send DEF TimerFires, EventType, Task, Ep
  <2> QED BY <1>9, <2>1, <1>keep DEF TimerFires
<1>10. ASSUME NEW e \in Contact, AddEndpoint(e) PROVE Goal
  <2>1. \A f : Incoming(f) => Incoming(f)'
    BY <1>10, <1>send DEF AddEndpoint, EventType, Task, Ep
  <2>2. wep' = None
    BY <1>0, <1>10 DEF AddEndpoint, Command, WorkerHolds
  <2> QED BY <1>10, <2>1, <2>2, <1>keep DEF AddEndpoint
<1>11. ASSUME NEW e \in Contact, Connect(e) PROVE Goal
  BY <1>11, <1>same, <1>keep DEF Connect, TryConnect
<1>12. ASSUME NEW e \in Ep, RemoveEndpoint(e) PROVE Goal
  <2>1. \A f : Incoming(f) => Incoming(f)'
    BY <1>12, <1>send DEF RemoveEndpoint, EventType, Task
  <2>2. wep' = None
    BY <1>0, <1>12 DEF RemoveEndpoint, Command, WorkerHolds
  <2>3. \A f \in connected' : f \in connected /\ f # e /\ f \in Ep
    BY <1>0, <1>12 DEF RemoveEndpoint, RestOK
  <2>4. \A f \in Ep : f # e => outbox'[f] = outbox[f]
    BY <1>0, <1>12 DEF RemoveEndpoint, RestOK
  <2> QED BY <1>i, <2>1, <2>2, <2>3, <2>4 DEF Announced, Goal
<1>drop. ASSUME NEW e \in Ep, DropConnection(e), \A f : Incoming(f) => Incoming(f)',
                wpc' # "flush"
         PROVE  Goal
  <2>1. \A f \in connected' : f \in connected /\ f # e /\ f \in Ep
    BY <1>0, <1>drop DEF DropConnection, RestOK
  <2>2. \A f \in Ep : f # e => outbox'[f] = outbox[f]
    BY <1>0, <1>drop DEF DropConnection, RestOK
  <2> QED BY <1>i, <1>drop, <2>1, <2>2 DEF Announced, Goal
<1>13. ASSUME NEW e \in Ep, Disconnect(e) PROVE Goal
  BY <1>13, <1>same, <1>drop DEF Disconnect, Command
<1>14. CASE Publish
  <2>1. \A e : Incoming(e) => Incoming(e)'
    BY <1>14, <1>recv DEF Publish
  <2> QED BY <1>14, <2>1, <1>keep DEF Publish
<1>15. CASE NewConnection
  <2> DEFINE k == Head(events).ep
  <2>1. \A e : Incoming(e) => Incoming(e)' \/ e = k
    BY <1>15, <1>recv DEF NewConnection
  <2>2. /\ k \in Ep
        /\ Head(events).conn \in Conn \union {None}
        /\ Head(events) = Event("NewConnection", k, Head(events).conn)
        /\ Queued(Head(events))
    BY <1>0, <1>15, ReceiveTakes, EventParts DEF NewConnection
  <2>3. Head(events).conn # None
    BY <1>0, <2>2 DEF NewHasConn
  <2>4. /\ outbox'[k] # None
        /\ \A e \in Ep : e # k => outbox'[e] = outbox[e]
        /\ connected' = connected \union {k}
    BY <1>0, <1>15, <2>2, <2>3 DEF NewConnection, RestOK
  <2>5. Announced'
    BY <1>15 DEF NewConnection, Receive, Announced
  <2>6. connected \subseteq Ep
    BY <1>0 DEF RestOK
  <2> QED BY <1>i, <2>1, <2>2, <2>4, <2>5, <2>6 DEF Goal
<1>16. CASE LostConnection
  <2>1. \A e : Incoming(e) => Incoming(e)'
    BY <1>16, <1>recv DEF LostConnection
  <2>2. Head(events).ep \in Ep
    BY <1>0, <1>16, ReceiveTakes, EventParts DEF LostConnection
  <2>3. wpc' # "flush"
    BY <1>16 DEF LostConnection, Receive, TryConnect
  <2> QED BY <1>16, <2>1, <2>2, <2>3, <1>drop DEF LostConnection
<1>17. CASE RetryConnect
  <2>1. \A e : Incoming(e) => Incoming(e)'
    BY <1>17, <1>recv DEF RetryConnect
  <2> QED BY <1>17, <2>1, <1>keep DEF RetryConnect, TryConnect
<1>18. CASE Execute
  BY <1>18, <1>same, <1>keep DEF Execute
<1>19. CASE WorkerStop
  BY <1>19 DEF WorkerStop, Announced, Goal
<1>20. CASE TcpStop
  BY <1>20, <1>same, <1>keep DEF TcpStop
<1>21. ASSUME NEW recipients \in SUBSET Ep, SendBytes(recipients) PROVE Goal
  BY <1>21, <1>same, <1>keep DEF SendBytes
<1>22. CASE Sending
  BY <1>22, <1>same, <1>keep DEF Sending, PushBytes, PushedBytes
<1>23. CASE UNCHANGED vars
  BY <1>23, <1>same, <1>keep DEF vars
<1> QED
  BY <1>1, <1>2, <1>3, <1>4, <1>5, <1>6, <1>7, <1>8, <1>9, <1>10, <1>11, <1>12,
     <1>13, <1>14, <1>15, <1>16, <1>17, <1>18, <1>19, <1>20, <1>21, <1>22, <1>23
  DEF Next, ReaderStep, Connecting, HandleCommand, HandleEvent

(* No endpoint stays on the connected list without a sender in the outbox  *)
(* or a NewConnection event that will put one there.                       *)
THEOREM SenderCorrect == Spec => []SenderOnTheWay
<1>1. SenderInv => SenderOnTheWay
  BY DEF SenderInv
<1>2. Init => TypeInv /\ SenderInv
  BY InitType, InitSender
<1>3. (TypeInv /\ SenderInv) /\ [Next]_vars => (TypeInv /\ SenderInv)'
  BY NextType, NextSender
<1> QED BY <1>1, <1>2, <1>3, PTL DEF Spec

-----------------------------------------------------------------------------
(* Retries.                                                                *)

RetryQueued(e) == Queued(Event("TryConnect", e, None))

Pursued(e) == \/ e \in connected
              \/ Attempting(e)
              \/ timers[e] > 0
              \/ RetryQueued(e)

(* Nothing is wanted of a worker that has stopped. *)
Stopped == wpc = "done" => wanted = {}

RetryInv == NeverAbandoned /\ Stopped

LEMMA InitRetry == Init => RetryInv
BY DEF Init, RetryInv, NeverAbandoned, Stopped

LEMMA NextRetry == TypeInv /\ RetryInv /\ [Next]_vars => RetryInv'
<1> SUFFICES ASSUME TypeInv, RetryInv, [Next]_vars PROVE RetryInv'
  OBVIOUS
<1>0. ChanOK /\ RestOK /\ WorkerHolds /\ ConnKnown
  BY TypeSplit DEF TypeInv
<1>i. (\A e \in wanted : e \in contacts /\ Pursued(e)) /\ Stopped
  BY DEF RetryInv, NeverAbandoned, Pursued, RetryQueued
<1> DEFINE Goal == (\A e \in wanted' : e \in contacts' /\ Pursued(e)') /\ Stopped'
<1> SUFFICES Goal
  BY DEF RetryInv, NeverAbandoned, Pursued, RetryQueued
<1>same. ASSUME UNCHANGED chanVars PROVE \A e : RetryQueued(e) => RetryQueued(e)'
  BY <1>same DEF RetryQueued, Queued, chanVars
<1>send. ASSUME NEW t \in Task, NEW type \in EventType, NEW e \in Ep,
                NEW c \in Conn \union {None}, Send(t, Event(type, e, c))
         PROVE  /\ \A f : RetryQueued(f) => RetryQueued(f)'
                /\ wpc # "done" => Queued(Event(type, e, c))'
  <2>1. Event(type, e, c) \in EventSet
    BY EventIn
  <2> QED BY <1>0, <1>send, <2>1, SendAdds DEF RetryQueued
<1>recv. ASSUME NEW type, Receive(type)
         PROVE  /\ wpc = "select" /\ wep = None
                /\ \A e : RetryQueued(e) =>
                      RetryQueued(e)' \/ (type = "TryConnect" /\ Head(events).ep = e)
  <2>1. wpc = "select" /\ wep = None
    BY <1>0, <1>recv DEF Receive, WorkerHolds
  <2> SUFFICES ASSUME NEW e, RetryQueued(e), ~RetryQueued(e)'
               PROVE  type = "TryConnect" /\ Head(events).ep = e
    BY <2>1
  <2>2. Event("TryConnect", e, None) = Head(events) /\ Head(events).type = type
    BY <1>0, <1>recv, ReceiveTakes DEF RetryQueued
  <2> QED BY <2>2 DEF Event
<1>keep. ASSUME \A e : RetryQueued(e) => RetryQueued(e)', contacts \subseteq contacts',
                connected \subseteq connected', UNCHANGED <<timers, wanted>>,
                UNCHANGED <<wpc, wep>> \/ (wpc' # "done" /\ \A e \in wanted : ~Attempting(e))
         PROVE  Goal
  BY <1>i, <1>keep DEF Pursued, Attempting, Stopped
<1>idle. ASSUME wpc = "select" PROVE \A e \in wanted : ~Attempting(e)
  BY <1>idle DEF Attempting
<1> USE EndpointAssumption
<1> USE DEF listVars, workerVars, clientVars
<1> HIDE DEF Goal
<1>1. ASSUME NEW c \in Conn,
             WriterStep(c) \/ WriteReturns(c) \/ ReaderEnd(c) \/ RemoteClose(c)
      PROVE  Goal
  BY <1>1, <1>same, <1>keep DEF WriterStep, WriterTake, WriterEnd, WriteReturns, ReaderEnd,
     RemoteClose
<1>2. ASSUME NEW c \in Conn, ReadBytes(c) \/ ReadEof(c) PROVE Goal
  <2>1. \A e : RetryQueued(e) => RetryQueued(e)'
    BY <1>0, <1>2, <1>send DEF ReadBytes, ReadEof, EventType, Task, ConnKnown
  <2> QED BY <1>2, <2>1, <1>keep DEF ReadBytes, ReadEof
<1>3. ASSUME NEW c \in Conn, NEW e \in Inbound, Accept(c, e) PROVE Goal
  BY <1>3, <1>same, <1>keep DEF Accept
<1>4. CASE TcpAnnounce
  <2>1. \A e : RetryQueued(e) => RetryQueued(e)'
    BY <1>0, <1>4, <1>send DEF TcpAnnounce, EventType, Task, ConnKnown, RestOK
  <2> QED BY <1>4, <2>1, <1>keep DEF TcpAnnounce
<1>5. ASSUME NEW c \in Conn, ConnectOk(c) PROVE Goal
  <2>1. \A e : RetryQueued(e) => RetryQueued(e)'
    BY <1>5, <1>same DEF ConnectOk
  <2>2. \A e : Attempting(e) => Attempting(e)'
    BY <1>5 DEF ConnectOk, Attempting
  <2> QED BY <1>i, <1>5, <2>1, <2>2 DEF ConnectOk, Pursued, Stopped, Goal
<1>6. CASE ConnectFailed
  <2>1. \A e : RetryQueued(e) => RetryQueued(e)'
    BY <1>6, <1>same DEF ConnectFailed
  <2>2. \A e \in Ep : timers[e] > 0 => timers'[e] > 0
    BY <1>0, <1>6 DEF ConnectFailed, RestOK
  <2>3. \A e : Attempting(e) => timers'[e] > 0
    BY <1>0, <1>6 DEF ConnectFailed, Attempting, RestOK, WorkerHolds, Ep
  <2>4. wanted' \subseteq Ep
    BY <1>0, <1>6 DEF ConnectFailed, RestOK, Ep
  <2> QED BY <1>i, <1>6, <2>1, <2>2, <2>3, <2>4 DEF ConnectFailed, Pursued, Stopped, Goal
<1>7. CASE Announce
  <2>1. wep \in Ep /\ wconn \in Conn
    BY <1>0, <1>7 DEF Announce, WorkerHolds, Ep
  <2>2. \A e : RetryQueued(e) => RetryQueued(e)'
    BY <1>7, <2>1, <1>send DEF Announce, EventType, Task
  <2>3. \A e : Attempting(e) => Attempting(e)'
    BY <1>7 DEF Announce, Attempting
  <2> QED BY <1>i, <1>7, <2>2, <2>3 DEF Announce, Pursued, Stopped, Goal
<1>8. CASE Flushed
  <2>1. \A e : RetryQueued(e) => RetryQueued(e)'
    BY <1>8, <1>same DEF Flushed
  <2>2. \A e \in wanted : Attempting(e) => e \in connected'
    BY <1>0, <1>8 DEF Flushed, Attempting, RestOK, Ep
  <2> QED BY <1>i, <1>8, <2>1, <2>2 DEF Flushed, Pursued, Stopped, Goal
<1>9. ASSUME NEW e \in Contact, TimerFires(e) PROVE Goal
  <2>0. e \in Ep
    BY DEF Ep
  <2>1. /\ \A f : RetryQueued(f) => RetryQueued(f)'
        /\ wpc # "done" => RetryQueued(e)'
    BY <1>9, <2>0, <1>send DEF TimerFires, EventType, Task, RetryQueued
  <2>2. \A f \in Ep : f # e => timers'[f] = timers[f]
    BY <1>0, <1>9 DEF TimerFires, RestOK
  <2>3. \A f : Attempting(f) => Attempting(f)'
    BY <1>9 DEF TimerFires, Attempting
  <2>4. wanted \subseteq Ep
    BY <1>0 DEF RestOK, Ep
  <2>5. UNCHANGED <<wanted, contacts, connected, wpc>>
    BY <1>9 DEF TimerFires
  <2>6. wanted # {} => wpc # "done"
    BY <1>i DEF Stopped
  <2>7. ASSUME NEW f \in wanted PROVE f \in contacts' /\ Pursued(f)'
    BY <1>i, <2>1, <2>2, <2>3, <2>4, <2>5, <2>6 DEF Pursued
  <2> QED BY <1>i, <2>5, <2>7 DEF Stopped, Goal
<1>10. ASSUME NEW e \in Contact, AddEndpoint(e) PROVE Goal
  <2>1. \A f : RetryQueued(f) => RetryQueued(f)'
    BY <1>10, <1>send DEF AddEndpoint, EventType, Task, Ep
  <2> QED BY <1>10, <2>1, <1>idle, <1>keep DEF AddEndpoint, Command
<1>11. ASSUME NEW e \in Contact, Connect(e) PROVE Goal
  <2>1. \A f : RetryQueued(f) => RetryQueued(f)'
    BY <1>11, <1>same DEF Connect
  <2>2. e \in contacts /\ wpc' # "done" /\ (e \in connected \/ Attempting(e)')
    BY <1>11 DEF Connect, Command, TryConnect, Attempting
  <2>3. \A f \in wanted : Pursued(f) => Pursued(f)'
    BY <1>11, <2>1, <1>idle DEF Connect, Command, Pursued
  <2>4. e \in connected' \/ Attempting(e)'
    BY <1>11, <2>2 DEF Connect
  <2> QED BY <1>i, <1>11, <2>2, <2>3, <2>4 DEF Connect, Pursued, Stopped, Goal
<1>12. ASSUME NEW e \in Ep, RemoveEndpoint(e) PROVE Goal
  <2>1. \A f : RetryQueued(f) => RetryQueued(f)'
    BY <1>12, <1>send DEF RemoveEndpoint, EventType, Task
  <2>2. \A f \in wanted : f # e => (f \in connected => f \in connected') /\ f \in contacts'
    BY <1>i, <1>12 DEF RemoveEndpoint
  <2>3. \A f \in wanted' : f \in wanted /\ f # e /\ ~Attempting(f)
    BY <1>12, <1>idle DEF RemoveEndpoint, Command
  <2>4. UNCHANGED timers /\ wpc' # "done"
    BY <1>12 DEF RemoveEndpoint
  <2> QED BY <1>i, <2>1, <2>2, <2>3, <2>4 DEF Pursued, Stopped, Goal
<1>13. ASSUME NEW e \in Ep, Disconnect(e) PROVE Goal
  <2>1. \A f : RetryQueued(f) => RetryQueued(f)'
    BY <1>13, <1>same DEF Disconnect
  <2>2. \A f \in wanted' : f \in wanted /\ f # e /\ ~Attempting(f)
    BY <1>13, <1>idle DEF Disconnect, Command
  <2>3. UNCHANGED <<timers, contacts>> /\ wpc' # "done" /\ connected' = connected \ {e}
    BY <1>13 DEF Disconnect, DropConnection, Command
  <2> QED BY <1>i, <2>1, <2>2, <2>3 DEF Pursued, Stopped, Goal
<1>14. CASE Publish
  <2>1. \A e : RetryQueued(e) => RetryQueued(e)'
    BY <1>14, <1>recv DEF Publish
  <2> QED BY <1>14, <2>1, <1>keep DEF Publish
<1>15. CASE NewConnection
  <2>1. \A e : RetryQueued(e) => RetryQueued(e)'
    BY <1>15, <1>recv DEF NewConnection
  <2> QED BY <1>15, <2>1, <1>keep DEF NewConnection
<1>16. CASE LostConnection
  <2>0. PICK k : k = Head(events).ep
    OBVIOUS
  <2>1. /\ \A e : RetryQueued(e) => RetryQueued(e)'
        /\ wpc = "select"
    BY <1>16, <2>0, <1>recv DEF LostConnection
  <2>2. /\ connected' = connected \ {k}
        /\ UNCHANGED <<timers, contacts, wanted>>
        /\ wpc' # "done"
    BY <1>16, <2>0, <2>1 DEF LostConnection, DropConnection, TryConnect
  <2>3. k \in contacts => Attempting(k)'
    BY <1>16, <2>0 DEF LostConnection, TryConnect, Attempting
  <2>4. ASSUME NEW e \in wanted PROVE Pursued(e)'
    BY <1>i, <2>1, <2>2, <2>3, <1>idle DEF Pursued
  <2> QED BY <1>i, <2>2, <2>4 DEF Stopped, Goal
<1>17. CASE RetryConnect
  <2>0. PICK k : k = Head(events).ep
    OBVIOUS
  <2>1. /\ \A e : RetryQueued(e) => RetryQueued(e)' \/ e = k
        /\ wpc = "select"
    BY <1>17, <2>0, <1>recv DEF RetryConnect
  <2>2. UNCHANGED <<connected, timers, contacts, wanted>> /\ wpc' # "done"
    BY <1>17, <2>0, <2>1 DEF RetryConnect, TryConnect
  <2>3. k \in contacts => k \in connected \/ Attempting(k)'
    BY <1>17, <2>0 DEF RetryConnect, TryConnect, Attempting
  <2>4. ASSUME NEW e \in wanted PROVE Pursued(e)'
    BY <1>i, <2>1, <2>2, <2>3, <1>idle DEF Pursued
  <2> QED BY <1>i, <2>2, <2>4 DEF Stopped, Goal
<1>18. CASE Execute
  BY <1>18, <1>same, <1>keep DEF Execute
<1>19. CASE WorkerStop
  BY <1>19 DEF WorkerStop, Stopped, Goal
<1>20. CASE TcpStop
  BY <1>20, <1>same, <1>keep DEF TcpStop
<1>21. ASSUME NEW recipients \in SUBSET Ep, SendBytes(recipients) PROVE Goal
  BY <1>21, <1>same, <1>idle, <1>keep DEF SendBytes, Command
<1>22. CASE Sending
  <2>1. \A e \in wanted : ~Attempting(e)
    BY <1>22 DEF Sending, PushBytes, PushedBytes, Attempting
  <2>2. wpc' # "done"
    BY <1>22 DEF Sending, PushBytes, PushedBytes
  <2> QED BY <1>22, <2>1, <2>2, <1>same, <1>keep DEF Sending, PushBytes, PushedBytes
<1>23. CASE UNCHANGED vars
  BY <1>23, <1>same, <1>keep DEF vars
<1> QED
  BY <1>1, <1>2, <1>3, <1>4, <1>5, <1>6, <1>7, <1>8, <1>9, <1>10, <1>11, <1>12,
     <1>13, <1>14, <1>15, <1>16, <1>17, <1>18, <1>19, <1>20, <1>21, <1>22, <1>23
  DEF Next, ReaderStep, Connecting, HandleCommand, HandleEvent

(* try_connect's retries lose no contact: whatever connections are made,   *)
(* lost, refused or removed meanwhile, a contact the client asked for is   *)
(* connected or a further attempt is pending.                              *)
THEOREM RetryCorrect == Spec => []NeverAbandoned
<1>1. RetryInv => NeverAbandoned
  BY DEF RetryInv
<1>2. Init => TypeInv /\ RetryInv
  BY InitType, InitRetry
<1>3. (TypeInv /\ RetryInv) /\ [Next]_vars => (TypeInv /\ RetryInv)'
  BY NextType, NextRetry
<1> QED BY <1>1, <1>2, <1>3, PTL DEF Spec

=============================================================================
