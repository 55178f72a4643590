---------------------------- MODULE PeeringProofs ----------------------------
(***************************************************************************)
(* Proofs about Peering, for any endpoints, addresses and sessions.        *)
(***************************************************************************)
EXTENDS Peering, TLAPS

-----------------------------------------------------------------------------
(* The queue of published events.                                          *)

EventSet == [type : {"EndpointConnected", "EndpointDisconnected", "MessageReceived"},
             ep : Ep, session : Session \union {None}]

IsConn(i) == events[i].type = "EndpointConnected"

(* A connection that waits to be registered has no task yet, and waits     *)
(* once.                                                                   *)
Waiting ==
  /\ \A i \in 1..Len(events) : IsConn(i) =>
        /\ events[i].session \in Session
        /\ sep[events[i].session] = events[i].ep
        /\ worker[events[i].session] = "none"
  /\ \A i, j \in 1..Len(events) :
        IsConn(i) /\ IsConn(j) /\ events[i].session = events[j].session => i = j

(* A session's task knows its endpoint. *)
TaskHasEp == \A s \in Session : worker[s] # "none" => sep[s] \in Ep

TypeInv == TypeOK /\ Waiting /\ TaskHasEp

Place == Ended \union {"await", "handled", "validated", "claimed", "peer", "remove",
                       "unlist"}

Outcome == {"Awaiting", "Done", "Duplicate"}

(* TypeOK but for the queue. *)
RestOK ==
    /\ up \subseteq Ep
    /\ disc \subseteq Ep
    /\ bytes \in Nat
    /\ nodePeers \in [Ep -> Session \union {None}]
    /\ peers \subseteq Ep
    /\ handshaked \in [Ep -> Session \union {None}]
    /\ sep \in [Session -> Ep \union {None}]
    /\ worker \in [Session -> Place]
    /\ status \in [Session -> Outcome]
    /\ inbox \subseteq Session
    /\ senders \in [Session -> SUBSET Kind]
    /\ overlapped \subseteq Ep

QueueOK == events \in Seq(EventSet)

LEMMA TypeSplit == TypeOK <=> QueueOK /\ RestOK
BY DEF TypeOK, QueueOK, RestOK, EventSet, Place, Outcome

LEMMA TypeSplitNext == TypeOK' <=> QueueOK' /\ RestOK'
BY DEF TypeOK, QueueOK, RestOK, EventSet, Place, Outcome

LEMMA InitType == Init => TypeInv
<1> SUFFICES ASSUME Init PROVE TypeInv
  OBVIOUS
<1> USE PeeringAssumption DEF Init
<1>1. QueueOK
  BY DEF QueueOK
<1>2. nodePeers \in [Ep -> Session \union {None}] /\ handshaked \in [Ep -> Session \union {None}]
  OBVIOUS
<1>3. /\ sep \in [Session -> Ep \union {None}]
      /\ worker \in [Session -> Place]
      /\ status \in [Session -> Outcome]
      /\ senders \in [Session -> SUBSET Kind]
  BY DEF Place, Outcome, Ended
<1>4. RestOK
  BY <1>2, <1>3 DEF RestOK
<1>5. Waiting /\ TaskHasEp
  BY DEF Waiting, TaskHasEp
<1> QED BY <1>1, <1>4, <1>5, TypeSplit DEF TypeInv

(* What the node takes off the queue. *)
LEMMA HandleTakes ==
  ASSUME TypeInv, NEW type, Handle(type)
  PROVE  /\ QueueOK'
         /\ Head(events) \in EventSet
         /\ Head(events) = events[1]
         /\ Head(events).ep \in Ep
         /\ type = "EndpointConnected" =>
               /\ Head(events).session \in Session
               /\ sep[Head(events).session] = Head(events).ep
               /\ worker[Head(events).session] = "none"
         /\ \A w :
              (\A s \in Session : w[s] # worker[s] =>
                   (type = "EndpointConnected" /\ s = Head(events).session)
                   \/ worker[s] # "none")
              /\ worker' = w /\ sep' = sep => Waiting'
<1>0. QueueOK /\ Waiting
  BY TypeSplit DEF TypeInv
<1>1. events \in Seq(EventSet) /\ events # <<>> /\ events' = Tail(events)
  BY <1>0 DEF Handle, QueueOK
<1>2. /\ Head(events) \in EventSet /\ Head(events) = events[1]
      /\ Head(events).ep \in Ep
      /\ Len(events) \in Nat /\ 1 \in 1..Len(events)
  <2>1. Head(events) \in EventSet /\ Head(events) = events[1]
    BY <1>1
  <2>2. Head(events).ep \in Ep
    BY <2>1 DEF EventSet
  <2>3. Len(events) \in Nat /\ Len(events) # 0
    BY <1>1
  <2> QED BY <2>1, <2>2, <2>3
<1>3. QueueOK'
  BY <1>1 DEF QueueOK
<1>4. Head(events).type = type
  BY DEF Handle
<1>5. type = "EndpointConnected" =>
               /\ Head(events).session \in Session
               /\ sep[Head(events).session] = Head(events).ep
               /\ worker[Head(events).session] = "none"
  BY <1>0, <1>2, <1>4 DEF Waiting, IsConn
<1>6. /\ Len(events') = Len(events) - 1
      /\ \A i \in 1..Len(events') : /\ events'[i] = events[i + 1]
                                    /\ i + 1 \in 1..Len(events)
                                    /\ i + 1 # 1
  BY <1>1
<1>7. ASSUME NEW w,
             \A s \in Session : w[s] # worker[s] =>
                   (type = "EndpointConnected" /\ s = Head(events).session)
                   \/ worker[s] # "none",
             worker' = w, sep' = sep
      PROVE  Waiting'
  <2>1. ASSUME NEW i \in 1..Len(events'), IsConn(i)'
        PROVE  /\ events'[i].session \in Session
               /\ sep'[events'[i].session] = events'[i].ep
               /\ worker'[events'[i].session] = "none"
    <3>1. IsConn(i + 1) /\ events'[i] = events[i + 1] /\ i + 1 \in 1..Len(events)
      BY <1>6, <2>1 DEF IsConn
    <3>2. /\ events[i + 1].session \in Session
          /\ sep[events[i + 1].session] = events[i + 1].ep
          /\ worker[events[i + 1].session] = "none"
      BY <1>0, <3>1 DEF Waiting
    <3>3. type = "EndpointConnected" => events[i + 1].session # Head(events).session
      <4>1. ASSUME type = "EndpointConnected", events[i + 1].session = events[1].session
            PROVE  FALSE
        BY <1>0, <1>2, <1>4, <1>6, <3>1, <4>1 DEF Waiting, IsConn
      <4> QED BY <4>1, <1>2
    <3> QED BY <1>7, <3>1, <3>2, <3>3
  <2>2. ASSUME NEW i \in 1..Len(events'), NEW j \in 1..Len(events'), IsConn(i)', IsConn(j)',
               events'[i].session = events'[j].session
        PROVE  i = j
    <3>1. /\ IsConn(i + 1) /\ i + 1 \in 1..Len(events) /\ events'[i] = events[i + 1]
          /\ IsConn(j + 1) /\ j + 1 \in 1..Len(events) /\ events'[j] = events[j + 1]
      BY <1>6, <2>2 DEF IsConn
    <3>2. i + 1 = j + 1
      BY <1>0, <2>2, <3>1 DEF Waiting
    <3> QED BY <3>2, <1>6, <1>2
  <2> QED BY <2>1, <2>2 DEF Waiting
<1> QED BY <1>2, <1>3, <1>5, <1>7

(* What the network puts on it. *)
LEMMA PublishAdds ==
  ASSUME TypeInv, NEW type \in {"EndpointConnected", "EndpointDisconnected", "MessageReceived"},
         NEW e \in Ep, NEW s \in Session \union {None}, Publish(type, e, s),
         UNCHANGED worker,
         \/ type # "EndpointConnected" /\ UNCHANGED sep
         \/ s \in Session /\ sep[s] = None /\ sep' = [sep EXCEPT ![s] = e]
  PROVE  QueueOK' /\ Waiting'
<1>0. QueueOK /\ RestOK /\ Waiting /\ TaskHasEp
  BY TypeSplit DEF TypeInv
<1> DEFINE ev == [type |-> type, ep |-> e, session |-> s]
<1>1. ev \in EventSet /\ ev.type = type /\ ev.ep = e /\ ev.session = s
  BY DEF EventSet
<1>2. events' = Append(events, ev)
  BY DEF Publish
<1> HIDE DEF ev
<1>3. QueueOK'
  BY <1>0, <1>1, <1>2 DEF QueueOK
<1>4. /\ Len(events) \in Nat
      /\ Len(events') = Len(events) + 1
      /\ \A i \in 1..Len(events) : events'[i] = events[i]
      /\ events'[Len(events) + 1] = ev
  BY <1>0, <1>2 DEF QueueOK
<1>5. \A i \in 1..Len(events) : events[i].ep \in Ep
  <2>1. \A i \in 1..Len(events) : events[i] \in EventSet
    BY <1>0 DEF QueueOK
  <2> QED BY <2>1 DEF EventSet
<1>6. type = "EndpointConnected" =>
        /\ s \in Session /\ sep'[s] = e /\ worker[s] = "none"
        /\ \A i \in 1..Len(events) : IsConn(i) => events[i].session # s
  BY <1>0, <1>5, PeeringAssumption DEF Waiting, TaskHasEp, RestOK
<1>7. \A i \in 1..Len(events) : IsConn(i) =>
        sep'[events[i].session] = events[i].ep
  BY <1>0, <1>5, <1>6, PeeringAssumption DEF Waiting, RestOK
<1>8. \A i \in 1..Len(events') : i \in 1..Len(events) \/ i = Len(events) + 1
  BY <1>4
<1>9. ASSUME NEW i \in 1..Len(events'), IsConn(i)'
      PROVE  /\ events'[i].session \in Session
             /\ sep'[events'[i].session] = events'[i].ep
             /\ worker'[events'[i].session] = "none"
  BY <1>0, <1>1, <1>4, <1>6, <1>7, <1>8, <1>9 DEF Waiting, IsConn
<1>10. ASSUME NEW i \in 1..Len(events'), NEW j \in 1..Len(events'), IsConn(i)', IsConn(j)',
              events'[i].session = events'[j].session
       PROVE  i = j
  BY <1>0, <1>1, <1>4, <1>6, <1>8, <1>10 DEF Waiting, IsConn
<1> QED BY <1>3, <1>9, <1>10 DEF Waiting

(* A step of a session's own task does not disturb the queue. *)
LEMMA TaskWaiting ==
  ASSUME TypeInv, NEW s \in Session, worker[s] # "none", UNCHANGED <<events, sep>>,
         NEW at, worker' = [worker EXCEPT ![s] = at]
  PROVE  QueueOK' /\ Waiting'
<1>1. QueueOK /\ RestOK /\ Waiting
  BY TypeSplit DEF TypeInv
<1>2. \A t \in Session : t # s => worker'[t] = worker[t]
  BY <1>1 DEF RestOK
<1> QED BY <1>1, <1>2 DEF QueueOK, Waiting, IsConn

LEMMA NextType == TypeInv /\ [Next]_vars => TypeInv'
<1> SUFFICES ASSUME TypeInv, [Next]_vars PROVE TypeInv'
  OBVIOUS
<1>0. QueueOK /\ RestOK /\ Waiting /\ TaskHasEp
  BY TypeSplit DEF TypeInv
<1> DEFINE Goal == QueueOK' /\ Waiting' /\ RestOK' /\ TaskHasEp'
<1> SUFFICES Goal
  BY TypeSplitNext DEF TypeInv
<1> USE PeeringAssumption DEF RestOK, TaskHasEp
<1> USE DEF netVars, mapVars, sessVars
<1>1. ASSUME NEW e \in Ep, NEW s \in Session, NetConnected(e, s) PROVE Goal
  <2>1. QueueOK' /\ Waiting'
    BY <1>1, PublishAdds DEF NetConnected
  <2> QED BY <1>0, <1>1, <2>1 DEF NetConnected
<1>2. ASSUME NEW e \in Ep, NetDisconnected(e) PROVE Goal
  <2>1. QueueOK' /\ Waiting'
    BY <1>2, PublishAdds DEF NetDisconnected
  <2> QED BY <1>0, <1>2, <2>1 DEF NetDisconnected
<1>3. ASSUME NEW e \in Ep, NetBytes(e) PROVE Goal
  <2>1. QueueOK' /\ Waiting'
    BY <1>3, PublishAdds DEF NetBytes
  <2> QED BY <1>0, <1>3, <2>1 DEF NetBytes
<1>4. ASSUME NEW e \in Ep, NetCommand(e) PROVE Goal
  <2>1. CASE e \in up
    <3>1. QueueOK' /\ Waiting'
      BY <1>4, <2>1, PublishAdds DEF NetCommand
    <3> QED BY <1>0, <1>4, <3>1 DEF NetCommand
  <2>2. CASE e \notin up
    BY <1>0, <1>4, <2>2 DEF NetCommand, QueueOK, Waiting, IsConn
  <2> QED BY <2>1, <2>2
<1>5. CASE NodeConnected
  <2> DEFINE e == Head(events).ep
             s == Head(events).session
  <2>1. /\ QueueOK' /\ e \in Ep /\ s \in Session /\ sep[s] = e
        /\ \A w :
              (\A t \in Session : w[t] # worker[t] => t = s \/ worker[t] # "none")
              /\ worker' = w /\ sep' = sep => Waiting'
    BY <1>5, HandleTakes DEF NodeConnected
  <2>2. /\ worker' = [worker EXCEPT ![s] = "await"]
        /\ nodePeers' = [nodePeers EXCEPT ![e] = s]
        /\ peers' = peers \union {e}
        /\ overlapped' \in {overlapped, overlapped \union {e}}
        /\ UNCHANGED <<up, disc, bytes, handshaked, senders, sep, status, inbox>>
    BY <1>5 DEF NodeConnected, Handle, Goto
  <2> HIDE DEF e, s
  <2>3. worker' \in [Session -> Place] /\ \A t \in Session : t # s => worker'[t] = worker[t]
    BY <1>0, <2>1, <2>2 DEF Place
  <2>4. Waiting'
    BY <2>1, <2>2, <2>3
  <2>5. RestOK'
    BY <1>0, <2>1, <2>2, <2>3
  <2>6. TaskHasEp'
    BY <1>0, <2>1, <2>2, <2>3
  <2> QED BY <2>1, <2>4, <2>5, <2>6
<1>6. CASE NodeDisconnected
  <2>1. QueueOK' /\ Waiting' /\ Head(events).ep \in Ep
    BY <1>6, HandleTakes DEF NodeDisconnected
  <2> QED BY <1>0, <1>6, <2>1 DEF NodeDisconnected, Handle
<1>7. CASE NodeBytes
  <2>1. QueueOK' /\ Waiting' /\ Head(events).ep \in Ep
    BY <1>7, HandleTakes DEF NodeBytes
  <2> QED BY <1>0, <1>7, <2>1 DEF NodeBytes, Handle
<1>8. ASSUME NEW s \in Session, TaskStep(s) PROVE Goal
  <2> USE DEF Goto, Settle
  <2>1. ASSUME TakeMessage(s), NEW at \in Place \ {"none"}, Goto(s, at),
               status' \in [Session -> Outcome]
        PROVE  Goal
    <3>1. QueueOK' /\ Waiting'
      BY <2>1, TaskWaiting DEF TakeMessage
    <3>2. bytes' \in Nat /\ inbox' \subseteq Session
      BY <1>0, <2>1 DEF TakeMessage
    <3>3. worker[s] # "none" /\ UNCHANGED <<up, disc, nodePeers, mapVars, sep, overlapped>>
      BY <2>1 DEF TakeMessage
    <3> QED BY <1>0, <2>1, <3>1, <3>2, <3>3
  <2>2. ASSUME HandshakeInvalid(s) \/ HandshakeDuplicate(s) \/ HandshakeValid(s) PROVE Goal
    <3>1. status' \in [Session -> Outcome]
      BY <1>0, <2>2 DEF HandshakeInvalid, HandshakeDuplicate, HandshakeValid, Outcome
    <3> QED BY <2>1, <2>2, <3>1
        DEF HandshakeInvalid, HandshakeDuplicate, HandshakeValid, Place, Ended
  <2>3. ASSUME HandshakeClaim(s) PROVE Goal
    <3>1. QueueOK' /\ Waiting'
      BY <2>3, TaskWaiting DEF HandshakeClaim
    <3> QED BY <1>0, <2>3, <3>1 DEF HandshakeClaim, Place, Outcome
  <2>4. ASSUME HandshakeInsert(s) PROVE Goal
    <3>1. QueueOK' /\ Waiting'
      BY <2>4, TaskWaiting DEF HandshakeInsert
    <3> QED BY <1>0, <2>4, <3>1 DEF HandshakeInsert, Place, Outcome
  <2>5. ASSUME AwaitMore(s) \/ BecomePeer(s) \/ CloseDuplicate(s) PROVE Goal
    <3>1. QueueOK' /\ Waiting'
      BY <2>5, TaskWaiting DEF AwaitMore, BecomePeer, CloseDuplicate
    <3> QED BY <1>0, <2>5, <3>1 DEF AwaitMore, BecomePeer, CloseDuplicate, Place, Ended
  <2>6. ASSUME HandshakerStop(s) \/ PeerStop(s) PROVE Goal
    <3>1. QueueOK' /\ Waiting'
      BY <2>6, TaskWaiting DEF HandshakerStop, PeerStop
    <3> QED BY <1>0, <2>6, <3>1 DEF HandshakerStop, PeerStop, Place, Ended
  <2>7. ASSUME RemovePeer(s) PROVE Goal
    <3>1. QueueOK' /\ Waiting'
      BY <2>7, TaskWaiting DEF RemovePeer
    <3> QED BY <1>0, <2>7, <3>1 DEF RemovePeer, Place
  <2>8. ASSUME RemoveHandshaked(s) PROVE Goal
    <3>1. QueueOK' /\ Waiting'
      BY <2>8, TaskWaiting DEF RemoveHandshaked
    <3>2. senders' \in [Session -> SUBSET Kind]
      BY <1>0, <2>8 DEF RemoveHandshaked
    <3> QED BY <1>0, <2>8, <3>1, <3>2 DEF RemoveHandshaked, Place, Ended
  <2> HIDE DEF Goal
  <2> QED BY <1>8, <2>2, <2>3, <2>4, <2>5, <2>6, <2>7, <2>8 DEF TaskStep
<1>9. CASE UNCHANGED vars
  BY <1>0, <1>9 DEF vars, QueueOK, Waiting, IsConn
<1> HIDE DEF Goal
<1> QED BY <1>1, <1>2, <1>3, <1>4, <1>5, <1>6, <1>7, <1>8, <1>9 DEF Next, NodeStep

(* Every reachable state of the peer maps, the node's map and the session  *)
(* tasks is well-typed.                                                    *)
THEOREM TypeCorrect == Spec => []TypeOK
<1>1. TypeInv => TypeOK
  BY DEF TypeInv
<1> QED BY <1>1, InitType, NextType, PTL DEF Spec

-----------------------------------------------------------------------------
(* Ghost peers.  An entry is made by a session in "claimed", whose status  *)
(* becomes Done.  While the entry is there its own address is taken, so a  *)
(* further handshake of the chunk cannot be valid: it leaves the status or *)
(* makes it Duplicate.  Otherwise the states that follow lead to "unlist"  *)
(* and to the removal of the entry, whose ever it is by then.              *)

(* The sender workers of a listed peer are complete. *)
ListInv == NoGhostPeer /\ ListedPeerCanSend

LEMMA InitList == Init => ListInv
BY PeeringAssumption DEF Init, ListInv, NoGhostPeer, ListedPeerCanSend

LEMMA NextList == TypeInv /\ ListInv /\ [Next]_vars => ListInv'
<1> SUFFICES ASSUME TypeInv, ListInv, [Next]_vars PROVE ListInv'
  OBVIOUS
<1>0. RestOK /\ TaskHasEp /\ NoGhostPeer /\ ListedPeerCanSend
  BY TypeSplit DEF TypeInv, ListInv
<1> USE PeeringAssumption DEF RestOK, TaskHasEp, ListInv, NoGhostPeer, ListedPeerCanSend,
    Served, Forsaken
<1> USE DEF netVars, mapVars, sessVars
<1> DEFINE Goal == NoGhostPeer' /\ ListedPeerCanSend'
<1> SUFFICES Goal
  OBVIOUS
<1>1. ASSUME NEW e \in Ep, NEW s \in Session, NetConnected(e, s) PROVE Goal
  <2>1. worker[s] = "none"
    BY <1>0, <1>1 DEF NetConnected
  <2> QED BY <1>0, <1>1, <2>1 DEF NetConnected
<1>2. ASSUME NEW e \in Ep, NetDisconnected(e) \/ NetBytes(e) \/ NetCommand(e) PROVE Goal
  BY <1>0, <1>2 DEF NetDisconnected, NetBytes, NetCommand
<1>3. CASE NodeConnected
  <2>1. PICK s \in Session : /\ worker[s] = "none"
                             /\ worker' = [worker EXCEPT ![s] = "await"]
    BY <1>3, HandleTakes DEF NodeConnected, Goto
  <2>2. UNCHANGED <<handshaked, senders, sep, status>>
    BY <1>3 DEF NodeConnected
  <2> QED BY <1>0, <2>1, <2>2
<1>4. CASE NodeDisconnected \/ NodeBytes
  BY <1>0, <1>4 DEF NodeDisconnected, NodeBytes
<1>5. ASSUME NEW s \in Session, TaskStep(s) PROVE Goal
  <2> USE DEF Goto, Settle
  <2>1. ASSUME HandshakeInvalid(s) \/ HandshakeDuplicate(s) \/ HandshakeValid(s) PROVE Goal
    <3>1. /\ UNCHANGED <<handshaked, senders, sep>>
          /\ worker[s] \in {"await", "handled"}
          /\ \A t \in Session : t # s => worker'[t] = worker[t] /\ status'[t] = status[t]
      BY <1>0, <2>1
         DEF HandshakeInvalid, HandshakeDuplicate, HandshakeValid, TakeMessage
    <3>2. ASSUME NEW e \in Ep, handshaked[e] = s PROVE Served(s)' \/ Forsaken(s)'
      <4>1. sep[s] = e /\ worker[s] = "handled" /\ status[s] \in {"Done", "Duplicate"}
        BY <1>0, <3>1, <3>2
      <4>2. AddressTaken(s)
        BY <1>0, <3>2, <4>1 DEF AddressTaken
      <4>3. worker'[s] = "handled" /\ status'[s] \in {"Done", "Duplicate"}
        BY <1>0, <2>1, <4>1, <4>2 DEF HandshakeInvalid, HandshakeDuplicate, HandshakeValid
      <4> QED BY <4>3
    <3> QED BY <1>0, <3>1, <3>2
  <2>2. ASSUME HandshakeClaim(s) PROVE Goal
    BY <1>0, <2>2 DEF HandshakeClaim
  <2>3. ASSUME HandshakeInsert(s) PROVE Goal
    BY <1>0, <2>3 DEF HandshakeInsert
  <2>4. ASSUME AwaitMore(s) \/ BecomePeer(s) PROVE Goal
    BY <1>0, <2>4 DEF AwaitMore, BecomePeer
  <2>5. ASSUME CloseDuplicate(s) \/ HandshakerStop(s) \/ PeerStop(s) PROVE Goal
    BY <1>0, <2>5 DEF CloseDuplicate, HandshakerStop, PeerStop
  <2>6. ASSUME RemovePeer(s) PROVE Goal
    BY <1>0, <2>6 DEF RemovePeer
  <2>7. ASSUME RemoveHandshaked(s) PROVE Goal
    <3>1. PICK e \in Ep : e = sep[s]
      BY <1>0, <2>7 DEF RemoveHandshaked
    <3>2. \A f \in Ep : handshaked'[f] = IF f = e THEN None ELSE handshaked[f]
      BY <1>0, <2>7, <3>1 DEF RemoveHandshaked
    <3>3. \A t \in Session : t # s => worker'[t] = worker[t]
      BY <1>0, <2>7 DEF RemoveHandshaked
    <3>4. \A t \in Session : t # handshaked[e] => senders'[t] = senders[t]
      BY <1>0, <2>7, <3>1 DEF RemoveHandshaked
    <3>5. sep' = sep /\ status' = status
      BY <2>7 DEF RemoveHandshaked
    <3> QED BY <1>0, <3>1, <3>2, <3>3, <3>4, <3>5
  <2> HIDE DEF Goal
  <2> QED BY <1>5, <2>1, <2>2, <2>3, <2>4, <2>5, <2>6, <2>7 DEF TaskStep
<1>6. CASE UNCHANGED vars
  BY <1>0, <1>6 DEF vars
<1> HIDE DEF Goal
<1> QED BY <1>1, <1>2, <1>3, <1>4, <1>5, <1>6 DEF Next, NodeStep

(* An entry of handshaked_peers is always the entry of a session of the    *)
(* same endpoint, whose task has still to remove it, or whose status a     *)
(* further handshake in the same chunk has turned into Duplicate: there is *)
(* no other way to a ghost peer.                                           *)
THEOREM NoGhost == Spec => []NoGhostPeer
<1>1. TypeInv /\ ListInv => NoGhostPeer
  BY DEF ListInv
<1> QED BY <1>1, InitType, NextType, InitList, NextList, PTL DEF Spec

(* Every peer that SenderWorker::send finds in handshaked_peers has its    *)
(* four sender workers running.                                            *)
THEOREM CanSend == Spec => []ListedPeerCanSend
<1>1. TypeInv /\ ListInv => ListedPeerCanSend
  BY DEF ListInv
<1> QED BY <1>1, InitType, NextType, InitList, NextList, PTL DEF Spec

-----------------------------------------------------------------------------
(* Endpoints whose sessions never overlap.  At most one of their tasks is  *)
(* alive; until it is listed its entry in `peers` is there to be claimed,  *)
(* because nobody else claims or removes it; and what it has inserted      *)
(* nobody else replaces or removes.                                        *)

Live(s) == sep[s] \in Ep /\ sep[s] \notin overlapped /\ worker[s] \notin Ended

Alone == \A s, t \in Session : Live(s) /\ Live(t) /\ sep[s] = sep[t] => s = t

(* The session has not been listed yet. *)
Unlisted(s) ==
  \/ worker[s] \in {"await", "validated"}
  \/ worker[s] = "handled" /\ status[s] = "Awaiting"

(* It was refused: for the address of another, or for its own. *)
Refused(s) == worker[s] = "handled" /\ status[s] = "Duplicate"

Claimable ==
  \A s \in Session : Live(s) =>
     /\ Unlisted(s) => sep[s] \in peers
     /\ Refused(s) => sep[s] \in peers \/ handshaked[sep[s]] = s

Holds == \A s \in Session : Live(s) /\ Served(s) => handshaked[sep[s]] = s

NoPanic ==
  \A s \in Session : sep[s] # None /\ sep[s] \notin overlapped => worker[s] # "panicked"

(* A handshaker that waits has settled nothing. *)
Fresh == \A s \in Session : worker[s] \in {"none", "await"} => status[s] = "Awaiting"

SoundInv == Alone /\ Claimable /\ Holds /\ NoPanic /\ Fresh

LEMMA InitSound == Init => SoundInv
BY PeeringAssumption
   DEF Init, SoundInv, Alone, Claimable, Holds, NoPanic, Fresh, Live, Ended

(* What a session's state says, its place and status given. *)
LEMMA SameState ==
  ASSUME NEW t \in Session, worker'[t] = worker[t], status'[t] = status[t]
  PROVE  /\ Unlisted(t)' <=> Unlisted(t)
         /\ Refused(t)' <=> Refused(t)
         /\ Served(t)' <=> Served(t)
BY DEF Unlisted, Refused, Served

(* A task's step leaves the endpoint, the history and the liveness of      *)
(* every other session alone, and none of them has its endpoint.           *)
LEMMA OwnStep ==
  ASSUME RestOK, Alone, NEW s \in Session, worker[s] \notin Ended, sep' = sep,
         overlapped' = overlapped,
         \A t \in Session : t # s => worker'[t] = worker[t]
  PROVE  /\ Alone'
         /\ \A t \in Session : t # s => (Live(t)' <=> Live(t))
         /\ \A t \in Session : t # s /\ Live(s) /\ Live(t) => sep[t] # sep[s]
         /\ Live(s)' => Live(s)
BY DEF RestOK, Alone, Live

(* So the invariant is kept if it is for the session itself, and its step  *)
(* changes the maps at no other endpoint.                                  *)
LEMMA OwnStepSound ==
  ASSUME RestOK, SoundInv, NEW s \in Session, worker[s] \notin Ended, sep[s] \in Ep,
         sep' = sep, overlapped' = overlapped,
         \A t \in Session : t # s => worker'[t] = worker[t] /\ status'[t] = status[t],
         \A e \in Ep : e # sep[s] => handshaked'[e] = handshaked[e] /\ (e \in peers => e \in peers'),
         Live(s)' => /\ Unlisted(s)' => sep[s] \in peers'
                     /\ Refused(s)' => sep[s] \in peers' \/ handshaked'[sep[s]] = s
                     /\ Served(s)' => handshaked'[sep[s]] = s,
         sep[s] \notin overlapped => worker'[s] # "panicked",
         worker'[s] \in {"none", "await"} => status'[s] = "Awaiting"
  PROVE  SoundInv'
<1>0. Alone /\ Claimable /\ Holds /\ NoPanic /\ Fresh
  BY DEF SoundInv
<1>1. /\ Alone'
      /\ \A t \in Session : t # s => (Live(t)' <=> Live(t))
      /\ \A t \in Session : t # s /\ Live(s) /\ Live(t) => sep[t] # sep[s]
  BY <1>0, OwnStep
<1>2. ASSUME NEW t \in Session, t # s, Live(t)'
      PROVE  /\ Unlisted(t)' => sep[t] \in peers'
             /\ Refused(t)' => sep[t] \in peers' \/ handshaked'[sep[t]] = t
             /\ Served(t)' => handshaked'[sep[t]] = t
  <2>1. Live(t) /\ sep[t] \in Ep
    BY <1>1, <1>2 DEF Live
  <2>2. sep[s] \notin overlapped => Live(s)
    BY DEF Live
  <2>3. sep[t] # sep[s]
    BY <1>1, <1>2, <2>1, <2>2 DEF Live
  <2>4. /\ Unlisted(t) => sep[t] \in peers
        /\ Refused(t) => sep[t] \in peers \/ handshaked[sep[t]] = t
        /\ Served(t) => handshaked[sep[t]] = t
    BY <1>0, <2>1 DEF Claimable, Holds
  <2> QED BY <1>2, <2>1, <2>3, <2>4, SameState
<1>3. Claimable' /\ Holds'
  BY <1>2 DEF Claimable, Holds
<1>4. NoPanic' /\ Fresh'
  BY <1>0 DEF NoPanic, Fresh
<1> QED BY <1>1, <1>3, <1>4 DEF SoundInv

LEMMA NextSound == TypeInv /\ SoundInv /\ [Next]_vars => SoundInv'
<1> SUFFICES ASSUME TypeInv, SoundInv, [Next]_vars PROVE SoundInv'
  OBVIOUS
<1>0. RestOK /\ TaskHasEp /\ Alone /\ Claimable /\ Holds /\ NoPanic /\ Fresh
  BY TypeSplit DEF TypeInv, SoundInv
<1> USE PeeringAssumption DEF RestOK, TaskHasEp
<1> USE DEF netVars, mapVars, sessVars
<1> DEFINE Goal == Alone' /\ Claimable' /\ Holds' /\ NoPanic' /\ Fresh'
<1>g. Goal => SoundInv'
  BY DEF SoundInv
<1>1. ASSUME NEW e \in Ep, NEW s \in Session, NetConnected(e, s) PROVE Goal
  <2>1. worker[s] = "none"
    BY <1>0, <1>1 DEF NetConnected
  <2>2. /\ UNCHANGED <<worker, status, peers, handshaked, overlapped>>
        /\ \A t \in Session : t # s => sep'[t] = sep[t]
    BY <1>0, <1>1 DEF NetConnected
  <2>3. ~Live(s)' /\ \A t \in Session : t # s => (Live(t)' <=> Live(t))
    BY <2>1, <2>2 DEF Live, Ended
  <2>4. Alone'
    BY <1>0, <2>2, <2>3 DEF Alone
  <2>5. ASSUME NEW t \in Session
        PROVE  /\ Unlisted(t)' <=> Unlisted(t)
               /\ Refused(t)' <=> Refused(t)
               /\ Served(t)' <=> Served(t)
    BY <2>2, SameState
  <2>6. Claimable' /\ Holds'
    BY <1>0, <2>2, <2>3, <2>5 DEF Claimable, Holds
  <2>7. NoPanic' /\ Fresh'
    BY <1>0, <2>1, <2>2 DEF NoPanic, Fresh
  <2> QED BY <2>4, <2>6, <2>7
<1>2. ASSUME UNCHANGED <<worker, status, sep, peers, handshaked, overlapped>> PROVE Goal
  BY <1>0, <1>2
     DEF Alone, Claimable, Holds, NoPanic, Fresh, Live, Unlisted, Refused, Served
<1>3. CASE NodeConnected
  <2>1. PICK e \in Ep, s \in Session :
          /\ sep[s] = e
          /\ worker[s] = "none"
          /\ worker' = [worker EXCEPT ![s] = "await"]
          /\ peers' = peers \union {e}
          /\ overlapped' = IF \E t \in Session : sep[t] = e /\ worker[t] \notin Ended
                           THEN overlapped \union {e}
                           ELSE overlapped
    BY <1>3, HandleTakes DEF NodeConnected, Goto
  <2>2. UNCHANGED <<handshaked, sep, status>>
    BY <1>3 DEF NodeConnected
  <2>3. /\ worker'[s] = "await"
        /\ \A t \in Session : t # s => worker'[t] = worker[t] /\ (Live(t)' => Live(t))
    BY <1>0, <2>1, <2>2 DEF Live
  <2>4. ASSUME NEW t \in Session, t # s, Live(t)', sep[t] = e PROVE ~Live(s)'
    <3>1. worker[t] \notin Ended
      BY <2>3, <2>4 DEF Live
    <3> QED BY <2>1, <2>2, <2>4, <3>1 DEF Live
  <2>5. Alone'
    BY <1>0, <2>1, <2>2, <2>3, <2>4 DEF Alone
  <2>6. ASSUME NEW t \in Session, t # s
        PROVE  /\ Unlisted(t)' <=> Unlisted(t)
               /\ Refused(t)' <=> Refused(t)
               /\ Served(t)' <=> Served(t)
    BY <2>2, <2>3, <2>6, SameState
  <2>7. ~Refused(s)' /\ ~Served(s)'
    BY <2>3 DEF Refused, Served
  <2>8. Claimable' /\ Holds'
    BY <1>0, <2>1, <2>2, <2>3, <2>6, <2>7 DEF Claimable, Holds
  <2>9. NoPanic' /\ Fresh'
    BY <1>0, <2>1, <2>2, <2>3 DEF NoPanic, Fresh
  <2> QED BY <2>5, <2>8, <2>9, <1>g
<1>4. ASSUME NEW s \in Session, TaskStep(s) PROVE SoundInv'
  <2>0. sep' = sep /\ overlapped' = overlapped /\ sep[s] \in Ep
    BY <1>0, <1>4 DEF TaskStep, HandshakeInvalid, HandshakeDuplicate, HandshakeValid,
       TakeMessage, HandshakeClaim, HandshakeInsert, AwaitMore, BecomePeer, CloseDuplicate,
       HandshakerStop, PeerStop, RemovePeer, RemoveHandshaked
  <2>1. Live(s) =>
          /\ Unlisted(s) => sep[s] \in peers
          /\ Refused(s) => sep[s] \in peers \/ handshaked[sep[s]] = s
          /\ Served(s) => handshaked[sep[s]] = s
    BY <1>0 DEF Claimable, Holds
  <2> USE DEF Goto, Settle
  <2> DEFINE Others ==
        /\ worker[s] \notin Ended
        /\ \A t \in Session : t # s => worker'[t] = worker[t] /\ status'[t] = status[t]
        /\ \A e \in Ep : e # sep[s] =>
              handshaked'[e] = handshaked[e] /\ (e \in peers => e \in peers')
      Own ==
        /\ Live(s)' => /\ Unlisted(s)' => sep[s] \in peers'
                       /\ Refused(s)' => sep[s] \in peers' \/ handshaked'[sep[s]] = s
                       /\ Served(s)' => handshaked'[sep[s]] = s
        /\ sep[s] \notin overlapped => worker'[s] # "panicked"
        /\ worker'[s] \in {"none", "await"} => status'[s] = "Awaiting"
  <2>2. ASSUME Others, Own PROVE SoundInv'
    BY <1>0, <2>0, <2>2, OwnStepSound
  <2>3. ASSUME Others PROVE Live(s)' => Live(s)
    BY <2>0, <2>3 DEF Live
  <2>4. ASSUME HandshakeInvalid(s) \/ HandshakeDuplicate(s) \/ HandshakeValid(s)
        PROVE  SoundInv'
    <3>1. /\ Others
          /\ worker[s] \in {"await", "handled"}
          /\ UNCHANGED <<peers, handshaked>>
      BY <1>0, <2>4 DEF HandshakeInvalid, HandshakeDuplicate, HandshakeValid, TakeMessage, Ended
    <3>2. CASE HandshakeInvalid(s)
      <4>1. worker'[s] = "handled" /\ status'[s] = status[s]
        BY <1>0, <3>2 DEF HandshakeInvalid
      <4>2. Unlisted(s)' => Unlisted(s)
        BY <3>1, <4>1 DEF Unlisted
      <4>3. (Refused(s)' => Refused(s)) /\ (Served(s)' => Served(s))
        BY <1>0, <3>1, <4>1 DEF Refused, Served, Fresh
      <4> QED BY <2>0, <2>1, <2>2, <2>3, <3>1, <4>1, <4>2, <4>3
    <3>3. CASE HandshakeDuplicate(s)
      <4>1. worker'[s] = "handled" /\ status'[s] = "Duplicate"
        BY <1>0, <3>3 DEF HandshakeDuplicate
      <4>2. ~Unlisted(s)' /\ ~Served(s)'
        BY <4>1 DEF Unlisted, Served
      <4>3. Unlisted(s) \/ Refused(s) \/ Served(s)
        BY <1>0, <3>1 DEF Unlisted, Refused, Served, Outcome
      <4> QED BY <2>0, <2>1, <2>2, <2>3, <3>1, <4>1, <4>2, <4>3
    <3>4. CASE HandshakeValid(s)
      <4>1. worker'[s] = "validated"
        BY <1>0, <3>4 DEF HandshakeValid
      <4>2. ~Refused(s)' /\ ~Served(s)'
        BY <4>1 DEF Refused, Served
      <4>3. Unlisted(s) \/ Refused(s) \/ Served(s)
        BY <1>0, <3>1 DEF Unlisted, Refused, Served, Outcome
      <4>4. handshaked[sep[s]] # s
        BY <2>0, <3>4 DEF HandshakeValid, AddressTaken
      <4> QED BY <2>0, <2>1, <2>2, <2>3, <3>1, <4>1, <4>2, <4>3, <4>4
    <3> QED BY <2>4, <3>2, <3>3, <3>4
  <2>5. ASSUME HandshakeClaim(s) PROVE SoundInv'
    <3>1. /\ Others
          /\ worker[s] = "validated"
          /\ UNCHANGED handshaked
      BY <1>0, <2>5 DEF HandshakeClaim, Ended
    <3>2. Live(s)' => worker'[s] = "claimed"
      BY <1>0, <2>1, <2>3, <2>5, <3>1 DEF HandshakeClaim, Unlisted
    <3>3. Live(s)' => ~Unlisted(s)' /\ ~Refused(s)' /\ ~Served(s)'
      BY <3>2 DEF Unlisted, Refused, Served
    <3>4. worker'[s] \in {"claimed", "handled"}
      BY <1>0, <2>5 DEF HandshakeClaim
    <3> QED BY <2>2, <3>1, <3>3, <3>4
  <2>6. ASSUME HandshakeInsert(s) PROVE SoundInv'
    <3>1. /\ Others
          /\ handshaked'[sep[s]] = s
          /\ worker'[s] = "handled" /\ status'[s] = "Done"
      BY <1>0, <2>0, <2>6 DEF HandshakeInsert, Ended
    <3>2. ~Unlisted(s)' /\ ~Refused(s)'
      BY <3>1 DEF Unlisted, Refused
    <3> QED BY <2>2, <3>1, <3>2
  <2>7. ASSUME AwaitMore(s) PROVE SoundInv'
    <3>1. /\ Others
          /\ UNCHANGED <<peers, handshaked>>
          /\ worker[s] = "handled" /\ status[s] = "Awaiting"
          /\ worker'[s] = "await" /\ status'[s] = "Awaiting"
      BY <1>0, <2>7 DEF AwaitMore, Ended
    <3>2. Unlisted(s) /\ ~Refused(s)' /\ ~Served(s)'
      BY <3>1 DEF Unlisted, Refused, Served
    <3> QED BY <2>1, <2>2, <2>3, <3>1, <3>2
  <2>8. ASSUME BecomePeer(s) PROVE SoundInv'
    <3>1. /\ Others
          /\ UNCHANGED <<peers, handshaked>>
          /\ worker[s] = "handled" /\ status[s] = "Done"
          /\ worker'[s] = IF handshaked[sep[s]] # None THEN "peer" ELSE "panicked"
      BY <1>0, <2>8 DEF BecomePeer, Ended
    <3>2. Served(s) /\ ~Unlisted(s)' /\ ~Refused(s)'
      BY <3>1 DEF Unlisted, Refused, Served
    <3>3. sep[s] \notin overlapped => handshaked[sep[s]] = s /\ worker'[s] = "peer"
      BY <2>0, <2>1, <3>1, <3>2 DEF Live
    <3> QED BY <2>0, <2>1, <2>2, <2>3, <3>1, <3>2, <3>3
  <2>9. ASSUME CloseDuplicate(s) \/ HandshakerStop(s) PROVE SoundInv'
    <3>1. Others /\ worker'[s] = "stopped"
      BY <1>0, <2>9 DEF CloseDuplicate, HandshakerStop, Ended
    <3>2. ~Live(s)'
      BY <3>1 DEF Live, Ended
    <3> QED BY <2>2, <3>1, <3>2
  <2>10. ASSUME PeerStop(s) PROVE SoundInv'
    <3>1. /\ Others
          /\ UNCHANGED handshaked
          /\ worker[s] = "peer" /\ worker'[s] = "remove"
      BY <1>0, <2>10 DEF PeerStop, Ended
    <3>2. Served(s) /\ ~Unlisted(s)' /\ ~Refused(s)'
      BY <3>1 DEF Unlisted, Refused, Served
    <3> QED BY <2>1, <2>2, <2>3, <3>1, <3>2
  <2>11. ASSUME RemovePeer(s) PROVE SoundInv'
    <3>1. /\ Others
          /\ UNCHANGED handshaked
          /\ worker[s] = "remove" /\ worker'[s] = "unlist"
      BY <1>0, <2>11 DEF RemovePeer, Ended
    <3>2. Served(s) /\ ~Unlisted(s)' /\ ~Refused(s)'
      BY <3>1 DEF Unlisted, Refused, Served
    <3> QED BY <2>1, <2>2, <2>3, <3>1, <3>2
  <2>12. ASSUME RemoveHandshaked(s) PROVE SoundInv'
    <3>1. Others /\ worker'[s] = "stopped"
      BY <1>0, <2>0, <2>12 DEF RemoveHandshaked, Ended
    <3>2. ~Live(s)'
      BY <3>1 DEF Live, Ended
    <3> QED BY <2>2, <3>1, <3>2
  <2> QED BY <1>4, <2>4, <2>5, <2>6, <2>7, <2>8, <2>9, <2>10, <2>11, <2>12 DEF TaskStep
<1>5. ASSUME NEW e \in Ep, NetDisconnected(e) \/ NetBytes(e) \/ NetCommand(e) PROVE Goal
  BY <1>2, <1>5 DEF NetDisconnected, NetBytes, NetCommand
<1>6. CASE NodeDisconnected \/ NodeBytes \/ UNCHANGED vars
  BY <1>2, <1>6, <1>g DEF NodeDisconnected, NodeBytes, vars
<1> HIDE DEF Goal
<1> QED BY <1>g, <1>1, <1>3, <1>4, <1>5, <1>6 DEF Next, NodeStep

(* For an endpoint whose sessions never overlap, the unwrap of the         *)
(* handshaker finds the session's own entry, and the peer stays listed     *)
(* until its own worker removes it.                                        *)
THEOREM SoundSessions == Spec => []SoundUnlessOverlapped
<1>1. TypeInv /\ SoundInv => SoundUnlessOverlapped
  BY TypeSplit, PeeringAssumption
     DEF TypeInv, RestOK, SoundInv, SoundUnlessOverlapped, Holds, NoPanic, Live, Served, Ended
<1> QED BY <1>1, InitType, NextType, InitSound, NextSound, PTL DEF Spec

=============================================================================
