------------------------------- MODULE Peering -------------------------------
(***************************************************************************)
(* The life cycle of a peer, from the network's events to the peer maps of *)
(* bee-protocol and back.                                                  *)
(*                                                                         *)
(* The node registers each EndpointConnected as a session: a task that is  *)
(* first a PeerHandshakerWorker and then, once the handshake is done, a    *)
(* PeerWorker.  The node keeps one session per endpoint id; replacing or   *)
(* removing it signals the task's shutdown.  PeerManager keeps two maps    *)
(* over endpoint ids, `peers` (awaiting the handshake) and                 *)
(* `handshaked_peers`; all tasks change them, one access at a time.        *)
(*                                                                         *)
(* Two endpoint ids have the same address if they lead to the same peer:   *)
(* the one we dialled, and the one under which it has dialled us.          *)
(***************************************************************************)
EXTENDS Naturals, Sequences

CONSTANTS
    Ep,         \* endpoint ids
    Addr,       \* Addr[e]: the address that validate_handshake returns for e
    Session,    \* connections, and the sessions made of them; each once (bound)
    None,       \* no session
    MaxBytes    \* bound: handshake messages the network delivers

ASSUME PeeringAssumption ==
    /\ None \notin Ep
    /\ None \notin Session
    /\ MaxBytes \in Nat

Kind == {"MilestoneRequest", "TransactionBroadcast", "TransactionRequest", "Heartbeat"}

VARIABLES
    events,      \* published network events the node has not handled yet
    up,          \* endpoints the network last reported as connected
    disc,        \* endpoints with a Disconnect command under way
    bytes,       \* handshake messages delivered so far (bound)
    nodePeers,   \* Node::peers
    peers,       \* PeerManager::peers, as a set
    handshaked,  \* PeerManager::handshaked_peers: the session that made the entry
    sep,         \* sep[s]: the endpoint of connection s, None before it exists
    worker,      \* worker[s]: where the task of session s is
    status,      \* status[s]: the HandshakeStatus of its handshaker
    inbox,       \* sessions with a chunk of handshakes in their channel
    senders,     \* senders[s]: the SenderWorkers that serve s's handshaked peer
    overlapped   \* endpoints registered while an older session was alive (history)

netVars == <<events, up, disc, bytes>>
mapVars == <<peers, handshaked, senders>>
sessVars == <<sep, worker, status, inbox>>
vars == <<netVars, nodePeers, mapVars, sessVars, overlapped>>

Init ==
    /\ events = <<>>
    /\ up = {}
    /\ disc = {}
    /\ bytes = 0
    /\ nodePeers = [e \in Ep |-> None]
    /\ peers = {}
    /\ handshaked = [e \in Ep |-> None]
    /\ sep = [s \in Session |-> None]
    /\ worker = [s \in Session |-> "none"]
    /\ status = [s \in Session |-> "Awaiting"]
    /\ inbox = {}
    /\ senders = [s \in Session |-> {}]
    /\ overlapped = {}

Goto(s, at) == worker' = [worker EXCEPT ![s] = at]

Ended == {"none", "stopped", "panicked"}

-----------------------------------------------------------------------------
(* The network, as seen through the events it publishes (module Endpoint). *)
(* An endpoint may be reported connected twice in a row, and disconnected  *)
(* at any time.                                                            *)

Publish(type, e, s) == events' = Append(events, [type |-> type, ep |-> e, session |-> s])

NetConnected(e, s) ==
    /\ sep[s] = None
    /\ sep' = [sep EXCEPT ![s] = e]
    /\ up' = up \union {e}
    /\ Publish("EndpointConnected", e, s)
    /\ UNCHANGED <<disc, bytes, nodePeers, mapVars, worker, status, inbox, overlapped>>

NetDisconnected(e) ==
    /\ e \in up
    /\ up' = up \ {e}
    /\ Publish("EndpointDisconnected", e, None)
    /\ UNCHANGED <<disc, bytes, nodePeers, mapVars, sessVars, overlapped>>

(* A chunk of bytes arrives with the peer's handshake, or several: how     *)
(* many shows when the handshaker reads on in it.  The reader runs before  *)
(* its connection is announced and after it was cut.                       *)
NetBytes(e) ==
    /\ bytes < MaxBytes
    /\ bytes' = bytes + 1
    /\ Publish("MessageReceived", e, None)
    /\ UNCHANGED <<up, disc, nodePeers, mapVars, sessVars, overlapped>>

(* The Disconnect command of a handshaker is carried out. *)
NetCommand(e) ==
    /\ e \in disc
    /\ disc' = disc \ {e}
    /\ up' = up \ {e}
    /\ IF e \in up THEN Publish("EndpointDisconnected", e, None) ELSE UNCHANGED events
    /\ UNCHANGED <<bytes, nodePeers, mapVars, sessVars, overlapped>>

-----------------------------------------------------------------------------
(* The node's event loop.                                                  *)

Handle(type) ==
    /\ events # <<>>
    /\ Head(events).type = type
    /\ events' = Tail(events)
    /\ UNCHANGED <<up, disc, bytes>>

(* Protocol::register; the entry it replaces in Node::peers is dropped,    *)
(* and with it the sender of the older session's shutdown signal.          *)
NodeConnected ==
    /\ Handle("EndpointConnected")
    /\ LET e == Head(events).ep
           s == Head(events).session
       IN  /\ peers' = peers \union {e}
           /\ Goto(s, "await")
           /\ nodePeers' = [nodePeers EXCEPT ![e] = s]
           /\ overlapped' = IF \E t \in Session : sep[t] = e /\ worker[t] \notin Ended
                            THEN overlapped \union {e}
                            ELSE overlapped
    /\ UNCHANGED <<handshaked, senders, sep, status, inbox>>

NodeDisconnected ==
    /\ Handle("EndpointDisconnected")
    /\ nodePeers' = [nodePeers EXCEPT ![Head(events).ep] = None]
    /\ UNCHANGED <<mapVars, sessVars, overlapped>>

(* Mutant: bytes are put in a channel whether or not the session exists. *)
NodeBytesUnchecked ==
    /\ Handle("MessageReceived")
    /\ inbox' = inbox \union {nodePeers[Head(events).ep]}
    /\ UNCHANGED <<nodePeers, mapVars, sep, worker, status, overlapped>>

(* Bytes of an endpoint without a session are dropped. *)
NodeBytes ==
    /\ Handle("MessageReceived")
    /\ inbox' = inbox \union ({nodePeers[Head(events).ep]} \ {None})
    /\ UNCHANGED <<nodePeers, mapVars, sep, worker, status, overlapped>>

-----------------------------------------------------------------------------
(* PeerHandshakerWorker.                                                   *)

(* The shutdown future resolves: signalled, or its sender dropped. *)
Signalled(s) == nodePeers[sep[s]] # s

(* The next handshake: the first of a chunk from the channel, or another   *)
(* one of the chunk that message_handler is in.                            *)
TakeMessage(s) ==
    /\ \/ /\ worker[s] = "await"
          /\ s \in inbox
          /\ inbox' = inbox \ {s}
          /\ UNCHANGED bytes
       \/ /\ worker[s] = "handled"
          /\ bytes < MaxBytes
          /\ bytes' = bytes + 1
          /\ UNCHANGED inbox
    /\ UNCHANGED <<events, up, disc, nodePeers, mapVars, sep, overlapped>>

(* validate_handshake fails for its contents. *)
HandshakeInvalid(s) == TakeMessage(s) /\ Goto(s, "handled") /\ UNCHANGED status

(* An entry has the address: that of another endpoint of the peer, of an   *)
(* older session, or the one that the session has made itself.             *)
AddressTaken(s) ==
    \E f \in Ep : handshaked[f] # None /\ Addr[f] = Addr[sep[s]]

Settle(s, outcome) ==
    /\ status' = [status EXCEPT ![s] = outcome]
    /\ Goto(s, "handled")

HandshakeDuplicate(s) == TakeMessage(s) /\ AddressTaken(s) /\ Settle(s, "Duplicate")

HandshakeValid(s) ==
    TakeMessage(s) /\ ~AddressTaken(s) /\ Goto(s, "validated") /\ UNCHANGED status

(* PeerManager::handshake, its two accesses: nothing is inserted if the    *)
(* entry in `peers` is gone.                                               *)
HandshakeClaim(s) ==
    /\ worker[s] = "validated"
    /\ peers' = peers \ {sep[s]}
    /\ IF sep[s] \in peers
       THEN Goto(s, "claimed") /\ UNCHANGED status
       ELSE Settle(s, "Done")
    /\ UNCHANGED <<netVars, nodePeers, handshaked, senders, sep, inbox, overlapped>>

HandshakeInsert(s) ==
    /\ worker[s] = "claimed"
    /\ handshaked' = [handshaked EXCEPT ![sep[s]] = s]
    /\ senders' = [senders EXCEPT ![s] = Kind]
    /\ Settle(s, "Done")
    /\ UNCHANGED <<netVars, nodePeers, peers, sep, inbox, overlapped>>

(* The chunk is read.  HandshakeStatus::Awaiting: wait for the next one. *)
AwaitMore(s) ==
    /\ worker[s] = "handled"
    /\ status[s] = "Awaiting"
    /\ Goto(s, "await")
    /\ UNCHANGED <<netVars, nodePeers, mapVars, sep, status, inbox, overlapped>>

(* HandshakeStatus::Done: the entry is looked up and unwrapped. *)
BecomePeer(s) ==
    /\ worker[s] = "handled"
    /\ status[s] = "Done"
    /\ Goto(s, IF handshaked[sep[s]] # None THEN "peer" ELSE "panicked")
    /\ UNCHANGED <<netVars, nodePeers, mapVars, sep, status, inbox, overlapped>>

(* HandshakeStatus::Duplicate: the endpoint is disconnected. *)
CloseDuplicate(s) ==
    /\ worker[s] = "handled"
    /\ status[s] = "Duplicate"
    /\ disc' = disc \union {sep[s]}
    /\ Goto(s, "stopped")
    /\ UNCHANGED <<events, up, bytes, nodePeers, mapVars, sep, status, inbox, overlapped>>

(* Mutant: the handshaker does not listen to the shutdown signal. *)
HandshakerStopDeaf(s) == FALSE /\ UNCHANGED vars

(* Shut down before the handshake: the entry in `peers` stays. *)
HandshakerStop(s) ==
    /\ worker[s] = "await"
    /\ Signalled(s)
    /\ Goto(s, "stopped")
    /\ UNCHANGED <<netVars, nodePeers, mapVars, sep, status, inbox, overlapped>>

-----------------------------------------------------------------------------
(* PeerWorker, and the two accesses of PeerManager::remove.                *)

PeerStop(s) ==
    /\ worker[s] = "peer"
    /\ Signalled(s)
    /\ Goto(s, "remove")
    /\ UNCHANGED <<netVars, nodePeers, mapVars, sep, status, inbox, overlapped>>

(* Mutant: the worker ends without the second map. *)
RemovePeerOnly(s) ==
    /\ worker[s] = "remove"
    /\ peers' = peers \ {sep[s]}
    /\ Goto(s, "stopped")
    /\ UNCHANGED <<netVars, nodePeers, handshaked, senders, sep, status, inbox, overlapped>>

RemovePeer(s) ==
    /\ worker[s] = "remove"
    /\ peers' = peers \ {sep[s]}
    /\ Goto(s, "unlist")
    /\ UNCHANGED <<netVars, nodePeers, handshaked, senders, sep, status, inbox, overlapped>>

(* Mutant: the shutdown is sent before the entry is removed, and the       *)
(* removal is left out.                                                    *)
RemoveHandshakedKept(s) ==
    /\ worker[s] = "unlist"
    /\ LET t == handshaked[sep[s]] IN
       senders' = IF t = None THEN senders
                  ELSE [senders EXCEPT ![t] = @ \ {"MilestoneRequest"}]
    /\ Goto(s, "stopped")
    /\ UNCHANGED <<netVars, nodePeers, peers, handshaked, sep, status, inbox, overlapped>>

(* Mutant: the entry is looked up by address, as the duplicate check does. *)
RemoveHandshakedByAddress(s) ==
    /\ worker[s] = "unlist"
    /\ handshaked' = [f \in Ep |-> IF Addr[f] = Addr[sep[s]] THEN None ELSE handshaked[f]]
    /\ Goto(s, "stopped")
    /\ UNCHANGED <<netVars, nodePeers, peers, senders, sep, status, inbox, overlapped>>

(* Whoever made the entry; one of its four sender workers is shut down. *)
RemoveHandshaked(s) ==
    /\ worker[s] = "unlist"
    /\ LET t == handshaked[sep[s]] IN
       senders' = IF t = None THEN senders
                  ELSE [senders EXCEPT ![t] = @ \ {"MilestoneRequest"}]
    /\ handshaked' = [handshaked EXCEPT ![sep[s]] = None]
    /\ Goto(s, "stopped")
    /\ UNCHANGED <<netVars, nodePeers, peers, sep, status, inbox, overlapped>>

-----------------------------------------------------------------------------

NodeStep == NodeConnected \/ NodeDisconnected \/ NodeBytes

TaskStep(s) ==
    \/ HandshakeInvalid(s) \/ HandshakeDuplicate(s) \/ HandshakeValid(s)
    \/ HandshakeClaim(s) \/ HandshakeInsert(s)
    \/ AwaitMore(s) \/ BecomePeer(s) \/ CloseDuplicate(s)
    \/ HandshakerStop(s) \/ PeerStop(s) \/ RemovePeer(s) \/ RemoveHandshaked(s)

Next ==
    \/ \E e \in Ep, s \in Session : NetConnected(e, s)
    \/ \E e \in Ep : NetDisconnected(e) \/ NetBytes(e) \/ NetCommand(e)
    \/ NodeStep
    \/ \E s \in Session : TaskStep(s)

(* The node's loop and the tasks run, and the network carries out          *)
(* commands.  Nothing makes peers connect, disconnect or send.             *)
Fairness ==
    /\ WF_vars(NodeStep)
    /\ \A s \in Session : WF_vars(TaskStep(s))
    /\ \A e \in Ep : WF_vars(NetCommand(e))

Spec == Init /\ [][Next]_vars
FairSpec == Spec /\ Fairness

-----------------------------------------------------------------------------
(* Properties.                                                             *)

(* All maps, queues and program counters are in range. *)
TypeOK ==
    /\ events \in Seq([type : {"EndpointConnected", "EndpointDisconnected", "MessageReceived"},
                       ep : Ep, session : Session \union {None}])
    /\ up \subseteq Ep
    /\ disc \subseteq Ep
    /\ bytes \in Nat
    /\ nodePeers \in [Ep -> Session \union {None}]
    /\ peers \subseteq Ep
    /\ handshaked \in [Ep -> Session \union {None}]
    /\ sep \in [Session -> Ep \union {None}]
    /\ worker \in [Session -> Ended \union {"await", "handled", "validated", "claimed",
                                            "peer", "remove", "unlist"}]
    /\ status \in [Session -> {"Awaiting", "Done", "Duplicate"}]
    /\ inbox \subseteq Session
    /\ senders \in [Session -> SUBSET Kind]
    /\ overlapped \subseteq Ep

(* Session s is served: its handshaker is about to spawn its PeerWorker, or *)
(* that one has not removed its entry yet.                                 *)
Served(s) ==
    \/ worker[s] = "handled" /\ status[s] = "Done"
    \/ worker[s] \in {"peer", "remove", "unlist"}

(* The entry of session s is forsaken: its handshaker listed it, and found *)
(* it again with the next handshake of the same chunk.  The status is then *)
(* Duplicate, no PeerWorker is spawned, and nobody removes the entry.      *)
Forsaken(s) == status[s] = "Duplicate" /\ worker[s] \in {"handled", "stopped"}

(* That is the only way to a ghost peer: any other entry of                *)
(* handshaked_peers is that of a session of the same endpoint whose task   *)
(* is alive and will remove it, even where sessions of one endpoint        *)
(* overlap and remove the entries of each other.                           *)
NoGhostPeer ==
    \A e \in Ep, s \in Session :
        handshaked[e] = s => sep[s] = e /\ (Served(s) \/ Forsaken(s))

(* The peers that SenderWorker::send can find have all four sender         *)
(* workers: no message is put in a channel that nobody reads.              *)
ListedPeerCanSend ==
    \A e \in Ep, s \in Session : handshaked[e] = s => senders[s] = Kind

(* The unwrap of handshaker.rs:148 is safe, and a PeerWorker is listed     *)
(* under its own entry until it removes it, for every endpoint whose       *)
(* sessions never overlap: overlapping sessions of one endpoint id are the *)
(* only cause of lost entries.                                             *)
SoundUnlessOverlapped ==
    \A s \in Session :
        sep[s] # None /\ sep[s] \notin overlapped =>
            /\ worker[s] # "panicked"
            /\ Served(s) => handshaked[sep[s]] = s

(* A session that the node has replaced or removed ends, wherever in the   *)
(* handshake it is (endpoint_disconnected_handler, or the drop of its      *)
(* shutdown sender).                                                       *)
OrphanStops ==
    \A s \in Session :
        (worker[s] # "none" /\ Signalled(s)) ~> worker[s] \in {"stopped", "panicked"}

(* A peer that has disconnected is forgotten: it leaves handshaked_peers   *)
(* unless it is registered again or its entry is forsaken.                 *)
DisconnectedIsForgotten ==
    \A e \in Ep :
        (nodePeers[e] = None) ~>
            \/ handshaked[e] = None
            \/ nodePeers[e] # None
            \/ Forsaken(handshaked[e])

(* handshaker.rs:148 unwraps the entry: it is there. *)
UnwrapSafe == \A s \in Session : worker[s] # "panicked"

=============================================================================
