-------------------------------- MODULE Sync --------------------------------
(***************************************************************************)
(* How a node catches up with the milestones: the TransactionWorker, the   *)
(* MilestoneValidatorWorker, the two protocol solidifiers and the two      *)
(* requesters of bee-protocol, over the tangle that they share.            *)
(*                                                                         *)
(* The workers are tasks; an action is a worker's run from one access to   *)
(* shared state to the next.  They are connected by bounded channels and   *)
(* by two unbounded priority queues, of which only the set of entries is   *)
(* kept: a second entry for the same thing repeats a request.  The tangle  *)
(* solidifies in the background as module Solidification says, except for  *)
(* replaced transactions.                                                  *)
(*                                                                         *)
(* Transactions that do not decode or lack proof of work change nothing    *)
(* but the cache and are left out.  The TinyHashCache filters what is in   *)
(* the tangle already, unless it was evicted meanwhile (TxAgain).          *)
(***************************************************************************)
EXTENDS Naturals, Sequences

CONSTANTS
    Hash,        \* transaction hashes
    None,        \* no transaction
    SEP,         \* solid entry points
    Trunk,       \* Trunk[h], Branch[h]: the parents of h
    Branch,
    BundleField, \* BundleField[h]: the bundle hash that h carries
    IsTail,      \* IsTail[h]: whether its index field is 0
    Watched,     \* transactions of the coordinator's or the null address
    Index,       \* indexes of the milestones that the coordinator issued
    MsBundle,    \* MsBundle[i]: the transactions of milestone i, tail first
    Snap,        \* the milestone index of the snapshot
    Public,      \* transactions that peers broadcast unasked
    RequestRange, \* MILESTONE_REQUEST_RANGE
    Capacity,    \* the bounds of the workers' channels
    MaxPeers,    \* bound: peers at the same time
    MaxJoins,    \* bound: handshakes
    MaxLost,     \* bound: requests lost on the way
    MaxAgain     \* bound: transactions that come through again

(* What validate_milestone walks along: trunk links of a bundle, from its  *)
(* tail on.  They are hashes and do not lead in a circle.                  *)
IsBundle(b) ==
    /\ b # <<>>
    /\ \A k \in 1..(Len(b) - 1) : Trunk[b[k]] = b[k + 1]
    /\ \A k \in 1..Len(b) :
          /\ b[k] \in Watched
          /\ IsTail[b[k]] <=> k = 1
          /\ BundleField[b[k]] = BundleField[b[1]]
          /\ Trunk[b[Len(b)]] # b[k]
          /\ \A l \in 1..Len(b) : b[k] = b[l] => k = l

(* The transactions of milestone i. *)
Members(i) == {MsBundle[i][k] : k \in 1..Len(MsBundle[i])}

(* A transaction is in one bundle, and the entry points are older than the *)
(* milestones to come.                                                     *)
ASSUME SyncAssumption ==
    /\ None \notin Hash
    /\ SEP \subseteq Hash
    /\ Trunk \in [Hash -> Hash]
    /\ Branch \in [Hash -> Hash]
    /\ IsTail \in [Hash -> BOOLEAN]
    /\ Snap \in Nat
    /\ Index \subseteq Nat \ {0}
    /\ MsBundle \in [Index -> Seq(Hash)]
    /\ \A i \in Index : IsBundle(MsBundle[i])
    /\ \A i, j \in Index : i # j => Members(i) \intersect Members(j) = {}
    /\ \A i \in Index : i > Snap => MsBundle[i][1] \notin SEP
    /\ RequestRange \in Nat /\ Capacity \in Nat /\ MaxPeers \in Nat /\ MaxAgain \in Nat
    /\ MaxLost \in Nat /\ MaxJoins \in Nat

VARIABLES
    vertices,    \* transactions in the tangle
    solid,       \* those flagged SOLID
    stale,       \* replaced ones that the solidifier will not look at again
    approver,    \* Tangle::approvers: the first with this trunk and bundle field
    milestones,  \* Tangle::milestones: index to tail, or None
    lastIdx,     \* last_milestone_index
    solidIdx,    \* solid_milestone_index
    requested,   \* Protocol::requested, without the indexes
    txQueue,     \* transaction requester's queue
    msQueue,     \* milestone requester's queue; 0 asks for the latest
    triggers,    \* MilestoneSolidifierWorker's channel: who has sent
    walks,       \* TransactionSolidifierWorker's channel: who has sent what
    tails,       \* MilestoneValidatorWorker's channel
    casts,       \* BroadcasterWorker's channel: the number of events
    unsent,      \* commands that it has still to hand to the network
    tpc, tcur,   \* TransactionWorker: where it is, its transaction
    vpc, vcur,   \* MilestoneValidatorWorker: where it is, its milestone
    spc, scur,   \* MilestoneSolidifierWorker: where it is, its target
    rpc, rcur,   \* TransactionRequesterWorker: where it is, its hash
    mpc, mcur,   \* MilestoneRequesterWorker: where it is, its index
    peers,       \* the number of handshaked peers
    greeting,    \* handshakers that have still to trigger a solidification
    joins,       \* handshakes so far (bound)
    asked,       \* transaction requests under way
    askedMs,     \* milestone requests under way
    lost,        \* requests lost so far (bound)
    again        \* transactions that came through again so far (bound)

tangleVars == <<vertices, solid, stale, approver, milestones, lastIdx, solidIdx>>
queueVars == <<txQueue, msQueue, triggers, walks, tails>>
castVars == <<casts, unsent>>
txVars == <<tpc, tcur>>
valVars == <<vpc, vcur>>
msVars == <<spc, scur>>
reqVars == <<rpc, rcur>>
mreqVars == <<mpc, mcur>>
peerVars == <<peers, greeting, joins>>
netVars == <<asked, askedMs, lost>>
vars == <<tangleVars, requested, queueVars, castVars, txVars, valVars, msVars, reqVars,
          mreqVars, peerVars, netVars, again>>

(* Node::init: the solid index is that of the snapshot, the last index     *)
(* stays 0 until a milestone has been validated.                           *)
Init ==
    /\ vertices = {} /\ solid = {} /\ stale = {}
    /\ approver = [h \in Hash |-> None]
    /\ milestones = [i \in Index |-> None]
    /\ lastIdx = 0
    /\ solidIdx = Snap
    /\ requested = {}
    /\ txQueue = {} /\ msQueue = {}
    /\ triggers = <<>> /\ walks = <<>> /\ tails = <<>>
    /\ casts = 0 /\ unsent = 0
    /\ tpc = "idle" /\ tcur = None
    /\ vpc = "idle" /\ vcur = 0
    /\ spc = "idle" /\ scur = 0
    /\ rpc = "idle" /\ rcur = None
    /\ mpc = "idle" /\ mcur = 0
    /\ peers = 0 /\ greeting = 0 /\ joins = 0
    /\ asked = {} /\ askedMs = {} /\ lost = 0
    /\ again = 0

(* Channels are those of futures::mpsc: a message over the bound is queued *)
(* like the others, and its sender waits until it is within the bound.     *)
Parked(who, queue) == \E k \in (Capacity + 1)..Len(queue) : queue[k].from = who

-----------------------------------------------------------------------------
(* The tangle.                                                             *)

IsSolid(h) == h \in solid \union SEP

IsSynced == solidIdx = lastIdx

(* The background solidifier. *)
Solidify(h) ==
    /\ h \in vertices \ (solid \union stale)
    /\ IsSolid(Trunk[h]) /\ IsSolid(Branch[h])
    /\ solid' = solid \union {h}
    /\ UNCHANGED <<vertices, stale, approver, milestones, lastIdx, solidIdx, requested, queueVars,
                   txVars, valVars, msVars, reqVars, mreqVars, peerVars, netVars, castVars, again>>

(* What walk_approvees_depth_first misses, not following solid vertices:   *)
(* the absent members of every set that holds the root and, with each      *)
(* vertex that is not solid, its parents.                                  *)
Followed(S) == \A h \in S \intersect (vertices \ solid) : Trunk[h] \in S /\ Branch[h] \in S

Missing(root) ==
    {h \in Hash \ (vertices \union SEP) :
        \A S \in SUBSET Hash : root \in S /\ Followed(S) => h \in S}

-----------------------------------------------------------------------------
(* TransactionWorker::process_transaction_brodcast.                        *)

(* The first approver of a trunk with the same bundle field stays the      *)
(* first: insert_transaction appends the others.                           *)
FirstApprover(h) == BundleField[h] = BundleField[Trunk[h]] /\ approver[Trunk[h]] = None

(* A new transaction is inserted. *)
TxInsert(h) ==
    /\ tpc = "idle" /\ Len(tails) <= Capacity
    /\ h \notin vertices
    /\ vertices' = vertices \union {h}
    /\ approver' = IF FirstApprover(h) THEN [approver EXCEPT ![Trunk[h]] = h] ELSE approver
    /\ tpc' = "synced" /\ tcur' = h
    /\ UNCHANGED <<solid, stale, milestones, lastIdx, solidIdx, requested, queueVars,
                   valVars, msVars, reqVars, mreqVars, peerVars, castVars, again>>

(* A known one that the cache has evicted replaces its vertex.  If it was  *)
(* solid, it will be so again only if it is still in the tangle's channel. *)
TxAgain(h) ==
    /\ tpc = "idle" /\ Len(tails) <= Capacity
    /\ h \in vertices
    /\ again < MaxAgain
    /\ again' = again + 1
    /\ solid' = solid \ {h}
    /\ \/ UNCHANGED stale
       \/ h \in solid /\ stale' = stale \union {h}
    /\ UNCHANGED <<vertices, approver, milestones, lastIdx, solidIdx, requested, queueVars, txVars,
                   valVars, msVars, reqVars, mreqVars, peerVars, netVars, castVars>>

TxStep(from, to) ==
    /\ tpc = from
    /\ tpc' = to
    /\ tcur' = IF to = "idle" THEN None ELSE tcur
    /\ UNCHANGED <<tangleVars, valVars, msVars, reqVars, mreqVars, peerVars, netVars,
                   unsent, again>>

(* The two loads of is_synced are one step: read apart, they may also see  *)
(* indexes that both moved in between, and trigger once more.              *)
TxSynced ==
    /\ TxStep("synced", IF IsSynced THEN "remove" ELSE "empty")
    /\ UNCHANGED <<requested, queueVars, casts>>

TxEmpty ==
    /\ TxStep("empty", IF requested = {} THEN "trigger" ELSE "remove")
    /\ UNCHANGED <<requested, queueVars, casts>>

TxTrigger ==
    /\ TxStep("trigger", "remove")
    /\ triggers' = Append(triggers, [from |-> "tx"])
    /\ UNCHANGED <<requested, txQueue, msQueue, walks, tails, casts>>

TxRemove ==
    /\ ~Parked("tx", triggers)
    /\ TxStep("remove", IF tcur \in requested THEN "solidify" ELSE "broadcast")
    /\ requested' = requested \ {tcur}
    /\ UNCHANGED <<queueVars, casts>>

TxSolidify ==
    /\ TxStep("solidify", "milestone")
    /\ walks' = Append(walks, [from |-> "tx", hash |-> tcur])
    /\ UNCHANGED <<requested, txQueue, msQueue, triggers, tails, casts>>

(* A transaction nobody requested is broadcast. *)
TxBroadcast ==
    /\ TxStep("broadcast", "milestone")
    /\ casts' = casts + 1
    /\ UNCHANGED <<requested, queueVars>>

(* trunk_walk_approvers takes one approver, the first with this trunk that *)
(* passes the filter, and goes on from there: what it collects is in every *)
(* set that holds the start and, with each member, that approver.          *)
Upwards(S) == \A h \in S : approver[h] # None => approver[h] \in S

Collected(h) == {g \in Hash : \A S \in SUBSET Hash : h \in S /\ Upwards(S) => g \in S}

(* Mutant of TailsFrom: only a tail starts the validation. *)
TailsFromTail(h) == {t \in {h} : h \in Watched /\ IsTail[h]}

(* What process_transaction_brodcast takes for the tail of the bundle:     *)
(* the transaction itself or, if that is not a tail, the last one that the *)
(* walk has collected, provided that is one.                               *)
TailsFrom(h) ==
    {t \in IF IsTail[h] THEN {h} ELSE {g \in Collected(h) : approver[g] = None} :
        h \in Watched /\ IsTail[t]}

TxMilestone ==
    /\ ~Parked("tx", walks) /\ casts <= Capacity
    /\ TxStep("milestone", "idle")
    /\ IF TailsFrom(tcur) = {}
       THEN UNCHANGED tails
       ELSE \E t \in TailsFrom(tcur) : tails' = Append(tails, t)
    /\ UNCHANGED <<requested, txQueue, msQueue, triggers, walks, casts>>

-----------------------------------------------------------------------------
(* BroadcasterWorker: an event becomes a command for every handshaked peer *)
(* except the one that the transaction came from, if that is still there.  *)

TakeBroadcast ==
    /\ casts > 0 /\ unsent = 0
    /\ casts' = casts - 1
    /\ \E k \in 0..peers : k + 1 >= peers /\ unsent' = k
    /\ UNCHANGED <<tangleVars, requested, queueVars, txVars, valVars, msVars, reqVars,
                   mreqVars, peerVars, netVars, again>>

(* The network's worker takes a command, which it may not do for long:     *)
(* module Endpoint has the reasons.                                        *)
CommandTaken ==
    /\ unsent > 0
    /\ unsent' = unsent - 1
    /\ UNCHANGED <<tangleVars, requested, queueVars, casts, txVars, valVars, msVars, reqVars,
                   mreqVars, peerVars, netVars, again>>

-----------------------------------------------------------------------------
(* MilestoneValidatorWorker.  Signatures are right: MsBundle holds what    *)
(* the coordinator has signed, and nothing else validates.                 *)

Complete(i) == Members(i) \subseteq vertices

(* validate_milestone fails on an incomplete bundle.  It looks the members *)
(* up one by one; since none is ever removed this is the same as at once.  *)
Validate(i) ==
    /\ vpc = "idle"
    /\ tails # <<>>
    /\ MsBundle[i][1] = Head(tails)
    /\ tails' = Tail(tails)
    /\ IF Complete(i)
       THEN vpc' = "add" /\ vcur' = i
       ELSE UNCHANGED valVars
    /\ UNCHANGED <<tangleVars, requested, txQueue, msQueue, triggers, walks, txVars, msVars,
                   reqVars, mreqVars, peerVars, netVars, castVars, again>>

(* A tail that is not that of a milestone. *)
Refuse ==
    /\ vpc = "idle"
    /\ tails # <<>>
    /\ \A i \in Index : MsBundle[i][1] # Head(tails)
    /\ tails' = Tail(tails)
    /\ UNCHANGED <<tangleVars, requested, txQueue, msQueue, triggers, walks, txVars, valVars,
                   msVars, reqVars, mreqVars, peerVars, netVars, castVars, again>>

AddMilestone ==
    /\ vpc = "add"
    /\ vpc' = "last"
    /\ milestones' = [milestones EXCEPT ![vcur] = MsBundle[vcur][1]]
    /\ UNCHANGED <<vertices, solid, stale, approver, lastIdx, solidIdx, requested, queueVars, txVars,
                   vcur, msVars, reqVars, mreqVars, peerVars, netVars, castVars, again>>

(* Mutant of UpdateLast: off by one. *)
UpdateLastOffByOne ==
    /\ vpc = "last"
    /\ vpc' = "idle"
    /\ vcur' = 0
    /\ lastIdx' = IF vcur > lastIdx THEN vcur - 1 ELSE lastIdx
    /\ UNCHANGED <<vertices, solid, stale, approver, milestones, solidIdx, requested, queueVars, txVars,
                   msVars, reqVars, mreqVars, peerVars, netVars, castVars, again>>

UpdateLast ==
    /\ vpc = "last"
    /\ vpc' = "idle"
    /\ vcur' = 0
    /\ lastIdx' = IF vcur > lastIdx THEN vcur ELSE lastIdx
    /\ UNCHANGED <<vertices, solid, stale, approver, milestones, solidIdx, requested, queueVars, txVars,
                   msVars, reqVars, mreqVars, peerVars, netVars, castVars, again>>

-----------------------------------------------------------------------------
(* MilestoneSolidifierWorker.                                              *)

MsStep(from, to) ==
    /\ spc = from
    /\ spc' = to
    /\ UNCHANGED <<vertices, solid, stale, approver, milestones, lastIdx, requested, txVars, valVars,
                   reqVars, mreqVars, peerVars, netVars, castVars, again>>

(* request_milestones: what is unknown of the range is queued. *)
RequestMilestones ==
    /\ ~Parked("milestone", walks)
    /\ MsStep("idle", "target")
    /\ triggers # <<>>
    /\ triggers' = Tail(triggers)
    /\ msQueue' = msQueue \union
                  {i \in Index : i >= solidIdx /\ i < solidIdx + RequestRange /\ milestones[i] = None}
    /\ UNCHANGED <<solidIdx, txQueue, walks, tails, scur>>

(* solidify_milestone: the next milestone, if it is known. *)
Known(i) == i \in Index /\ milestones[i] # None

(* Mutant of Target: the target is not looked up. *)
TargetUnknown ==
    /\ MsStep("target", "solid")
    /\ scur' = solidIdx + 1
    /\ UNCHANGED <<solidIdx, queueVars>>

Target ==
    /\ MsStep("target", IF Known(solidIdx + 1) THEN "solid" ELSE "idle")
    /\ scur' = IF Known(solidIdx + 1) THEN solidIdx + 1 ELSE 0
    /\ UNCHANGED <<solidIdx, queueVars>>

(* Mutant of CheckTarget: a known milestone counts as solid. *)
CheckTargetKnown ==
    /\ MsStep("solid", "update")
    /\ UNCHANGED <<solidIdx, queueVars, scur>>

CheckTarget ==
    /\ MsStep("solid", IF IsSolid(milestones[scur]) THEN "update" ELSE "walk")
    /\ UNCHANGED <<solidIdx, queueVars, scur>>

UpdateSolid ==
    /\ MsStep("update", IF peers = 0 THEN "idle" ELSE "heartbeat")
    /\ solidIdx' = scur
    /\ scur' = 0
    /\ UNCHANGED queueVars

(* broadcast_heartbeat waits for the channels of the peers' SenderWorkers, *)
(* which in turn wait for the network to take a command.                   *)
HeartbeatTaken ==
    /\ MsStep("heartbeat", "idle")
    /\ UNCHANGED <<solidIdx, queueVars, scur>>

WalkTarget ==
    /\ MsStep("walk", "idle")
    /\ walks' = Append(walks, [from |-> "milestone", hash |-> milestones[scur]])
    /\ scur' = 0
    /\ UNCHANGED <<solidIdx, txQueue, msQueue, triggers, tails>>

-----------------------------------------------------------------------------
(* TransactionSolidifierWorker::solidify.  The walk is one step: what      *)
(* arrives while it runs is at worst requested in vain.                    *)

(* Mutant of Walk: missing hashes are handed over to the requester. *)
WalkHandsOver ==
    /\ rpc = "idle"
    /\ walks # <<>>
    /\ walks' = Tail(walks)
    /\ txQueue' = txQueue \union Missing(Head(walks).hash)
    /\ UNCHANGED <<tangleVars, requested, msQueue, triggers, tails, txVars, valVars, msVars,
                   reqVars, mreqVars, peerVars, netVars, castVars, again>>

Walk ==
    /\ walks # <<>>
    /\ walks' = Tail(walks)
    /\ txQueue' = txQueue \union Missing(Head(walks).hash)
    /\ UNCHANGED <<tangleVars, requested, msQueue, triggers, tails, txVars, valVars, msVars,
                   reqVars, mreqVars, peerVars, netVars, castVars, again>>

-----------------------------------------------------------------------------
(* TransactionRequesterWorker.                                             *)

ReqStep(from, to) ==
    /\ rpc = from
    /\ rpc' = to
    /\ UNCHANGED <<tangleVars, msQueue, triggers, walks, tails, txVars, valVars, msVars,
                   mreqVars, peerVars, askedMs, lost, castVars, again>>

PopRequest(h) ==
    /\ ReqStep("idle", IF h \in SEP \union vertices THEN "idle" ELSE "peers")
    /\ h \in txQueue
    /\ txQueue' = txQueue \ {h}
    /\ rcur' = IF h \in SEP \union vertices THEN None ELSE h
    /\ UNCHANGED <<requested, asked>>

(* Without peers the request is dropped. *)
CheckPeers ==
    /\ ReqStep("peers", IF peers = 0 THEN "idle" ELSE "mark")
    /\ rcur' = IF peers = 0 THEN None ELSE rcur
    /\ UNCHANGED <<requested, txQueue, asked>>

MarkRequested ==
    /\ ReqStep("mark", "send")
    /\ requested' = requested \union {rcur}
    /\ UNCHANGED <<txQueue, rcur, asked>>

(* gen_range(0, len()) panics if the last peer is gone. *)
SendRequest ==
    /\ ReqStep("send", IF peers = 0 THEN "panicked" ELSE "idle")
    /\ asked' = IF peers = 0 THEN asked ELSE asked \union {rcur}
    /\ rcur' = None
    /\ UNCHANGED <<requested, txQueue>>

-----------------------------------------------------------------------------
(* MilestoneRequesterWorker.                                               *)

MreqStep(from, to) ==
    /\ mpc = from
    /\ mpc' = to
    /\ UNCHANGED <<tangleVars, requested, txQueue, triggers, walks, tails, txVars, valVars,
                   msVars, reqVars, peerVars, asked, lost, castVars, again>>

(* The entry with the highest index comes first. *)
PopMilestone(i) ==
    /\ MreqStep("idle", IF Known(i) THEN "idle" ELSE "peers")
    /\ i \in msQueue
    /\ \A j \in msQueue : j <= i
    /\ msQueue' = msQueue \ {i}
    /\ mcur' = IF Known(i) THEN 0 ELSE i
    /\ UNCHANGED askedMs

CheckPeersMs ==
    /\ MreqStep("peers", IF peers = 0 THEN "idle" ELSE "send")
    /\ mcur' = IF peers = 0 THEN 0 ELSE mcur
    /\ UNCHANGED <<msQueue, askedMs>>

(* A request for the latest milestone goes to the peer of the handshake,   *)
(* which may have left; the others go to a random one and panic without    *)
(* any.                                                                    *)
SendMsRequest ==
    /\ MreqStep("send", IF peers = 0 /\ mcur # 0 THEN "panicked" ELSE "idle")
    /\ \/ peers > 0 /\ askedMs' = askedMs \union {mcur}
       \/ (peers = 0 \/ (mcur = 0 /\ peers < joins)) /\ UNCHANGED askedMs
    /\ mcur' = 0
    /\ UNCHANGED msQueue

-----------------------------------------------------------------------------
(* Peers.                                                                  *)

(* A handshake; request_last_milestone and trigger_milestone_solidification *)
(* follow it.                                                               *)
Join ==
    /\ peers < MaxPeers
    /\ joins < MaxJoins
    /\ joins' = joins + 1
    /\ peers' = peers + 1
    /\ greeting' = greeting + 1
    /\ UNCHANGED <<tangleVars, requested, queueVars, txVars, valVars, msVars, reqVars,
                   mreqVars, netVars, castVars, again>>

Greet ==
    /\ greeting > 0
    /\ greeting' = greeting - 1
    /\ triggers' = Append(triggers, [from |-> "peer"])
    /\ msQueue' = msQueue \union {0}
    /\ UNCHANGED <<tangleVars, requested, txQueue, walks, tails, txVars, valVars, msVars,
                   reqVars, mreqVars, peers, joins, netVars, castVars, again>>

Leave ==
    /\ peers > 0
    /\ peers' = peers - 1
    /\ UNCHANGED <<tangleVars, requested, queueVars, txVars, valVars, msVars, reqVars,
                   mreqVars, greeting, joins, netVars, castVars, again>>

(* A transaction that a peer broadcasts unasked. *)
Gossip(h) == h \in Public /\ TxInsert(h) /\ UNCHANGED netVars

(* The answer to a request; the cache filters it if it is known. *)
Answer(h) ==
    /\ h \in asked
    /\ asked' = asked \ {h}
    /\ UNCHANGED <<askedMs, lost>>
    /\ TxInsert(h)

(* The answer to a milestone request, by index or for the latest, is the   *)
(* tail of its bundle; the rest must come unasked.                         *)
Asked(i) == i \in askedMs \/ (0 \in askedMs /\ \A j \in Index : j <= i)

AnswerMs(i) ==
    /\ Asked(i)
    /\ TxInsert(MsBundle[i][1])
    /\ UNCHANGED netVars

(* A request, or its answer, gets lost.  Nothing notices. *)
Lose ==
    /\ lost < MaxLost
    /\ lost' = lost + 1
    /\ \/ asked # {} /\ UNCHANGED askedMs /\ \E h \in asked : asked' = asked \ {h}
       \/ askedMs # {} /\ UNCHANGED asked /\ \E i \in askedMs : askedMs' = askedMs \ {i}
    /\ UNCHANGED <<tangleVars, requested, queueVars, txVars, valVars, msVars, reqVars,
                   mreqVars, peerVars, castVars, again>>

-----------------------------------------------------------------------------

TransactionWorker ==
    TxSynced \/ TxEmpty \/ TxTrigger \/ TxRemove \/ TxSolidify \/ TxBroadcast \/ TxMilestone

MilestoneValidator == (\E i \in Index : Validate(i)) \/ Refuse \/ AddMilestone \/ UpdateLast

MilestoneSolidifier ==
    RequestMilestones \/ Target \/ CheckTarget \/ UpdateSolid \/ WalkTarget

TransactionRequester == (\E h \in Hash : PopRequest(h)) \/ CheckPeers \/ MarkRequested

MilestoneRequester == (\E i \in Index \union {0} : PopMilestone(i)) \/ CheckPeersMs

(* Steps that wait, at times, for the network to take a command. *)
Sends == CommandTaken \/ HeartbeatTaken \/ SendRequest \/ SendMsRequest

Workers ==
    \/ TransactionWorker
    \/ MilestoneValidator
    \/ MilestoneSolidifier
    \/ Walk
    \/ TransactionRequester
    \/ MilestoneRequester
    \/ TakeBroadcast
    \/ Sends
    \/ Greet

Answers ==
    \/ \E h \in Hash : Answer(h)
    \/ \E i \in Index : AnswerMs(i)

Network ==
    \/ \E h \in Hash : TxAgain(h) \/ Gossip(h)
    \/ Answers
    \/ Lose
    \/ Join
    \/ Leave

Next == Workers \/ Network \/ \E h \in Hash : Solidify(h)

(* The executor runs every worker, and what peers send is received.  That  *)
(* the network takes commands is not assumed.                              *)
Fairness ==
    /\ WF_vars(TransactionWorker \/ Answers)
    /\ WF_vars(MilestoneValidator)
    /\ WF_vars(MilestoneSolidifier)
    /\ WF_vars(Walk)
    /\ WF_vars(TransactionRequester)
    /\ WF_vars(MilestoneRequester)
    /\ WF_vars(TakeBroadcast)
    /\ WF_vars(Greet)
    /\ WF_vars(\E h \in Hash : Solidify(h))

Spec == Init /\ [][Next]_vars
FairSpec == Spec /\ Fairness

-----------------------------------------------------------------------------
(* Properties.                                                             *)

(* All maps, queues and program counters are in range, and the validator's *)
(* and the broadcaster's channel keep their bound (the one sender waits).  *)
TypeOK ==
    /\ vertices \subseteq Hash /\ solid \subseteq vertices /\ stale \subseteq vertices
    /\ approver \in [Hash -> Hash \union {None}]
    /\ milestones \in [Index -> Hash \union {None}]
    /\ lastIdx \in Nat /\ solidIdx \in Nat
    /\ requested \subseteq Hash
    /\ txQueue \subseteq Hash /\ msQueue \subseteq Index \union {0}
    /\ triggers \in Seq([from : {"tx", "peer"}])
    /\ walks \in Seq([from : {"tx", "milestone"}, hash : Hash])
    /\ tails \in Seq(Hash) /\ Len(tails) <= Capacity + 1
    /\ casts \in 0..(Capacity + 1) /\ unsent \in Nat
    /\ tpc \in {"idle", "synced", "empty", "trigger", "remove", "solidify", "broadcast",
               "milestone"}
    /\ tcur \in Hash \union {None}
    /\ vpc \in {"idle", "add", "last"} /\ vcur \in Index \union {0}
    /\ spc \in {"idle", "target", "solid", "update", "heartbeat", "walk"} /\ scur \in Index \union {0}
    /\ rpc \in {"idle", "peers", "mark", "send", "panicked"} /\ rcur \in Hash \union {None}
    /\ mpc \in {"idle", "peers", "send", "panicked"} /\ mcur \in Index \union {0}
    /\ peers \in Nat /\ greeting \in Nat /\ joins \in Nat
    /\ asked \subseteq Hash /\ askedMs \subseteq Index \union {0}
    /\ again \in Nat /\ lost \in Nat

Closed(S) ==
    \A h \in S : /\ Trunk[h] \in S \union SEP
                 /\ Branch[h] \in S \union SEP

(* The past cone of h, as in module Tangle. *)
PastCone ==
    [h \in Hash |-> {g \in Hash : \A S \in SUBSET Hash : h \in S /\ Closed(S) => g \in S}]

(* The solid milestone index tells peers (heartbeats) what this node has:  *)
(* every milestone up to it is known and its whole past cone is in the     *)
(* tangle.  The index is stored some steps after the flag was read, and a  *)
(* replaced transaction may have lost its flag meanwhile.                  *)
SolidIndexSound ==
    \A i \in Index :
        i > Snap /\ i <= solidIdx => Known(i) /\ PastCone[milestones[i]] \subseteq vertices

(* is_synced tells the truth: when the two indexes agree, every milestone  *)
(* the validator is done with has its past cone in the tangle.             *)
SyncedIsComplete ==
    IsSynced /\ vpc # "last" =>
        \A i \in Index : i > Snap /\ Known(i) => PastCone[milestones[i]] \subseteq vertices

(* A transaction from outside its bundle is the first to approve one of    *)
(* the transactions of milestone i by trunk, with the same bundle field:   *)
(* the second approver that trunk_walk_approvers assumes cannot exist.     *)
Rivalled(i) == \E h \in Members(i) : approver[h] \in Hash \ Members(i)

(* No milestone is overlooked: whatever the order in which the             *)
(* transactions of a bundle arrive, once they are all there and the two    *)
(* workers are at rest, the milestone is known, unless a rival has led     *)
(* the walk astray.                                                        *)
MilestoneNotMissed ==
    \A i \in Index :
        Complete(i) /\ ~Rivalled(i) /\ tpc = "idle" /\ tails = <<>> /\ vpc = "idle"
        => Known(i)

(* The network takes the broadcaster's commands and the heartbeats, sooner *)
(* or later.                                                               *)
NetworkTakes == []<>(unsent = 0) /\ []<>(spc # "heartbeat")

(* The bounded channels between the workers do not block each other: if    *)
(* the network takes what it is given, a transaction is always processed   *)
(* to the end.                                                             *)
TransactionProcessed == NetworkTakes => (tpc # "idle" ~> tpc = "idle")

=============================================================================
