------------------------------- MODULE Tangle -------------------------------
(***************************************************************************)
(* The tangle of bee-tangle: a concurrent map of vertices, the map of      *)
(* their approvers, and the background solidifier that marks a vertex      *)
(* solid once both its parents are.                                        *)
(*                                                                         *)
(* The maps are DashMaps: every single access is atomic, a sequence of     *)
(* accesses is not.  So each access to `vertices`, `approvers` and the     *)
(* bounded solidifier channel is an action of its own, and any number of   *)
(* tasks (Writers) may be inside `insert_transaction` at once.             *)
(*                                                                         *)
(* A transaction is its hash; Trunk and Branch give the two parents a hash *)
(* commits to (`hash -> transaction` is injective, tangle.rs:77).          *)
(***************************************************************************)
EXTENDS Naturals, Sequences

CONSTANTS
    Hash,          \* transaction hashes
    None,          \* Option::None on the channel, and "no transaction"
    SEP,           \* solid entry points, loaded from the snapshot at start-up
    Trunk,         \* Trunk[h]: the trunk of transaction h
    Branch,        \* Branch[h]: its branch
    Writers,       \* tasks that call insert_transaction
    ChanCapacity,  \* SOLIDIFIER_CHAN_CAPACITY
    MaxInserts     \* bound: MaxInserts[h] insertions of h

ASSUME TangleAssumption ==
    /\ None \notin Hash
    /\ SEP \subseteq Hash
    /\ Trunk \in [Hash -> Hash]
    /\ Branch \in [Hash -> Hash]
    /\ ChanCapacity \in Nat \ {0}
    /\ MaxInserts \in [Hash -> Nat]

(* A hash commits to the hashes of its parents, so following parents never *)
(* comes back: any set of transactions holds one that approves no other of *)
(* the set, solid entry points, where the solidifier stops, excepted.      *)
ASSUME AcyclicAssumption ==
    \A S \in SUBSET Hash :
        S # {} => \E h \in S : Trunk[h] \notin S \ SEP /\ Branch[h] \notin S \ SEP

VARIABLES
    vertices,   \* hashes that have a vertex
    solid,      \* hashes whose vertex carries Flags::SOLID
    approvers,  \* approvers[h]: Vec of the hashes that approve h
    chan,       \* the solidifier channel: hashes, or None to stop
    wpc,        \* wpc[w]: where writer w is inside insert_transaction
    wtx,        \* wtx[w]: the transaction it inserts
    inserts,    \* inserts[h]: calls made for h so far (bound)
    spc,        \* where the solidifier is
    stack,      \* propagate: its work list, top last
    cur,        \* propagate: the hash under examination
    already,    \* propagate: already_solid
    dpc         \* where the call of `drop` is

writerVars == <<wpc, wtx, inserts>>
propagateVars == <<stack, cur, already>>
vars == <<vertices, solid, approvers, chan, writerVars, spc, propagateVars, dpc>>

-----------------------------------------------------------------------------

(* lib.rs init, Tangle::new: everything is empty and the solidifier waits. *)
Init ==
    /\ vertices = {}
    /\ solid = {}
    /\ approvers = [h \in Hash |-> <<>>]
    /\ chan = <<>>
    /\ wpc = [w \in Writers |-> "idle"]
    /\ wtx = [w \in Writers |-> None]
    /\ inserts = [h \in Hash |-> 0]
    /\ spc = "recv"
    /\ stack = <<>>
    /\ cur = None
    /\ already = {}
    /\ dpc = "up"

(* is_solid_transaction: a solid entry point, or a vertex with the flag. *)
IsSolid(h) == h \in SEP \/ h \in solid

-----------------------------------------------------------------------------
(* insert_transaction, one action per access to shared state.              *)

Goto(w, at) == wpc' = [wpc EXCEPT ![w] = at]

Return(w) ==
    /\ Goto(w, "idle")
    /\ wtx' = [wtx EXCEPT ![w] = None]

(* The call, up to and including the entry in the trunk's approvers.  It   *)
(* has no effect but one more bookkeeping entry if h is known already.     *)
ApproveTrunk(w, h) ==
    /\ dpc = "up"
    /\ wpc[w] = "idle"
    /\ inserts[h] < MaxInserts[h]
    /\ inserts' = [inserts EXCEPT ![h] = @ + 1]
    /\ approvers' = [approvers EXCEPT ![Trunk[h]] = Append(@, h)]
    /\ wtx' = [wtx EXCEPT ![w] = h]
    /\ Goto(w, IF Trunk[h] # Branch[h] THEN "branch" ELSE "vertex")
    /\ UNCHANGED <<vertices, solid, chan, spc, propagateVars, dpc>>

(* Mutant: the second parent does not learn of its approver. *)
ApproveBranchForgotten(w) ==
    /\ wpc[w] = "branch"
    /\ Goto(w, "vertex")
    /\ UNCHANGED <<vertices, solid, approvers, chan, wtx, inserts, spc, propagateVars, dpc>>

ApproveBranch(w) ==
    /\ wpc[w] = "branch"
    /\ approvers' = [approvers EXCEPT ![Branch[wtx[w]]] = Append(@, wtx[w])]
    /\ Goto(w, "vertex")
    /\ UNCHANGED <<vertices, solid, chan, wtx, inserts, spc, propagateVars, dpc>>

(* vertices.insert: a known vertex is replaced by a fresh one, whose flags *)
(* are clear again; only a new one is announced to the solidifier.         *)
InsertVertex(w) ==
    /\ wpc[w] = "vertex"
    /\ vertices' = vertices \union {wtx[w]}
    /\ solid' = solid \ {wtx[w]}
    /\ IF wtx[w] \in vertices
       THEN Return(w)
       ELSE Goto(w, "send") /\ UNCHANGED wtx
    /\ UNCHANGED <<approvers, chan, inserts, spc, propagateVars, dpc>>

(* Mutant: the channel is taken to be unbounded. *)
AnnounceUnbounded(w) ==
    /\ wpc[w] = "send"
    /\ chan' = Append(chan, wtx[w])
    /\ Return(w)
    /\ UNCHANGED <<vertices, solid, approvers, inserts, spc, propagateVars, dpc>>

(* solidifier_send.send: blocks while the channel is full. *)
Announce(w) ==
    /\ wpc[w] = "send"
    /\ Len(chan) < ChanCapacity
    /\ chan' = Append(chan, wtx[w])
    /\ Return(w)
    /\ UNCHANGED <<vertices, solid, approvers, inserts, spc, propagateVars, dpc>>

-----------------------------------------------------------------------------
(* SolidifierState::run and propagate.                                     *)

Recv ==
    /\ spc = "recv"
    /\ chan # <<>>
    /\ chan' = Tail(chan)
    /\ IF Head(chan) = None
       THEN spc' = "barrier" /\ UNCHANGED <<stack, already>>
       ELSE spc' = "pop" /\ stack' = <<Head(chan)>> /\ already' = {}
    /\ UNCHANGED <<vertices, solid, approvers, writerVars, cur, dpc>>

(* Back to the head of propagate's loop. *)
NextHash == spc' = "pop" /\ cur' = None

(* Mutant: a hash counts as done the first time it is examined. *)
PopOnce ==
    /\ spc = "pop"
    /\ stack # <<>>
    /\ LET h == stack[Len(stack)] IN
       /\ stack' = SubSeq(stack, 1, Len(stack) - 1)
       /\ IF h \notin already /\ h \in vertices
          THEN spc' = "trunk" /\ cur' = h /\ already' = already \union {h}
          ELSE NextHash /\ UNCHANGED already
    /\ UNCHANGED <<vertices, solid, approvers, chan, writerVars, dpc>>

Pop ==
    /\ spc = "pop"
    /\ stack # <<>>
    /\ LET h == stack[Len(stack)] IN
       /\ stack' = SubSeq(stack, 1, Len(stack) - 1)
       /\ IF h \notin already /\ h \in vertices
          THEN spc' = "trunk" /\ cur' = h
          ELSE NextHash
    /\ UNCHANGED <<vertices, solid, approvers, chan, writerVars, already, dpc>>

EndPropagate ==
    /\ spc = "pop"
    /\ stack = <<>>
    /\ spc' = "recv"
    /\ UNCHANGED <<vertices, solid, approvers, chan, writerVars, propagateVars, dpc>>

CheckTrunk ==
    /\ spc = "trunk"
    /\ IF IsSolid(Trunk[cur])
       THEN spc' = "branch" /\ UNCHANGED cur
       ELSE NextHash
    /\ UNCHANGED <<vertices, solid, approvers, chan, writerVars, stack, already, dpc>>

(* Mutant: one solid parent is enough. *)
CheckBranchSkipped ==
    /\ spc = "branch"
    /\ spc' = "set"
    /\ UNCHANGED <<vertices, solid, approvers, chan, writerVars, propagateVars, dpc>>

CheckBranch ==
    /\ spc = "branch"
    /\ IF IsSolid(Branch[cur])
       THEN spc' = "set" /\ UNCHANGED cur
       ELSE NextHash
    /\ UNCHANGED <<vertices, solid, approvers, chan, writerVars, stack, already, dpc>>

SetSolid ==
    /\ spc = "set"
    /\ solid' = solid \union {cur}
    /\ already' = already \union {cur}
    /\ spc' = "approvers"
    /\ UNCHANGED <<vertices, approvers, chan, writerVars, stack, cur, dpc>>

PushApprovers ==
    /\ spc = "approvers"
    /\ stack' = stack \o approvers[cur]
    /\ NextHash
    /\ UNCHANGED <<vertices, solid, approvers, chan, writerVars, already, dpc>>

-----------------------------------------------------------------------------
(* lib.rs drop and Tangle::shutdown.  It invalidates the &'static Tangle,  *)
(* so its caller (the tests; the node never calls it) has no other task    *)
(* inside the tangle.                                                      *)

DropSend ==
    /\ dpc = "up"
    /\ \A w \in Writers : wpc[w] = "idle"
    /\ Len(chan) < ChanCapacity
    /\ chan' = Append(chan, None)
    /\ dpc' = "barrier"
    /\ UNCHANGED <<vertices, solid, approvers, writerVars, spc, propagateVars>>

(* Mutant: shutdown does not wait for the solidifier. *)
DropBarrierMissing ==
    /\ dpc = "barrier"
    /\ dpc' = "dropped"
    /\ UNCHANGED <<vertices, solid, approvers, chan, writerVars, spc, propagateVars>>

(* The barrier of two: the solidifier and the task in shutdown meet. *)
DropBarrier ==
    /\ dpc = "barrier"
    /\ spc = "barrier"
    /\ dpc' = "dropped"
    /\ spc' = "done"
    /\ UNCHANGED <<vertices, solid, approvers, chan, writerVars, propagateVars>>

-----------------------------------------------------------------------------

WriterStep(w) == ApproveBranch(w) \/ InsertVertex(w) \/ Announce(w)

SolidifierStep ==
    \/ Recv \/ Pop \/ EndPropagate \/ CheckTrunk \/ CheckBranch \/ SetSolid
    \/ PushApprovers

Next ==
    \/ \E w \in Writers, h \in Hash : ApproveTrunk(w, h)
    \/ \E w \in Writers : WriterStep(w)
    \/ SolidifierStep
    \/ DropSend
    \/ DropBarrier

(* Tasks of the executor that can run do run; nobody has to insert a       *)
(* transaction or to drop the tangle.                                      *)
Fairness ==
    /\ \A w \in Writers : WF_vars(WriterStep(w))
    /\ WF_vars(SolidifierStep)
    /\ WF_vars(DropBarrier)

Spec == Init /\ [][Next]_vars
FairSpec == Spec /\ Fairness

-----------------------------------------------------------------------------
(* Properties.                                                             *)

(* All program counters and maps are in range, and the channel keeps its   *)
(* capacity. *)
TypeOK ==
    /\ vertices \subseteq Hash
    /\ solid \subseteq vertices
    /\ approvers \in [Hash -> Seq(Hash)]
    /\ chan \in Seq(Hash \union {None})
    /\ Len(chan) <= ChanCapacity
    /\ wpc \in [Writers -> {"idle", "branch", "vertex", "send"}]
    /\ wtx \in [Writers -> Hash \union {None}]
    /\ inserts \in [Hash -> Nat] /\ \A h \in Hash : inserts[h] <= MaxInserts[h]
    /\ spc \in {"recv", "pop", "trunk", "branch", "set", "approvers", "barrier", "done"}
    /\ stack \in Seq(Hash)
    /\ cur \in Hash \union {None}
    /\ already \subseteq Hash
    /\ dpc \in {"up", "barrier", "dropped"}

(* A set of hashes is closed if it holds the parents, solid entry points   *)
(* excepted, of all its members.                                           *)
Closed(S) ==
    \A g \in S : /\ Trunk[g] \in S \union SEP
                 /\ Branch[g] \in S \union SEP

(* The past cone of h: what lies in every closed set that holds h. *)
PastCone ==
    [h \in Hash |-> {g \in Hash : \A S \in SUBSET Hash : h \in S /\ Closed(S) => g \in S}]

(* is_solid_transaction's promise, "if `true` is returned, solidification  *)
(* has definitely occurred" (tangle.rs:137): the whole past cone of a      *)
(* vertex with the SOLID flag, back to the solid entry points, is in the   *)
(* tangle, whatever insertions, also of transactions it already holds, run *)
(* between the solidifier's two checks and its write.                      *)
SolidPastConePresent == \A h \in solid : PastCone[h] \subseteq vertices

(* Nothing is left to do: no insertion, message or propagation under way. *)
Quiescent ==
    /\ \A w \in Writers : wpc[w] = "idle"
    /\ chan = <<>>
    /\ spc \notin {"pop", "trunk", "branch", "set", "approvers"}

(* No solidification is lost between an insertion and the solidifier: once *)
(* everything has come to rest, a vertex both of whose parents are solid   *)
(* is solid.  It rests on insert_transaction's order (approvers, vertex,   *)
(* channel) and on propagate reading approvers after it set the flag.      *)
NoLostSolidification ==
    Quiescent =>
        \A h \in vertices : IsSolid(Trunk[h]) /\ IsSolid(Branch[h]) => h \in solid

(* "eventually consistent" (tangle.rs:137): a transaction whose past cone  *)
(* is complete is reported solid from some time on.                        *)
EventuallyConsistent ==
    \A h \in Hash : (h \in vertices /\ PastCone[h] \subseteq vertices) ~> [](h \in solid)

(* drop returns only when the solidifier has worked off everything that    *)
(* was inserted before. *)
DropDrains ==
    dpc = "dropped" => /\ Quiescent
                       /\ \A h \in vertices : PastCone[h] \subseteq vertices => h \in solid

(* The abstract specification of the solidifier. *)
Abstract == INSTANCE Solidification WITH known <- vertices

Refinement == Abstract!Spec

=============================================================================
