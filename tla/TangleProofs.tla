---------------------------- MODULE TangleProofs ----------------------------
(***************************************************************************)
(* Proofs about Tangle, for any set of hashes, any parents, any number of  *)
(* writers and any channel capacity.                                       *)
(***************************************************************************)
EXTENDS Tangle, DataLemmas, TLAPS

-----------------------------------------------------------------------------
(* Types.                                                                  *)

(* A writer inside insert_transaction holds a transaction. *)
WriterHolds == \A w \in Writers : wpc[w] # "idle" => wtx[w] \in Hash

(* The hash propagate examines has a vertex: the unwrap of solidifier.rs:48 *)
(* is safe. *)
CursorPresent == spc \in {"trunk", "branch", "set", "approvers"} => cur \in vertices

TypeInv == TypeOK /\ WriterHolds /\ CursorPresent

LEMMA InitType == Init => TypeInv
<1> USE TangleAssumption DEF Init
<1>1. Init => TypeOK
  BY DEF TypeOK
<1>2. Init => WriterHolds /\ CursorPresent
  BY DEF WriterHolds, CursorPresent
<1> QED BY <1>1, <1>2 DEF TypeInv

LEMMA NextType == TypeInv /\ [Next]_vars => TypeInv'
<1> SUFFICES ASSUME TypeInv, [Next]_vars PROVE TypeInv'
  OBVIOUS
<1> USE TangleAssumption DEF TypeInv, TypeOK, WriterHolds, CursorPresent
<1>1. ASSUME NEW w \in Writers, NEW h \in Hash, ApproveTrunk(w, h) PROVE TypeInv'
  <2> USE DEF ApproveTrunk, Goto, writerVars, propagateVars
  <2>1. Append(approvers[Trunk[h]], h) \in Seq(Hash)
    BY <1>1
  <2>2. approvers' \in [Hash -> Seq(Hash)]
    BY <1>1, <2>1
  <2>3. inserts' \in [Hash -> Nat] /\ \A k \in Hash : inserts'[k] <= MaxInserts[k]
    BY <1>1
  <2>4. wpc' \in [Writers -> {"idle", "branch", "vertex", "send"}]
        /\ wtx' \in [Writers -> Hash \union {None}]
        /\ WriterHolds'
    BY <1>1
  <2> QED BY <1>1, <2>2, <2>3, <2>4
<1>2. ASSUME NEW w \in Writers, ApproveBranch(w) PROVE TypeInv'
  BY <1>2 DEF ApproveBranch, Goto, writerVars, propagateVars
<1>3. ASSUME NEW w \in Writers, InsertVertex(w) PROVE TypeInv'
  BY <1>3 DEF InsertVertex, Goto, Return, writerVars, propagateVars
<1>4. ASSUME NEW w \in Writers, Announce(w) PROVE TypeInv'
  BY <1>4 DEF Announce, Goto, Return, writerVars, propagateVars
<1>5. CASE Recv
  <2>1. /\ Head(chan) \in Hash \union {None}
        /\ Tail(chan) \in Seq(Hash \union {None})
        /\ Len(Tail(chan)) <= ChanCapacity
    BY <1>5 DEF Recv
  <2>2. stack' \in Seq(Hash) /\ already' \subseteq Hash
    <3>1. Head(chan) # None => <<Head(chan)>> \in Seq(Hash)
      BY <2>1
    <3> QED BY <1>5, <3>1 DEF Recv
  <2> QED BY <1>5, <2>1, <2>2 DEF Recv, writerVars, propagateVars
<1>6. CASE Pop
  <2>1. /\ stack[Len(stack)] \in Hash
        /\ SubSeq(stack, 1, Len(stack) - 1) \in Seq(Hash)
    <3>1. stack \in Seq(Hash) /\ stack # <<>>
      BY <1>6 DEF Pop
    <3> QED BY <3>1, PopHas
  <2> QED BY <1>6, <2>1 DEF Pop, NextHash, writerVars, propagateVars
<1>7. CASE EndPropagate
  BY <1>7 DEF EndPropagate, writerVars, propagateVars
<1>8. CASE CheckTrunk
  BY <1>8 DEF CheckTrunk, NextHash, writerVars, propagateVars
<1>9. CASE CheckBranch
  BY <1>9 DEF CheckBranch, NextHash, writerVars, propagateVars
<1>10. CASE SetSolid
  BY <1>10 DEF SetSolid, writerVars, propagateVars
<1>11. CASE PushApprovers
  BY <1>11 DEF PushApprovers, NextHash, writerVars, propagateVars
<1>12. CASE DropSend
  BY <1>12 DEF DropSend, writerVars, propagateVars
<1>13. CASE DropBarrier
  BY <1>13 DEF DropBarrier, writerVars, propagateVars
<1>14. CASE UNCHANGED vars
  BY <1>14 DEF vars, writerVars, propagateVars
<1> QED
  BY <1>1, <1>2, <1>3, <1>4, <1>5, <1>6, <1>7, <1>8, <1>9, <1>10, <1>11, <1>12,
     <1>13, <1>14 DEF Next, WriterStep, SolidifierStep

(* Types, and that every writer and the solidifier hold what they act on. *)
THEOREM TypeCorrect == Spec => []TypeOK
<1>1. TypeInv => TypeOK
  BY DEF TypeInv
<1> QED BY <1>1, InitType, NextType, PTL DEF Spec

-----------------------------------------------------------------------------
(* A solid vertex has its whole past cone in the tangle.                   *)

LEMMA ConeClosed ==
  ASSUME NEW h \in Hash
  PROVE  PastCone[h] \subseteq Hash /\ h \in PastCone[h] /\ Closed(PastCone[h])
<1>1. PastCone[h] = {g \in Hash : \A S \in SUBSET Hash : h \in S /\ Closed(S) => g \in S}
  BY DEF PastCone
<1>2. ASSUME NEW g \in PastCone[h] PROVE Trunk[g] \in PastCone[h] \union SEP
  <2>1. ASSUME NEW S \in SUBSET Hash, h \in S, Closed(S), Trunk[g] \notin SEP
        PROVE  Trunk[g] \in S
    BY <1>1, <1>2, <2>1 DEF Closed
  <2> QED BY <1>1, <2>1, TangleAssumption
<1>3. ASSUME NEW g \in PastCone[h] PROVE Branch[g] \in PastCone[h] \union SEP
  <2>1. ASSUME NEW S \in SUBSET Hash, h \in S, Closed(S), Branch[g] \notin SEP
        PROVE  Branch[g] \in S
    BY <1>1, <1>3, <2>1 DEF Closed
  <2> QED BY <1>1, <2>1, TangleAssumption
<1> QED BY <1>1, <1>2, <1>3 DEF Closed

(* The cone below h as far as solidity of a child is concerned. *)
ConePresent(h) == h \in SEP \/ PastCone[h] \subseteq vertices

LEMMA ConeStep ==
  ASSUME TypeOK, NEW h \in vertices, ConePresent(Trunk[h]), ConePresent(Branch[h])
  PROVE  PastCone[h] \subseteq vertices
<1> DEFINE Below(p) == IF p \in SEP THEN {} ELSE PastCone[p]
           S == {h} \union Below(Trunk[h]) \union Below(Branch[h])
<1>1. h \in Hash /\ vertices \subseteq Hash /\ Trunk[h] \in Hash /\ Branch[h] \in Hash
  BY TangleAssumption DEF TypeOK
<1>2. ASSUME NEW p \in Hash, ConePresent(p)
      PROVE  Below(p) \subseteq vertices /\ Closed(Below(p)) /\ p \in Below(p) \union SEP
  BY <1>2, ConeClosed DEF ConePresent, Closed
<1>3. Below(Trunk[h]) \subseteq vertices /\ Closed(Below(Trunk[h]))
      /\ Trunk[h] \in Below(Trunk[h]) \union SEP
  BY <1>1, <1>2
<1>4. Below(Branch[h]) \subseteq vertices /\ Closed(Below(Branch[h]))
      /\ Branch[h] \in Below(Branch[h]) \union SEP
  BY <1>1, <1>2
<1> HIDE DEF Below
<1>5. S \in SUBSET Hash /\ h \in S /\ S \subseteq vertices
  BY <1>1, <1>3, <1>4
<1>6. Closed(S)
  BY <1>3, <1>4 DEF Closed
<1> HIDE DEF S
<1>7. PastCone[h] \subseteq S
  BY <1>1, <1>5, <1>6 DEF PastCone
<1> QED BY <1>5, <1>7

(* What the solidifier has seen so far stays true until it writes the flag: *)
(* flags may be lost meanwhile, the vertices below are not. *)
Checked ==
  /\ spc \in {"branch", "set"} => ConePresent(Trunk[cur])
  /\ spc = "set" => ConePresent(Branch[cur])

ConeInv == TypeInv /\ Checked /\ SolidPastConePresent

LEMMA NextCone == ConeInv /\ [Next]_vars => ConeInv'
<1> SUFFICES ASSUME ConeInv, [Next]_vars PROVE Checked' /\ SolidPastConePresent'
  BY NextType DEF ConeInv
<1>0. TypeInv /\ TypeInv'
  BY NextType DEF ConeInv
<1>1. ASSUME vertices \subseteq vertices', solid' \subseteq solid, UNCHANGED <<spc, cur>>
      PROVE  Checked' /\ SolidPastConePresent'
  BY <1>1 DEF ConeInv, Checked, SolidPastConePresent, ConePresent
<1>2. ASSUME UNCHANGED <<vertices, solid>>, spc' \notin {"branch", "set"}
      PROVE  Checked' /\ SolidPastConePresent'
  BY <1>2 DEF ConeInv, Checked, SolidPastConePresent
<1>3. ASSUME NEW w \in Writers, NEW h \in Hash, ApproveTrunk(w, h)
      PROVE  Checked' /\ SolidPastConePresent'
  BY <1>1, <1>3 DEF ApproveTrunk, propagateVars
<1>4. ASSUME NEW w \in Writers, WriterStep(w)
      PROVE  Checked' /\ SolidPastConePresent'
  BY <1>1, <1>4 DEF WriterStep, ApproveBranch, InsertVertex, Announce, propagateVars
<1>5. CASE Recv \/ Pop \/ EndPropagate \/ PushApprovers
  BY <1>2, <1>5 DEF Recv, Pop, EndPropagate, PushApprovers, NextHash
<1>6. CASE CheckTrunk
  BY <1>6 DEF ConeInv, CheckTrunk, NextHash, Checked, SolidPastConePresent,
              ConePresent, IsSolid
<1>7. CASE CheckBranch
  BY <1>7 DEF ConeInv, CheckBranch, NextHash, Checked, SolidPastConePresent,
              ConePresent, IsSolid
<1>8. CASE SetSolid
  <2>1. cur \in vertices /\ ConePresent(Trunk[cur]) /\ ConePresent(Branch[cur])
    BY <1>0, <1>8 DEF SetSolid, ConeInv, TypeInv, CursorPresent, Checked
  <2>2. PastCone[cur] \subseteq vertices
    BY <1>0, <2>1, ConeStep DEF TypeInv
  <2> QED BY <1>8, <2>2 DEF SetSolid, ConeInv, Checked, SolidPastConePresent
<1>9. CASE DropSend
  BY <1>1, <1>9 DEF DropSend, propagateVars
<1>10. CASE DropBarrier
  BY <1>2, <1>10 DEF DropBarrier
<1>11. CASE UNCHANGED vars
  BY <1>1, <1>11 DEF vars, propagateVars
<1> QED
  BY <1>3, <1>4, <1>5, <1>6, <1>7, <1>8, <1>9, <1>10, <1>11 DEF Next, SolidifierStep

(* Whatever is inserted, and however often, a vertex flagged SOLID has its *)
(* whole past cone in the tangle. *)
THEOREM SolidPastCone == Spec => []SolidPastConePresent
<1>1. Init => ConeInv
  BY InitType DEF ConeInv, Init, Checked, SolidPastConePresent
<1>2. ConeInv => SolidPastConePresent
  BY DEF ConeInv
<1> QED BY <1>1, <1>2, NextCone, PTL DEF Spec

-----------------------------------------------------------------------------
(* No solidification is lost, as long as no transaction is inserted twice. *)

AtMostOnce == \A h \in Hash : MaxInserts[h] <= 1

(* A transaction under insertion is not in the tangle yet, and no other    *)
(* writer inserts it. *)
Fresh ==
  /\ \A h \in vertices : inserts[h] >= 1
  /\ \A w \in Writers : wpc[w] # "idle" => inserts[wtx[w]] >= 1
  /\ \A w \in Writers : wpc[w] \in {"branch", "vertex"} => wtx[w] \notin vertices
  /\ \A w \in Writers : wpc[w] = "send" => wtx[w] \in vertices
  /\ \A v, w \in Writers : v # w /\ wpc[v] # "idle" /\ wpc[w] # "idle" => wtx[v] # wtx[w]

(* The parents know their approvers before the vertex can be seen. *)
Listed(h) == InSeq(h, approvers[Trunk[h]]) /\ InSeq(h, approvers[Branch[h]])

ApproversKnown ==
  /\ \A h \in vertices : Listed(h)
  /\ \A w \in Writers : wpc[w] = "branch" => InSeq(wtx[w], approvers[Trunk[wtx[w]]])
  /\ \A w \in Writers : wpc[w] = "vertex" => Listed(wtx[w])

(* h will still be examined. *)
Pending(h) ==
  \/ \E w \in Writers : wpc[w] = "send" /\ wtx[w] = h
  \/ InSeq(h, chan)
  \/ InSeq(h, stack)
  \/ spc \in {"trunk", "branch", "set"} /\ cur = h
  \/ spc = "approvers" /\ InSeq(h, approvers[cur])

Ready(h) == IsSolid(Trunk[h]) /\ IsSolid(Branch[h]) /\ h \notin solid

Propagation ==
  /\ already \subseteq solid
  /\ spc \in {"recv", "barrier", "done"} => stack = <<>>
  /\ spc \in {"branch", "set"} => IsSolid(Trunk[cur])
  /\ spc = "set" => IsSolid(Branch[cur])

OnceInv ==
  /\ TypeInv /\ Fresh /\ ApproversKnown /\ Propagation
  /\ \A h \in vertices : Ready(h) => Pending(h)

LEMMA InitOnce == Init => OnceInv
BY InitType DEF Init, OnceInv, Fresh, ApproversKnown, Propagation

LEMMA NextFresh == AtMostOnce /\ OnceInv /\ [Next]_vars => Fresh'
<1> SUFFICES ASSUME AtMostOnce, OnceInv, [Next]_vars PROVE Fresh'
  OBVIOUS
<1> USE TangleAssumption DEF OnceInv, TypeInv, TypeOK, WriterHolds, Fresh
<1>1. ASSUME NEW w \in Writers, NEW h \in Hash, ApproveTrunk(w, h) PROVE Fresh'
  <2>1. inserts[h] = 0 /\ h \notin vertices /\ wpc[w] = "idle"
    BY <1>1 DEF ApproveTrunk, AtMostOnce
  <2>2. \A v \in Writers : v # w /\ wpc[v] # "idle" => wtx[v] # h
    BY <2>1
  <2>3. /\ wtx' = [wtx EXCEPT ![w] = h]
        /\ inserts' = [inserts EXCEPT ![h] = 1]
        /\ wpc'[w] \in {"branch", "vertex"}
        /\ \A v \in Writers : v # w => wpc'[v] = wpc[v]
        /\ UNCHANGED vertices
    BY <1>1, <2>1 DEF ApproveTrunk, Goto
  <2> QED BY <2>1, <2>2, <2>3
<1>2. ASSUME NEW w \in Writers, ApproveBranch(w) PROVE Fresh'
  BY <1>2 DEF ApproveBranch, Goto
<1>3. ASSUME NEW w \in Writers, InsertVertex(w) PROVE Fresh'
  BY <1>3 DEF InsertVertex, Goto, Return
<1>4. ASSUME NEW w \in Writers, Announce(w) PROVE Fresh'
  BY <1>4 DEF Announce, Goto, Return
<1>5. CASE SolidifierStep
  BY <1>5 DEF SolidifierStep, Recv, Pop, EndPropagate, CheckTrunk, CheckBranch,
              SetSolid, PushApprovers, writerVars
<1>6. CASE DropSend \/ DropBarrier \/ UNCHANGED vars
  BY <1>6 DEF DropSend, DropBarrier, vars, writerVars
<1> QED BY <1>1, <1>2, <1>3, <1>4, <1>5, <1>6 DEF Next, WriterStep

(* Only vertices that are new are inserted: no flag is ever lost. *)
LEMMA SolidGrows == AtMostOnce /\ OnceInv /\ [Next]_vars => solid \subseteq solid'
<1> SUFFICES ASSUME AtMostOnce, OnceInv, [Next]_vars PROVE solid \subseteq solid'
  OBVIOUS
<1>1. ASSUME NEW w \in Writers, InsertVertex(w) PROVE solid' = solid
  BY <1>1 DEF InsertVertex, OnceInv, TypeInv, TypeOK, Fresh
<1> QED BY <1>1 DEF Next, WriterStep, SolidifierStep, ApproveTrunk, ApproveBranch,
           Announce, Recv, Pop, EndPropagate, CheckTrunk, CheckBranch, SetSolid,
           PushApprovers, DropSend, DropBarrier, vars

LEMMA NextApprovers == AtMostOnce /\ OnceInv /\ [Next]_vars => ApproversKnown'
<1> SUFFICES ASSUME AtMostOnce, OnceInv, [Next]_vars PROVE ApproversKnown'
  OBVIOUS
<1> USE TangleAssumption DEF OnceInv, TypeInv, TypeOK, WriterHolds, ApproversKnown
<1>1. ASSUME NEW w \in Writers, NEW h \in Hash, ApproveTrunk(w, h) PROVE ApproversKnown'
  <2>1. /\ \A e : \A p \in Hash : InSeq(e, approvers[p]) => InSeq(e, approvers'[p])
        /\ InSeq(h, approvers'[Trunk[h]])
    <3>1. /\ approvers[Trunk[h]] \in Seq(Hash) /\ Trunk[h] \in Hash
          /\ approvers' = [approvers EXCEPT ![Trunk[h]] = Append(approvers[Trunk[h]], h)]
      BY <1>1 DEF ApproveTrunk
    <3>2. \A e : InSeq(e, Append(approvers[Trunk[h]], h))
                   <=> InSeq(e, approvers[Trunk[h]]) \/ e = h
      BY <3>1, AppendHas
    <3> QED BY <3>1, <3>2
  <2>2. /\ wtx' = [wtx EXCEPT ![w] = h]
        /\ wpc' = [wpc EXCEPT ![w] = IF Trunk[h] # Branch[h] THEN "branch" ELSE "vertex"]
        /\ UNCHANGED vertices
    BY <1>1 DEF ApproveTrunk, Goto
  <2> QED BY <2>1, <2>2 DEF Listed
<1>2. ASSUME NEW w \in Writers, ApproveBranch(w) PROVE ApproversKnown'
  <2> DEFINE h == wtx[w]
  <2>1. /\ \A e : \A p \in Hash : InSeq(e, approvers[p]) => InSeq(e, approvers'[p])
        /\ InSeq(h, approvers'[Branch[h]])
    <3>1. /\ h \in Hash /\ Branch[h] \in Hash /\ approvers[Branch[h]] \in Seq(Hash)
          /\ approvers' = [approvers EXCEPT ![Branch[h]] = Append(approvers[Branch[h]], h)]
      BY <1>2 DEF ApproveBranch
    <3>2. \A e : InSeq(e, Append(approvers[Branch[h]], h))
                   <=> InSeq(e, approvers[Branch[h]]) \/ e = h
      BY <3>1, AppendHas
    <3> QED BY <3>1, <3>2
  <2>2. /\ wpc[w] = "branch"
        /\ wpc' = [wpc EXCEPT ![w] = "vertex"]
        /\ UNCHANGED <<vertices, wtx>>
    BY <1>2 DEF ApproveBranch, Goto
  <2> QED BY <2>1, <2>2 DEF Listed
<1>3. ASSUME NEW w \in Writers, InsertVertex(w) PROVE ApproversKnown'
  BY <1>3 DEF InsertVertex, Goto, Return, Listed
<1>4. ASSUME NEW w \in Writers, Announce(w) PROVE ApproversKnown'
  BY <1>4 DEF Announce, Goto, Return, Listed
<1>5. CASE SolidifierStep
  BY <1>5 DEF SolidifierStep, Recv, Pop, EndPropagate, CheckTrunk, CheckBranch,
              SetSolid, PushApprovers, writerVars, Listed
<1>6. CASE DropSend \/ DropBarrier \/ UNCHANGED vars
  BY <1>6 DEF DropSend, DropBarrier, vars, writerVars, Listed
<1> QED BY <1>1, <1>2, <1>3, <1>4, <1>5, <1>6 DEF Next, WriterStep

LEMMA NextPropagation == AtMostOnce /\ OnceInv /\ [Next]_vars => Propagation'
<1> SUFFICES ASSUME AtMostOnce, OnceInv, [Next]_vars PROVE Propagation'
  OBVIOUS
<1>0. solid \subseteq solid'
  BY SolidGrows
<1> USE DEF OnceInv, Propagation, IsSolid
<1>1. ASSUME UNCHANGED <<spc, propagateVars>> PROVE Propagation'
  BY <1>0, <1>1 DEF propagateVars
<1>2. ASSUME NEW w \in Writers, NEW h \in Hash, ApproveTrunk(w, h) PROVE Propagation'
  BY <1>1, <1>2 DEF ApproveTrunk
<1>3. ASSUME NEW w \in Writers, WriterStep(w) PROVE Propagation'
  BY <1>1, <1>3 DEF WriterStep, ApproveBranch, InsertVertex, Announce
<1>4. CASE Recv
  BY <1>4 DEF Recv
<1>5. CASE Pop
  BY <1>5 DEF Pop, NextHash
<1>6. CASE EndPropagate
  BY <1>6 DEF EndPropagate, propagateVars
<1>7. CASE CheckTrunk
  BY <1>7 DEF CheckTrunk, NextHash
<1>8. CASE CheckBranch
  BY <1>8 DEF CheckBranch, NextHash
<1>9. CASE SetSolid
  BY <1>9 DEF SetSolid
<1>10. CASE PushApprovers
  BY <1>10 DEF PushApprovers, NextHash
<1>11. CASE DropSend
  BY <1>1, <1>11 DEF DropSend
<1>12. CASE DropBarrier
  BY <1>12 DEF DropBarrier, propagateVars
<1>13. CASE UNCHANGED vars
  BY <1>1, <1>13 DEF vars
<1> QED
  BY <1>2, <1>3, <1>4, <1>5, <1>6, <1>7, <1>8, <1>9, <1>10, <1>11, <1>12, <1>13
  DEF Next, SolidifierStep

LEMMA NextPending ==
  AtMostOnce /\ OnceInv /\ [Next]_vars => \A h \in vertices' : Ready(h)' => Pending(h)'
<1> SUFFICES ASSUME AtMostOnce, OnceInv, [Next]_vars, NEW h \in vertices', Ready(h)'
             PROVE  Pending(h)'
  OBVIOUS
<1>0. solid \subseteq solid' /\ TypeInv /\ TypeInv'
  BY SolidGrows, NextType DEF OnceInv
<1> USE TangleAssumption, <1>0 DEF TypeInv, TypeOK, WriterHolds, CursorPresent
(* If no flag and no vertex is new, h was ready, hence pending, before. *)
<1>1. ASSUME UNCHANGED <<vertices, solid>> PROVE Pending(h)
  BY <1>1 DEF OnceInv, Ready, IsSolid
<1>2. ASSUME NEW w \in Writers, NEW k \in Hash, ApproveTrunk(w, k) PROVE Pending(h)'
  <2>1. \A e : \A p \in Hash : InSeq(e, approvers[p]) => InSeq(e, approvers'[p])
    <3>1. /\ approvers[Trunk[k]] \in Seq(Hash) /\ Trunk[k] \in Hash
          /\ approvers' = [approvers EXCEPT ![Trunk[k]] = Append(approvers[Trunk[k]], k)]
      BY <1>2 DEF ApproveTrunk
    <3>2. \A e : InSeq(e, Append(approvers[Trunk[k]], k))
                   <=> InSeq(e, approvers[Trunk[k]]) \/ e = k
      BY <3>1, AppendHas
    <3> QED BY <3>1, <3>2
  <2>2. Pending(h)
    BY <1>1, <1>2 DEF ApproveTrunk
  <2>3. \A v \in Writers : wpc[v] = "send" => wpc'[v] = "send" /\ wtx'[v] = wtx[v]
    BY <1>2 DEF ApproveTrunk, Goto
  <2> QED BY <1>2, <2>1, <2>2, <2>3 DEF ApproveTrunk, propagateVars, Pending
<1>3. ASSUME NEW w \in Writers, ApproveBranch(w) PROVE Pending(h)'
  <2> DEFINE k == wtx[w]
  <2>1. \A e : \A p \in Hash : InSeq(e, approvers[p]) => InSeq(e, approvers'[p])
    <3>1. /\ k \in Hash /\ Branch[k] \in Hash /\ approvers[Branch[k]] \in Seq(Hash)
          /\ approvers' = [approvers EXCEPT ![Branch[k]] = Append(approvers[Branch[k]], k)]
      BY <1>3 DEF ApproveBranch
    <3>2. \A e : InSeq(e, Append(approvers[Branch[k]], k))
                   <=> InSeq(e, approvers[Branch[k]]) \/ e = k
      BY <3>1, AppendHas
    <3> QED BY <3>1, <3>2
  <2>2. Pending(h)
    BY <1>1, <1>3 DEF ApproveBranch
  <2>3. \A v \in Writers : wpc[v] = "send" => wpc'[v] = "send" /\ wtx'[v] = wtx[v]
    BY <1>3 DEF ApproveBranch, Goto
  <2> QED BY <1>3, <2>1, <2>2, <2>3 DEF ApproveBranch, propagateVars, Pending
(* A new vertex is pending because its writer is about to announce it. *)
<1>4. ASSUME NEW w \in Writers, InsertVertex(w) PROVE Pending(h)'
  <2>1. wtx[w] \notin vertices /\ wpc[w] = "vertex"
    BY <1>4 DEF InsertVertex, OnceInv, Fresh
  <2>2. wpc' = [wpc EXCEPT ![w] = "send"] /\ UNCHANGED wtx
    BY <1>4, <2>1 DEF InsertVertex, Goto
  <2>3. CASE h = wtx[w]
    BY <2>2, <2>3 DEF Pending
  <2>4. CASE h # wtx[w]
    <3>1. h \in vertices /\ solid' = solid
      BY <1>4, <2>1, <2>4 DEF InsertVertex
    <3>2. Pending(h)
      BY <3>1 DEF OnceInv, Ready, IsSolid
    <3> QED BY <1>4, <2>1, <2>2, <3>2 DEF InsertVertex, propagateVars, Pending
  <2> QED BY <2>3, <2>4
(* The announcement puts it on the channel. *)
<1>5. ASSUME NEW w \in Writers, Announce(w) PROVE Pending(h)'
  <2>1. Pending(h)
    BY <1>1, <1>5 DEF Announce
  <2>2. \A e : InSeq(e, chan') <=> InSeq(e, chan) \/ e = wtx[w]
    <3>1. chan \in Seq(Hash \union {None}) /\ wtx[w] \in Hash \union {None}
          /\ chan' = Append(chan, wtx[w])
      BY <1>5 DEF Announce
    <3>2. \A e : InSeq(e, Append(chan, wtx[w])) <=> InSeq(e, chan) \/ e = wtx[w]
      BY ONLY <3>1, AppendHas
    <3> QED BY <3>1, <3>2
  <2>3. \A v \in Writers : v # w => wpc'[v] = wpc[v] /\ wtx'[v] = wtx[v]
    BY <1>5 DEF Announce, Return, Goto
  <2> QED BY <1>5, <2>1, <2>2, <2>3 DEF Announce, propagateVars, Pending
(* The solidifier moves it from the channel to its stack. *)
<1>6. CASE Recv
  <2>1. Pending(h) /\ h \in Hash /\ spc = "recv" /\ chan # <<>> /\ chan' = Tail(chan)
        /\ UNCHANGED <<approvers, wpc, wtx>>
    BY <1>1, <1>6 DEF Recv, writerVars
  <2>2. InSeq(h, chan) <=> h = Head(chan) \/ InSeq(h, Tail(chan))
    BY <2>1, HeadTailHas
  <2>3. ~InSeq(h, stack)
    BY <2>1, EmptySeqHas DEF OnceInv, Propagation
  <2>4. CASE h = Head(chan)
    <3>1. stack' = <<h>>
      BY <1>6, <2>1, <2>4 DEF Recv
    <3> QED BY <2>1, <3>1, SingletonHas DEF Pending
  <2>5. CASE h # Head(chan)
    BY <2>1, <2>2, <2>3, <2>5 DEF Pending
  <2> QED BY <2>4, <2>5
(* It is examined when popped: already_solid holds solid vertices only. *)
<1>7. CASE Pop
  <2>1. Pending(h) /\ h \in vertices /\ h \notin solid
    BY <1>1, <1>7 DEF Pop, Ready
  <2>2. h \notin already
    BY <2>1 DEF OnceInv, Propagation
  <2>3. /\ stack \in Seq(Hash) /\ stack # <<>> /\ spc = "pop"
        /\ stack' = SubSeq(stack, 1, Len(stack) - 1)
        /\ UNCHANGED <<chan, approvers, wpc, wtx>>
    BY <1>7 DEF Pop, writerVars
  <2>4. InSeq(h, stack) => h = stack[Len(stack)] \/ InSeq(h, stack')
    BY <2>3, PopHas
  <2>5. h = stack[Len(stack)] => spc' = "trunk" /\ cur' = h
    BY <1>7, <2>1, <2>2 DEF Pop
  <2> QED BY <2>1, <2>3, <2>4, <2>5 DEF Pending
<1>8. CASE EndPropagate
  BY <1>1, <1>8 DEF EndPropagate, writerVars, propagateVars, Pending
(* A ready hash passes both checks. *)
<1>9. CASE CheckTrunk
  <2>1. Pending(h) /\ IsSolid(Trunk[h])
    BY <1>1, <1>9 DEF CheckTrunk, Ready, IsSolid
  <2> QED BY <1>9, <2>1 DEF CheckTrunk, writerVars, Pending
<1>10. CASE CheckBranch
  <2>1. Pending(h) /\ IsSolid(Branch[h])
    BY <1>1, <1>10 DEF CheckBranch, Ready, IsSolid
  <2> QED BY <1>10, <2>1 DEF CheckBranch, writerVars, Pending
(* A new flag makes approvers ready, and they are about to be pushed. *)
<1>11. CASE SetSolid
  <2>1. h \in vertices /\ h # cur /\ h \notin solid
    BY <1>11 DEF SetSolid, Ready
  <2>2. /\ spc = "set" /\ spc' = "approvers"
        /\ UNCHANGED <<cur, approvers, chan, stack, wpc, wtx>>
    BY <1>11 DEF SetSolid, writerVars
  <2>3. CASE Trunk[h] = cur \/ Branch[h] = cur
    <3>1. InSeq(h, approvers[cur])
      BY <2>1, <2>3 DEF OnceInv, ApproversKnown, Listed
    <3> QED BY <2>2, <3>1 DEF Pending
  <2>4. CASE Trunk[h] # cur /\ Branch[h] # cur
    <3>1. Ready(h)
      BY <1>11, <2>1, <2>4 DEF SetSolid, Ready, IsSolid
    <3>2. Pending(h)
      BY <2>1, <3>1 DEF OnceInv
    <3> QED BY <2>1, <2>2, <3>2 DEF Pending
  <2> QED BY <2>3, <2>4
<1>12. CASE PushApprovers
  <2>1. Pending(h)
    BY <1>1, <1>12 DEF PushApprovers
  <2>2. /\ stack \in Seq(Hash) /\ approvers[cur] \in Seq(Hash)
        /\ stack' = stack \o approvers[cur] /\ spc = "approvers"
        /\ UNCHANGED <<chan, wpc, wtx>>
    BY <1>12 DEF PushApprovers, writerVars
  <2>3. InSeq(h, stack') <=> InSeq(h, stack) \/ InSeq(h, approvers[cur])
    BY <2>2, ConcatHas
  <2> QED BY <2>1, <2>2, <2>3 DEF Pending
<1>13. CASE DropSend
  <2>1. Pending(h) /\ chan \in Seq(Hash \union {None}) /\ chan' = Append(chan, None)
    BY <1>1, <1>13 DEF DropSend
  <2>2. InSeq(h, chan) => InSeq(h, chan')
    BY <2>1, AppendHas
  <2> QED BY <1>13, <2>1, <2>2 DEF DropSend, writerVars, propagateVars, Pending
<1>14. CASE DropBarrier
  BY <1>1, <1>14 DEF DropBarrier, writerVars, propagateVars, Pending
<1>15. CASE UNCHANGED vars
  BY <1>1, <1>15 DEF vars, writerVars, propagateVars, Pending
<1> QED
  BY <1>2, <1>3, <1>4, <1>5, <1>6, <1>7, <1>8, <1>9, <1>10, <1>11, <1>12, <1>13,
     <1>14, <1>15 DEF Next, WriterStep, SolidifierStep

LEMMA NextOnce == AtMostOnce /\ OnceInv /\ [Next]_vars => OnceInv'
<1> SUFFICES ASSUME AtMostOnce, OnceInv, [Next]_vars PROVE OnceInv'
  OBVIOUS
<1>1. TypeInv' /\ Fresh' /\ ApproversKnown' /\ Propagation'
  BY NextType, NextFresh, NextApprovers, NextPropagation DEF OnceInv
<1>2. \A h \in vertices' : Ready(h)' => Pending(h)'
  BY NextPending
<1> QED BY <1>1, <1>2 DEF OnceInv

LEMMA OnceComplete == OnceInv => NoLostSolidification
<1> SUFFICES ASSUME OnceInv, Quiescent, NEW h \in vertices,
                    IsSolid(Trunk[h]), IsSolid(Branch[h]), h \notin solid
             PROVE  FALSE
  BY DEF NoLostSolidification
<1>1. Pending(h)
  BY DEF OnceInv, Ready
<1>2. stack = <<>> /\ chan = <<>>
  BY DEF OnceInv, TypeInv, TypeOK, Quiescent, Propagation
<1> QED BY <1>1, <1>2, EmptySeqHas DEF Pending, Quiescent

(* If every transaction is inserted at most once, then no interleaving of  *)
(* writers and solidifier loses a solidification: at rest, a vertex with   *)
(* two solid parents is solid. *)
THEOREM NothingLost == AtMostOnce => (Spec => []NoLostSolidification)
<1> SUFFICES ASSUME AtMostOnce PROVE Spec => []NoLostSolidification
  OBVIOUS
<1>1. OnceInv /\ [Next]_vars => OnceInv'
  BY NextOnce
<1> QED BY <1>1, InitOnce, OnceComplete, PTL DEF Spec

-----------------------------------------------------------------------------
(* drop returns when everything inserted before is worked off.             *)

(* The None of shutdown is the last message on the channel, and the only   *)
(* one. *)
StopIsLast ==
  /\ chan # <<>>
  /\ chan[Len(chan)] = None
  /\ \A i \in 1 .. Len(chan) - 1 : chan[i] # None

(* The stages of a drop: before it there is no None to be seen and the     *)
(* solidifier runs; then the None is on its way; then the solidifier has   *)
(* taken it and the channel is empty.  No writer is active from its call.  *)
DropStages ==
  /\ dpc # "up" => \A w \in Writers : wpc[w] = "idle"
  /\ dpc = "up" => /\ spc \notin {"barrier", "done"}
                   /\ \A i \in 1 .. Len(chan) : chan[i] # None
  /\ dpc = "barrier" => /\ spc # "done"
                        /\ IF spc = "barrier" THEN chan = <<>> ELSE StopIsLast
  /\ dpc = "dropped" => spc = "done" /\ chan = <<>>

LEMMA NextDropStages == TypeInv /\ DropStages /\ [Next]_vars => DropStages'
<1> SUFFICES ASSUME TypeInv, DropStages, [Next]_vars PROVE DropStages'
  OBVIOUS
<1> USE TangleAssumption DEF TypeInv, TypeOK, WriterHolds
<1>1. ASSUME NEW w \in Writers, NEW h \in Hash, ApproveTrunk(w, h) PROVE DropStages'
  BY <1>1 DEF ApproveTrunk, DropStages, StopIsLast
(* A step of a writer: the drop has not begun. *)
<1>2. ASSUME NEW w \in Writers, WriterStep(w) PROVE DropStages'
  <2>1. dpc = "up" /\ UNCHANGED <<dpc, spc>>
    BY <1>2 DEF WriterStep, ApproveBranch, InsertVertex, Announce, DropStages
  <2>2. CASE ApproveBranch(w) \/ InsertVertex(w)
    BY <2>1, <2>2 DEF ApproveBranch, InsertVertex, DropStages
  <2>3. CASE Announce(w)
    <3>1. chan' = Append(chan, wtx[w]) /\ wtx[w] \in Hash /\ wtx[w] # None
      BY <2>3 DEF Announce
    <3> QED BY <2>1, <3>1 DEF DropStages
  <2> QED BY <1>2, <2>2, <2>3 DEF WriterStep
(* The solidifier takes the head: the None only if nothing is behind it. *)
<1>3. CASE Recv
  <2>1. /\ spc = "recv" /\ chan # <<>> /\ chan' = Tail(chan)
        /\ spc' = IF Head(chan) = None THEN "barrier" ELSE "pop"
        /\ UNCHANGED <<dpc, wpc>>
    BY <1>3 DEF Recv, writerVars
  <2>2. /\ Head(chan) = chan[1] /\ Len(chan) \in Nat \ {0} /\ Len(chan') = Len(chan) - 1
        /\ chan' \in Seq(Hash \union {None})
        /\ \A i \in 1 .. Len(chan') : chan'[i] = chan[i + 1]
    BY <2>1
  <2>3. CASE dpc = "up"
    <3>1. Head(chan) # None
      BY <2>2, <2>3 DEF DropStages
    <3> QED BY <2>1, <2>2, <2>3, <3>1 DEF DropStages
  <2>4. CASE dpc = "barrier"
    <3>1. StopIsLast
      BY <2>1, <2>4 DEF DropStages
    <3>2. CASE Len(chan) = 1
      <4>1. Head(chan) = None /\ chan' = <<>>
        BY <2>2, <3>1, <3>2 DEF StopIsLast
      <4> QED BY <2>1, <2>4, <4>1 DEF DropStages
    <3>3. CASE Len(chan) > 1
      <4>1. Head(chan) # None
        BY <2>2, <3>1, <3>3 DEF StopIsLast
      <4>2. chan' # <<>> /\ chan'[Len(chan')] = None
        BY <2>2, <3>1, <3>3 DEF StopIsLast
      <4>3. ASSUME NEW i \in 1 .. Len(chan') - 1 PROVE chan'[i] # None
        <5>1. i \in 1 .. Len(chan') /\ i + 1 \in 1 .. Len(chan) - 1
          BY ONLY <2>2, <3>3, <4>3
        <5>2. chan'[i] = chan[i + 1]
          BY ONLY <2>2, <5>1
        <5> QED BY ONLY <3>1, <5>1, <5>2 DEF StopIsLast
      <4> QED BY <2>1, <2>4, <4>1, <4>2, <4>3 DEF DropStages, StopIsLast
    <3> QED BY <2>2, <3>2, <3>3
  <2>5. CASE dpc = "dropped"
    BY <2>1, <2>5 DEF DropStages
  <2> QED BY <2>3, <2>4, <2>5
<1>4. CASE Pop \/ EndPropagate \/ CheckTrunk \/ CheckBranch \/ SetSolid \/ PushApprovers
  <2>1. /\ UNCHANGED <<chan, wpc, dpc>>
        /\ spc \notin {"barrier", "done"} /\ spc' \notin {"barrier", "done"}
    BY <1>4 DEF Pop, EndPropagate, CheckTrunk, CheckBranch, SetSolid, PushApprovers,
                NextHash, writerVars
  <2> QED BY <2>1 DEF DropStages, StopIsLast
<1>5. CASE DropSend
  <2>1. /\ dpc = "up" /\ dpc' = "barrier" /\ chan' = Append(chan, None)
        /\ \A w \in Writers : wpc[w] = "idle"
        /\ UNCHANGED <<spc, wpc>>
    BY <1>5 DEF DropSend, writerVars
  <2>2. /\ Len(chan') = Len(chan) + 1 /\ chan'[Len(chan')] = None
        /\ \A i \in 1 .. Len(chan) : chan'[i] = chan[i]
    BY <2>1
  <2>3. StopIsLast'
    BY <2>1, <2>2 DEF DropStages, StopIsLast
  <2> QED BY <2>1, <2>3 DEF DropStages
<1>6. CASE DropBarrier
  BY <1>6 DEF DropBarrier, DropStages, writerVars
<1>7. CASE UNCHANGED vars
  BY <1>7 DEF vars, writerVars, DropStages, StopIsLast
<1> QED BY <1>1, <1>2, <1>3, <1>4, <1>5, <1>6, <1>7 DEF Next, SolidifierStep

(* The cone of a parent lies in the cone of its child. *)
LEMMA ConeOfParent ==
  ASSUME NEW h \in Hash, NEW p \in PastCone[h]
  PROVE  PastCone[p] \subseteq PastCone[h]
<1>1. PastCone[h] \in SUBSET Hash /\ Closed(PastCone[h]) /\ p \in Hash
  BY ConeClosed
<1> QED BY <1>1 DEF PastCone

(* At rest, if no vertex with two solid parents is left, then no vertex    *)
(* with a complete past cone is: of those, one would approve none of the   *)
(* others. *)
LEMMA CompleteIsSolid ==
  ASSUME TypeOK, NoLostSolidification, Quiescent
  PROVE  \A h \in vertices : PastCone[h] \subseteq vertices => h \in solid
<1> DEFINE Left == {h \in vertices : PastCone[h] \subseteq vertices /\ h \notin solid}
<1> SUFFICES ASSUME Left # {} PROVE FALSE
  OBVIOUS
<1>1. Left \in SUBSET Hash /\ vertices \subseteq Hash
  BY DEF TypeOK
<1>2. PICK h \in Left : Trunk[h] \notin Left \ SEP /\ Branch[h] \notin Left \ SEP
  BY <1>1, AcyclicAssumption
<1>3. h \in Hash /\ h \in vertices /\ PastCone[h] \subseteq vertices /\ h \notin solid
  BY <1>1, <1>2
<1>4. ASSUME NEW p \in {Trunk[h], Branch[h]} PROVE IsSolid(p)
  <2>1. p \in PastCone[h] \union SEP /\ p \notin Left \ SEP
    BY <1>2, <1>3, <1>4, ConeClosed DEF Closed
  <2>2. CASE p \in SEP
    BY <2>2 DEF IsSolid
  <2>3. CASE p \notin SEP
    <3>1. p \in vertices /\ PastCone[p] \subseteq vertices
      BY <1>3, <2>1, <2>3, ConeOfParent
    <3> QED BY <2>1, <2>3, <3>1 DEF IsSolid
  <2> QED BY <2>2, <2>3
<1> QED BY <1>3, <1>4 DEF NoLostSolidification

(* If every transaction is inserted at most once, then drop returns only   *)
(* when nothing is under way any more and every vertex whose past cone is  *)
(* complete has become solid, however many insertions were still queued    *)
(* when it was called. *)
THEOREM DropWaits == AtMostOnce => (Spec => []DropDrains)
<1> SUFFICES ASSUME AtMostOnce PROVE Spec => []DropDrains
  OBVIOUS
<1>1. Init => OnceInv /\ DropStages
  BY InitOnce DEF Init, DropStages
<1>2. OnceInv /\ DropStages /\ [Next]_vars => OnceInv' /\ DropStages'
  BY NextOnce, NextDropStages DEF OnceInv
<1>3. ASSUME OnceInv, DropStages, dpc = "dropped" PROVE Quiescent
  BY <1>3 DEF DropStages, Quiescent
<1>4. OnceInv /\ DropStages => DropDrains
  BY <1>3, OnceComplete, CompleteIsSolid DEF OnceInv, TypeInv, DropDrains
<1> QED BY <1>1, <1>2, <1>4, PTL DEF Spec

-----------------------------------------------------------------------------
(* The tangle implements the abstract solidifier.                          *)

LEMMA InitRefines == Init => Abstract!Init
BY DEF Init, Abstract!Init

LEMMA StepRefines ==
  AtMostOnce /\ OnceInv /\ [Next]_vars => [Abstract!Next]_(Abstract!vars)
<1> SUFFICES ASSUME AtMostOnce, OnceInv, [Next]_vars
             PROVE  Abstract!Next \/ UNCHANGED <<vertices, solid>>
  BY DEF Abstract!vars
<1> USE DEF OnceInv, TypeInv, TypeOK
<1>1. ASSUME NEW w \in Writers, InsertVertex(w) PROVE Abstract!Next
  <2>1. wtx[w] \in Hash /\ wtx[w] \notin vertices
    BY <1>1 DEF InsertVertex, Fresh, WriterHolds
  <2>2. Abstract!Arrive(wtx[w])
    BY <1>1, <2>1 DEF InsertVertex, Abstract!Arrive
  <2> QED BY <2>1, <2>2 DEF Abstract!Next
<1>2. CASE SetSolid
  <2>1. cur \in Hash /\ cur \in vertices
    BY <1>2 DEF SetSolid, CursorPresent
  <2>2. Abstract!Solidify(cur)
    BY <1>2, <2>1 DEF SetSolid, Propagation, IsSolid, Abstract!Solidify
  <2> QED BY <2>1, <2>2 DEF Abstract!Next
<1> QED
  BY <1>1, <1>2 DEF Next, WriterStep, SolidifierStep, ApproveTrunk, ApproveBranch,
     Announce, Recv, Pop, EndPropagate, CheckTrunk, CheckBranch, PushApprovers,
     DropSend, DropBarrier, vars

(* Every behaviour of the tangle in which no transaction is inserted twice *)
(* is, seen through `vertices` and the SOLID flags, one of the abstract    *)
(* solidifier: a transaction becomes solid only in a state in which both   *)
(* its parents are, although the code reads them one after the other, and  *)
(* stays solid. *)
THEOREM RefinesSolidification ==
  AtMostOnce => (Spec => Abstract!Init /\ [][Abstract!Next]_(Abstract!vars))
<1> SUFFICES ASSUME AtMostOnce
             PROVE  Spec => Abstract!Init /\ [][Abstract!Next]_(Abstract!vars)
  OBVIOUS
<1>1. OnceInv /\ [Next]_vars => OnceInv'
  BY NextOnce
<1>2. OnceInv /\ [Next]_vars => [Abstract!Next]_(Abstract!vars)
  BY StepRefines
<1> QED BY <1>1, <1>2, InitOnce, InitRefines, PTL DEF Spec

=============================================================================
