----------------------------- MODULE SyncProofs -----------------------------
(***************************************************************************)
(* Proofs about Sync, for any transactions, milestones and bounds.         *)
(***************************************************************************)
EXTENDS Sync, DataLemmas, TLAPS

-----------------------------------------------------------------------------
(* Types.                                                                  *)

(* A worker holds what it is about to act on, and the transaction worker   *)
(* has room for one more tail and one more broadcast.                      *)
Holds ==
  /\ tpc # "idle" => tcur \in Hash /\ Len(tails) <= Capacity
  /\ tpc # "milestone" => casts <= Capacity
  /\ vpc # "idle" => vcur \in Index
  /\ spc \in {"solid", "update", "walk"} => Known(scur)
  /\ rpc \in {"peers", "mark", "send"} => rcur \in Hash

TypeInv == TypeOK /\ Holds

LEMMA InitType == Init => TypeInv
BY SyncAssumption DEF Init, TypeInv, TypeOK, Holds

LEMMA BundleType == ASSUME NEW i \in Index PROVE MsBundle[i][1] \in Members(i) /\ Members(i) \subseteq Hash
<1>1. MsBundle[i] \in Seq(Hash) /\ MsBundle[i] # <<>>
  BY SyncAssumption DEF IsBundle
<1>2. Len(MsBundle[i]) \in Nat /\ Len(MsBundle[i]) # 0
  BY <1>1
<1> QED BY <1>1, <1>2 DEF Members

LEMMA NextType == TypeInv /\ [Next]_vars => TypeInv'
<1> SUFFICES ASSUME TypeInv, [Next]_vars PROVE TypeInv'
  OBVIOUS
<1> USE SyncAssumption
    DEF TypeInv, TypeOK, Holds, Known, tangleVars, queueVars, txVars, valVars, msVars,
        reqVars, mreqVars, peerVars, netVars, castVars
<1>1. CASE TxSynced
  BY <1>1 DEF TxSynced, TxStep
<1>2. CASE TxEmpty
  BY <1>2 DEF TxEmpty, TxStep
<1>3. CASE TxTrigger
  BY <1>3 DEF TxTrigger, TxStep
<1>4. CASE TxRemove
  BY <1>4 DEF TxRemove, TxStep
<1>5. CASE TxSolidify
  BY <1>5 DEF TxSolidify, TxStep
<1>6. CASE TxMilestone
  <2>1. TailsFrom(tcur) \subseteq Hash
    BY <1>6 DEF TailsFrom, Collected, TxMilestone, TxStep
  <2>2. tails' \in Seq(Hash) /\ Len(tails') <= Capacity + 1
    <3>1. CASE TailsFrom(tcur) = {}
      BY <1>6, <3>1 DEF TxMilestone, TxStep
    <3>2. ASSUME NEW t \in TailsFrom(tcur), tails' = Append(tails, t)
          PROVE  tails' \in Seq(Hash) /\ Len(tails') <= Capacity + 1
      <4>1. t \in Hash /\ Len(tails) <= Capacity /\ Len(tails) \in Nat
        BY <1>6, <2>1 DEF TxMilestone, TxStep
      <4>2. Len(tails') = Len(tails) + 1 /\ tails' \in Seq(Hash)
        BY <3>2, <4>1
      <4> QED BY <4>1, <4>2
    <3> QED BY <1>6, <3>1, <3>2 DEF TxMilestone
  <2>3. UNCHANGED <<tangleVars, requested, txQueue, msQueue, triggers, walks, valVars,
                    msVars, reqVars, mreqVars, peerVars, netVars, castVars, again>>
        /\ casts <= Capacity /\ tpc' = "idle" /\ tcur' = None
    BY <1>6 DEF TxMilestone, TxStep
  <2> QED BY <2>2, <2>3
<1>7. ASSUME NEW i \in Index, Validate(i) PROVE TypeInv'
  <2>1. tails \in Seq(Hash) /\ tails # <<>> /\ tails' = Tail(tails)
    BY <1>7 DEF Validate
  <2>2. tails' \in Seq(Hash) /\ Len(tails') = Len(tails) - 1
    BY <2>1
  <2>3. Len(tails') <= Capacity + 1 /\ (Len(tails) <= Capacity => Len(tails') <= Capacity)
    BY <2>1, <2>2
  <2>4. /\ vpc' \in {"idle", "add", "last"} /\ vcur' \in Index \union {0}
        /\ vpc' # "idle" => vcur' \in Index
    BY <1>7 DEF Validate
  <2>5. UNCHANGED <<tangleVars, requested, txQueue, msQueue, triggers, walks, txVars, msVars,
                    reqVars, mreqVars, peerVars, netVars, castVars, again>>
    BY <1>7 DEF Validate
  <2>6. TypeOK'
    <3>1. tails' \in Seq(Hash) /\ Len(tails') <= Capacity + 1
      BY <2>2, <2>3
    <3>2. /\ vertices' \subseteq Hash /\ solid' \subseteq vertices' /\ stale' \subseteq vertices'
          /\ approver' \in [Hash -> Hash \union {None}]
          /\ milestones' \in [Index -> Hash \union {None}]
          /\ lastIdx' \in Nat /\ solidIdx' \in Nat
      BY <2>5
    <3>3. /\ requested' \subseteq Hash
          /\ txQueue' \subseteq Hash /\ msQueue' \subseteq Index \union {0}
      BY <2>5
    <3>4. /\ triggers' \in Seq([from : {"tx", "peer"}])
          /\ walks' \in Seq([from : {"tx", "milestone"}, hash : Hash])
      BY <2>5
    <3>5. /\ casts' \in 0..(Capacity + 1) /\ unsent' \in Nat
          /\ tpc' \in {"idle", "synced", "empty", "trigger", "remove", "solidify", "broadcast",
                        "milestone"}
          /\ tcur' \in Hash \union {None}
          /\ spc' \in {"idle", "target", "solid", "update", "heartbeat", "walk"}
          /\ scur' \in Index \union {0}
      BY <2>5
    <3>6. /\ rpc' \in {"idle", "peers", "mark", "send", "panicked"} /\ rcur' \in Hash \union {None}
          /\ mpc' \in {"idle", "peers", "send", "panicked"} /\ mcur' \in Index \union {0}
          /\ peers' \in Nat /\ greeting' \in Nat /\ joins' \in Nat
          /\ asked' \subseteq Hash /\ askedMs' \subseteq Index \union {0}
          /\ again' \in Nat /\ lost' \in Nat
      BY <2>5
    <3> QED BY <2>4, <3>1, <3>2, <3>3, <3>4, <3>5, <3>6
  <2>7. tpc' # "idle" => tcur' \in Hash /\ Len(tails') <= Capacity
    BY <2>3, <2>5
  <2> QED BY <2>4, <2>5, <2>6, <2>7
<1>8. CASE AddMilestone
  BY <1>8, BundleType DEF AddMilestone
<1>9. CASE UpdateLast
  BY <1>9 DEF UpdateLast
<1>10. CASE RequestMilestones
  <2>1. triggers \in Seq([from : {"tx", "peer"}]) /\ triggers # <<>>
        /\ triggers' = Tail(triggers)
    BY <1>10 DEF RequestMilestones
  <2>2. triggers' \in Seq([from : {"tx", "peer"}])
    BY <2>1
  <2>3. msQueue' \subseteq Index \union {0}
    BY <1>10 DEF RequestMilestones
  <2> QED BY <1>10, <2>2, <2>3 DEF RequestMilestones, MsStep
<1>11. CASE Target
  BY <1>11 DEF Target, MsStep
<1>12. CASE CheckTarget
  BY <1>12 DEF CheckTarget, MsStep
<1>13. CASE UpdateSolid
  BY <1>13 DEF UpdateSolid, MsStep
<1>14. CASE WalkTarget
  BY <1>14 DEF WalkTarget, MsStep
<1>15. CASE Walk
  BY <1>15 DEF Walk, Missing
<1>16. ASSUME NEW h \in Hash, PopRequest(h) PROVE TypeInv'
  BY <1>16 DEF PopRequest, ReqStep
<1>17. CASE CheckPeers
  BY <1>17 DEF CheckPeers, ReqStep
<1>18. CASE MarkRequested
  BY <1>18 DEF MarkRequested, ReqStep
<1>19. CASE SendRequest
  BY <1>19 DEF SendRequest, ReqStep
<1>20. ASSUME NEW i \in Index \union {0}, PopMilestone(i) PROVE TypeInv'
  BY <1>20 DEF PopMilestone, MreqStep
<1>21. CASE CheckPeersMs
  BY <1>21 DEF CheckPeersMs, MreqStep
<1>22. CASE SendMsRequest
  <2>1. askedMs' \subseteq Index \union {0}
    BY <1>22 DEF SendMsRequest
  <2>2. mpc' \in {"idle", "panicked"} /\ mcur' = 0 /\ msQueue' = msQueue
    BY <1>22 DEF SendMsRequest, MreqStep
  <2> QED BY <1>22, <2>1, <2>2 DEF SendMsRequest, MreqStep
<1>23. CASE Greet
  BY <1>23 DEF Greet
<1>24. ASSUME NEW h \in Hash, TxAgain(h) PROVE TypeInv'
  BY <1>24 DEF TxAgain
<1>25. ASSUME NEW h \in Hash, Gossip(h) PROVE TypeInv'
  BY <1>25 DEF Gossip, TxInsert
<1>26. ASSUME NEW h \in Hash, Answer(h) PROVE TypeInv'
  BY <1>26 DEF Answer, TxInsert
<1>27. ASSUME NEW i \in Index, AnswerMs(i) PROVE TypeInv'
  <2>1. MsBundle[i][1] \in Hash
    BY BundleType
  <2> QED BY <1>27, <2>1 DEF AnswerMs, TxInsert
<1>28. CASE Lose
  <2>1. asked' \subseteq asked /\ askedMs' \subseteq askedMs /\ lost' = lost + 1
    <3>1. CASE UNCHANGED askedMs /\ \E h \in asked : asked' = asked \ {h}
      BY <1>28, <3>1 DEF Lose
    <3>2. CASE UNCHANGED asked /\ \E i \in askedMs : askedMs' = askedMs \ {i}
      BY <1>28, <3>2 DEF Lose
    <3> QED BY <1>28, <3>1, <3>2 DEF Lose
  <2> QED BY <1>28, <2>1 DEF Lose
<1>29. CASE Join
  BY <1>29 DEF Join
<1>30. CASE Leave
  BY <1>30 DEF Leave
<1>31. ASSUME NEW h \in Hash, Solidify(h) PROVE TypeInv'
  BY <1>31 DEF Solidify
<1>32. CASE TxBroadcast
  BY <1>32 DEF TxBroadcast, TxStep
<1>33. CASE Refuse
  <2>1. tails \in Seq(Hash) /\ tails # <<>> /\ tails' = Tail(tails)
    BY <1>33 DEF Refuse
  <2>2. tails' \in Seq(Hash) /\ Len(tails') = Len(tails) - 1 /\ Len(tails) \in Nat
    BY <2>1
  <2>3. UNCHANGED <<tangleVars, requested, txQueue, msQueue, triggers, walks, txVars, valVars,
                    msVars, reqVars, mreqVars, peerVars, netVars, castVars, again>>
    BY <1>33 DEF Refuse
  <2>4. Len(tails') <= Capacity + 1 /\ (Len(tails) <= Capacity => Len(tails') <= Capacity)
    BY <2>2
  <2> HIDE SyncAssumption
  <2> QED BY <2>2, <2>3, <2>4
<1>34. CASE TakeBroadcast
  BY <1>34 DEF TakeBroadcast
<1>35. CASE CommandTaken
  BY <1>35 DEF CommandTaken
<1>36. CASE HeartbeatTaken
  BY <1>36 DEF HeartbeatTaken, MsStep
<1>37. CASE UNCHANGED vars
  BY <1>37 DEF vars
<1> QED
  BY <1>1, <1>2, <1>3, <1>4, <1>5, <1>6, <1>7, <1>8, <1>9, <1>10, <1>11, <1>12, <1>13,
     <1>14, <1>15, <1>16, <1>17, <1>18, <1>19, <1>20, <1>21, <1>22, <1>23, <1>24, <1>25,
     <1>26, <1>27, <1>28, <1>29, <1>30, <1>31, <1>32, <1>33, <1>34, <1>35, <1>36, <1>37
  DEF Next, Sends, Workers, Network, Answers, TransactionWorker, MilestoneValidator,
      MilestoneSolidifier, TransactionRequester, MilestoneRequester

(* Types, and that the validator's and the broadcaster's channel keep      *)
(* their bound.                                                            *)
THEOREM TypeCorrect == Spec => []TypeOK
<1>1. TypeInv => TypeOK
  BY DEF TypeInv
<1> QED BY <1>1, InitType, NextType, PTL DEF Spec

-----------------------------------------------------------------------------
(* The solid milestone index.                                              *)

LEMMA ConeClosed ==
  ASSUME NEW h \in Hash
  PROVE  h \in PastCone[h] /\ Closed(PastCone[h])
<1>1. PastCone[h] = {g \in Hash : \A S \in SUBSET Hash : h \in S /\ Closed(S) => g \in S}
  BY DEF PastCone
<1>2. ASSUME NEW g \in PastCone[h], NEW p \in Hash, p = Trunk[g] \/ p = Branch[g], p \notin SEP
      PROVE  p \in PastCone[h]
  BY <1>1, <1>2 DEF Closed
<1>3. \A g \in PastCone[h] : Trunk[g] \in Hash /\ Branch[g] \in Hash
  BY <1>1, SyncAssumption
<1> QED BY <1>1, <1>2, <1>3 DEF Closed

(* The cones of all solid transactions are in the tangle. *)
SolidCones == \A h \in solid : PastCone[h] \subseteq vertices

(* So is that of the milestone about to become the solid one, whatever     *)
(* happened to its flag since it was read.                                 *)
TargetCone ==
  /\ spc = "update" => PastCone[milestones[scur]] \subseteq vertices
  /\ spc \in {"solid", "update", "walk"} => scur = solidIdx + 1

(* A milestone is known by the tail of its bundle. *)
KnownTail == \A i \in Index : Known(i) => milestones[i] = MsBundle[i][1]

IndexInv ==
  /\ TypeInv
  /\ SolidCones
  /\ TargetCone
  /\ KnownTail
  /\ solidIdx >= Snap
  /\ SolidIndexSound

(* The cone of a transaction whose parents are solid. *)
LEMMA ConeStep ==
  ASSUME TypeOK, SolidCones, NEW h \in vertices, IsSolid(Trunk[h]), IsSolid(Branch[h])
  PROVE  PastCone[h] \subseteq vertices
<1> DEFINE S == {h} \union UNION {PastCone[g] : g \in solid}
<1>1. h \in Hash /\ vertices \subseteq Hash /\ solid \subseteq Hash
  BY DEF TypeOK
<1>2. S \subseteq vertices
  BY DEF SolidCones
<1>3. ASSUME NEW p \in solid \union SEP PROVE p \in S \union SEP
  BY <1>1, <1>3, ConeClosed
<1>4. ASSUME NEW g \in S PROVE Trunk[g] \in S \union SEP /\ Branch[g] \in S \union SEP
  <2>1. CASE g = h
    BY <1>3, <2>1 DEF IsSolid
  <2>2. ASSUME NEW f \in solid, g \in PastCone[f]
        PROVE  Trunk[g] \in S \union SEP /\ Branch[g] \in S \union SEP
    BY <1>1, <2>2, ConeClosed DEF Closed
  <2> QED BY <1>4, <2>1, <2>2
<1>5. h \in S /\ S \in SUBSET Hash /\ Closed(S)
  BY <1>1, <1>2, <1>4 DEF Closed
<1> HIDE DEF S
<1>6. PastCone[h] \subseteq S
  BY <1>1, <1>5 DEF PastCone
<1> QED BY <1>2, <1>6

LEMMA InitIndex == Init => IndexInv
<1>1. ASSUME Init PROVE SolidCones /\ TargetCone /\ KnownTail /\ SolidIndexSound /\ solidIdx >= Snap
  BY <1>1, SyncAssumption DEF Init, SolidCones, TargetCone, KnownTail, SolidIndexSound, Known
<1> QED BY <1>1, InitType DEF IndexInv

(* All these are statements about more vertices and the same rest. *)
LEMMA MoreVertices ==
  ASSUME IndexInv, TypeInv', vertices \subseteq vertices', solid' \subseteq solid,
         UNCHANGED <<milestones, solidIdx, msVars>>
  PROVE  IndexInv'
<1> USE DEF IndexInv, msVars
<1>1. SolidCones'
  BY DEF SolidCones
<1>2. TargetCone'
  BY DEF TargetCone
<1>3. KnownTail' /\ (solidIdx >= Snap)'
  BY DEF KnownTail, Known
<1>4. SolidIndexSound'
  BY DEF SolidIndexSound, Known
<1> QED BY <1>1, <1>2, <1>3, <1>4

LEMMA NextIndex == IndexInv /\ [Next]_vars => IndexInv'
<1> SUFFICES ASSUME IndexInv, [Next]_vars PROVE IndexInv'
  OBVIOUS
<1>0. TypeInv /\ TypeInv' /\ TypeOK
  BY NextType DEF IndexInv, TypeInv
<1> DEFINE Same == /\ vertices \subseteq vertices' /\ solid' \subseteq solid
                   /\ UNCHANGED <<milestones, solidIdx, msVars>>
<1> USE DEF tangleVars, queueVars, txVars, valVars, msVars, reqVars, mreqVars, peerVars,
            netVars, castVars
<1>1. ASSUME TransactionWorker PROVE Same
  BY <1>1 DEF TransactionWorker, TxSynced, TxEmpty, TxTrigger, TxRemove, TxSolidify,
     TxBroadcast, TxMilestone, TxStep
<1>2. ASSUME (\E i \in Index : Validate(i)) \/ Refuse PROVE Same
  BY <1>2 DEF Validate, Refuse
<1>3. CASE AddMilestone
  <2>1. vcur \in Index /\ MsBundle[vcur][1] \in Hash
    BY <1>0, <1>3, BundleType DEF AddMilestone, TypeInv, Holds
  <2>2. /\ UNCHANGED <<vertices, solid, solidIdx, spc, scur>>
        /\ milestones' = [milestones EXCEPT ![vcur] = MsBundle[vcur][1]]
    BY <1>3 DEF AddMilestone
  <2>3. ASSUME NEW i \in Index, Known(i) PROVE milestones'[i] = milestones[i]
    BY <1>0, <2>1, <2>2, <2>3 DEF IndexInv, KnownTail, TypeOK
  <2>4. SolidCones' /\ TargetCone'
    BY <1>0, <2>2, <2>3 DEF IndexInv, SolidCones, TargetCone, TypeInv, Holds, Known
  <2>5. KnownTail'
    BY <1>0, <2>1, <2>2 DEF IndexInv, KnownTail, Known, TypeOK
  <2>6. SolidIndexSound' /\ (solidIdx >= Snap)'
    <3>1. ASSUME NEW i \in Index, Known(i) PROVE Known(i)'
      BY <2>3, <3>1 DEF Known
    <3> QED BY <2>2, <2>3, <3>1 DEF IndexInv, SolidIndexSound
  <2> QED BY <1>0, <2>4, <2>5, <2>6 DEF IndexInv
<1>4. ASSUME UpdateLast PROVE Same
  BY <1>4 DEF UpdateLast
<1>5. CASE RequestMilestones \/ Target \/ WalkTarget \/ HeartbeatTaken
  <2>1. UNCHANGED <<vertices, solid, milestones, solidIdx>>
    BY <1>5 DEF RequestMilestones, Target, WalkTarget, HeartbeatTaken, MsStep
  <2>2. spc' \in {"idle", "target", "solid"} /\ (spc' = "solid" => scur' = solidIdx + 1)
    BY <1>5 DEF RequestMilestones, Target, WalkTarget, HeartbeatTaken, MsStep
  <2> QED BY <1>0, <2>1, <2>2
      DEF IndexInv, SolidCones, TargetCone, KnownTail, SolidIndexSound, Known
<1>6. CASE CheckTarget
  <2>1. /\ UNCHANGED <<vertices, solid, milestones, solidIdx, scur>>
        /\ spc = "solid" /\ Known(scur) /\ scur = solidIdx + 1
        /\ spc' = IF IsSolid(milestones[scur]) THEN "update" ELSE "walk"
    BY <1>0, <1>6 DEF CheckTarget, MsStep, IndexInv, TargetCone, TypeInv, Holds
  <2>2. milestones[scur] \notin SEP
    <3>1. scur \in Index /\ scur > Snap /\ milestones[scur] = MsBundle[scur][1]
      BY <2>1, <1>0, SyncAssumption DEF IndexInv, KnownTail, Known, TypeOK
    <3> QED BY <3>1, SyncAssumption
  <2>3. TargetCone'
    BY <2>1, <2>2 DEF TargetCone, IsSolid, IndexInv, SolidCones
  <2> QED BY <1>0, <2>1, <2>3 DEF IndexInv, SolidCones, KnownTail, SolidIndexSound, Known
<1>7. CASE UpdateSolid
  <2>1. /\ UNCHANGED <<vertices, solid, milestones>>
        /\ spc = "update" /\ Known(scur) /\ scur = solidIdx + 1
        /\ PastCone[milestones[scur]] \subseteq vertices
        /\ spc' \in {"idle", "heartbeat"} /\ solidIdx' = scur
    BY <1>0, <1>7 DEF UpdateSolid, MsStep, IndexInv, TargetCone, TypeInv, Holds
  <2>2. SolidIndexSound'
    <3>1. ASSUME NEW i \in Index, i > Snap, i <= scur PROVE i <= solidIdx \/ i = scur
      BY <1>0, <2>1, <3>1, SyncAssumption DEF TypeOK
    <3> QED BY <2>1, <3>1 DEF IndexInv, SolidIndexSound, Known
  <2>3. solidIdx' >= Snap
    BY <1>0, <2>1, SyncAssumption DEF IndexInv, TypeOK
  <2> QED BY <1>0, <2>1, <2>2, <2>3 DEF IndexInv, SolidCones, TargetCone, KnownTail, Known
<1>8. ASSUME Walk \/ TransactionRequester \/ SendRequest PROVE Same
  BY <1>8 DEF Walk, TransactionRequester, PopRequest, CheckPeers, MarkRequested, SendRequest,
     ReqStep
<1>9. ASSUME MilestoneRequester \/ SendMsRequest \/ Greet \/ TakeBroadcast \/ CommandTaken
      PROVE  Same
  BY <1>9 DEF MilestoneRequester, PopMilestone, CheckPeersMs, SendMsRequest, MreqStep, Greet,
     TakeBroadcast, CommandTaken
<1>10. ASSUME Network PROVE Same
  BY <1>10 DEF Network, Answers, TxAgain, Gossip, Answer, AnswerMs, TxInsert, Lose, Join, Leave
<1>11. ASSUME NEW h \in Hash, Solidify(h) PROVE IndexInv'
  <2>1. /\ UNCHANGED <<vertices, milestones, solidIdx, spc, scur>>
        /\ h \in vertices /\ IsSolid(Trunk[h]) /\ IsSolid(Branch[h])
        /\ solid' = solid \union {h}
    BY <1>11 DEF Solidify
  <2>2. PastCone[h] \subseteq vertices
    BY <1>0, <2>1, ConeStep DEF IndexInv
  <2> QED BY <1>0, <2>1, <2>2
      DEF IndexInv, SolidCones, TargetCone, KnownTail, SolidIndexSound, Known
<1>12. ASSUME UNCHANGED vars PROVE Same
  BY <1>12 DEF vars
<1>13. ASSUME Same PROVE IndexInv'
  BY <1>0, <1>13, MoreVertices
<1> HIDE DEF Same
<1> QED
  BY <1>1, <1>2, <1>3, <1>4, <1>5, <1>6, <1>7, <1>8, <1>9, <1>10, <1>11, <1>12, <1>13
  DEF Next, Workers, Sends, MilestoneValidator, MilestoneSolidifier

(* Heartbeats tell the truth: every milestone up to the solid index is     *)
(* known and its past cone is in the tangle, for every order of events.    *)
THEOREM SolidIndexCorrect == Spec => []SolidIndexSound
<1>1. IndexInv => SolidIndexSound
  BY DEF IndexInv
<1> QED BY <1>1, InitIndex, NextIndex, PTL DEF Spec

-----------------------------------------------------------------------------
(* The last milestone index.                                               *)

(* The last index is behind only while the validator is about to move it. *)
LastInv == \A i \in Index : Known(i) => i <= lastIdx \/ (vpc = "last" /\ vcur = i)

LEMMA NextLast == TypeInv /\ LastInv /\ [Next]_vars => LastInv'
<1> SUFFICES ASSUME TypeInv, LastInv, [Next]_vars PROVE LastInv'
  OBVIOUS
<1> DEFINE Same == UNCHANGED <<milestones, lastIdx, vpc, vcur>>
<1> USE DEF tangleVars, queueVars, txVars, valVars, msVars, reqVars, mreqVars, peerVars,
            netVars, castVars
<1>1. CASE AddMilestone
  <2>1. /\ vpc = "add" /\ vpc' = "last" /\ vcur \in Index
        /\ UNCHANGED <<lastIdx, vcur>>
        /\ \A i \in Index : i # vcur => milestones'[i] = milestones[i]
    BY <1>1 DEF AddMilestone, TypeInv, TypeOK, Holds
  <2> QED BY <2>1 DEF LastInv, Known
<1>2. CASE UpdateLast
  <2>1. /\ vpc = "last" /\ vcur \in Nat /\ lastIdx \in Nat
        /\ lastIdx' = IF vcur > lastIdx THEN vcur ELSE lastIdx
        /\ UNCHANGED milestones
    BY <1>2, SyncAssumption DEF UpdateLast, TypeInv, TypeOK
  <2> QED BY <2>1, SyncAssumption DEF LastInv, Known
<1>3. ASSUME (\E i \in Index : Validate(i)) \/ Refuse PROVE LastInv'
  <2>1. vpc = "idle" /\ UNCHANGED <<milestones, lastIdx>>
    BY <1>3 DEF Validate, Refuse
  <2> QED BY <2>1 DEF LastInv, Known
<1>4. ASSUME TransactionWorker PROVE Same
  BY <1>4 DEF TransactionWorker, TxSynced, TxEmpty, TxTrigger, TxRemove, TxSolidify,
     TxBroadcast, TxMilestone, TxStep
<1>5. ASSUME MilestoneSolidifier \/ HeartbeatTaken PROVE Same
  BY <1>5 DEF MilestoneSolidifier, RequestMilestones, Target, CheckTarget, UpdateSolid,
     WalkTarget, HeartbeatTaken, MsStep
<1>6. ASSUME Walk \/ TransactionRequester \/ SendRequest PROVE Same
  BY <1>6 DEF Walk, TransactionRequester, PopRequest, CheckPeers, MarkRequested, SendRequest,
     ReqStep
<1>7. ASSUME MilestoneRequester \/ SendMsRequest \/ Greet \/ TakeBroadcast \/ CommandTaken
      PROVE  Same
  BY <1>7 DEF MilestoneRequester, PopMilestone, CheckPeersMs, SendMsRequest, MreqStep, Greet,
     TakeBroadcast, CommandTaken
<1>8. ASSUME Network PROVE Same
  BY <1>8 DEF Network, Answers, TxAgain, Gossip, Answer, AnswerMs, TxInsert, Lose, Join, Leave
<1>9. ASSUME NEW h \in Hash, Solidify(h) PROVE Same
  BY <1>9 DEF Solidify
<1>10. ASSUME UNCHANGED vars PROVE Same
  BY <1>10 DEF vars
<1>11. ASSUME Same PROVE LastInv'
  BY <1>11 DEF LastInv, Known
<1> HIDE DEF Same
<1> QED
  BY <1>1, <1>2, <1>3, <1>4, <1>5, <1>6, <1>7, <1>8, <1>9, <1>10, <1>11
  DEF Next, Workers, Sends, MilestoneValidator

(* A node that takes itself for synced has the past cones of all           *)
(* milestones that it knows.                                               *)
THEOREM SyncedCorrect == Spec => []SyncedIsComplete
<1>1. Init => IndexInv /\ LastInv
  BY InitIndex, SyncAssumption DEF Init, LastInv, Known
<1>2. IndexInv /\ LastInv /\ [Next]_vars => (IndexInv /\ LastInv)'
  BY NextIndex, NextLast DEF IndexInv
<1>3. IndexInv /\ LastInv => SyncedIsComplete
  BY DEF IndexInv, LastInv, SyncedIsComplete, SolidIndexSound, IsSynced
<1> QED BY <1>1, <1>2, <1>3, PTL DEF Spec

-----------------------------------------------------------------------------
(* No milestone is overlooked.                                             *)

(* What the walk follows: an approver that is in the tangle, for every     *)
(* transaction that some vertex with its bundle field approves by trunk.   *)
ApproverInv ==
  /\ \A h \in Hash : approver[h] # None => approver[h] \in vertices /\ Trunk[approver[h]] = h
  /\ \A h \in vertices : BundleField[h] = BundleField[Trunk[h]] => approver[Trunk[h]] # None

(* A complete milestone that is not known yet is with the validator, in    *)
(* its channel, or its last transaction is with the transaction worker.    *)
PendingInv ==
  \A i \in Index : Complete(i) /\ ~Rivalled(i) =>
    \/ Known(i)
    \/ vpc = "add" /\ vcur = i
    \/ InSeq(MsBundle[i][1], tails)
    \/ tpc # "idle" /\ tcur \in Members(i)

(* Unless there is a rival, the walk goes from each transaction of a       *)
(* complete bundle to the one before it, and ends at the tail.             *)
LEMMA NextOfBundle ==
  ASSUME TypeOK, ApproverInv, NEW i \in Index, Complete(i), ~Rivalled(i),
         NEW k \in 1..Len(MsBundle[i])
  PROVE  approver[MsBundle[i][k]] = IF k = 1 THEN None ELSE MsBundle[i][k - 1]
<1> DEFINE b == MsBundle[i]
<1>1. /\ b \in Seq(Hash) /\ Len(b) \in Nat
      /\ \A l \in 1..(Len(b) - 1) : Trunk[b[l]] = b[l + 1]
      /\ \A l \in 1..Len(b) : /\ Trunk[b[Len(b)]] # b[l] /\ b[l] \in Hash
                             /\ BundleField[b[l]] = BundleField[b[1]]
      /\ \A l, o \in 1..Len(b) : b[l] = b[o] => l = o
  BY SyncAssumption DEF IsBundle
<1>2. \A l \in 1..Len(b) : b[l] \in vertices
  BY DEF Complete, Members
<1>3. approver[b[k]] \in Hash => \E l \in 1..Len(b) : approver[b[k]] = b[l]
  BY DEF Rivalled, Members
<1>4. approver[b[k]] \in Hash \union {None} /\ b[k] \in Hash
  BY <1>1 DEF TypeOK
<1> HIDE DEF b
<1>5. ASSUME NEW l \in 1..Len(b), approver[b[k]] = b[l] PROVE l + 1 = k
  <2>1. Trunk[b[l]] = b[k]
    BY <1>1, <1>4, <1>5, SyncAssumption DEF ApproverInv
  <2>2. l # Len(b)
    BY <1>1, <2>1 DEF b
  <2>3. l \in 1..(Len(b) - 1) /\ l + 1 \in 1..Len(b)
    BY <1>1, <2>2
  <2>4. b[l + 1] = b[k]
    BY <1>1, <2>1, <2>3
  <2> QED BY <1>1, <2>3, <2>4 DEF b
<1>6. CASE k = 1
  <2>1. \A l \in 1..Len(b) : l + 1 # 1
    BY <1>1
  <2> QED BY <1>3, <1>4, <1>5, <1>6, <2>1 DEF b
<1>7. CASE k # 1
  <2>1. k - 1 \in 1..(Len(b) - 1) /\ k - 1 \in 1..Len(b) /\ (k - 1) + 1 = k
    BY <1>1, <1>7 DEF b
  <2>2. Trunk[b[k - 1]] = b[k] /\ BundleField[b[k - 1]] = BundleField[b[k]]
    BY <1>1, <2>1 DEF b
  <2>3. approver[b[k]] # None
    BY <1>2, <2>1, <2>2 DEF ApproverInv
  <2>4. PICK l \in 1..Len(b) : approver[b[k]] = b[l]
    BY <1>3, <1>4, <2>3
  <2>5. l + 1 = k
    BY <1>5, <2>4
  <2>6. l = k - 1
    BY <2>5, <1>1
  <2> QED BY <1>7, <2>4, <2>6 DEF b
<1> QED BY <1>6, <1>7

LEMMA TailFound ==
  ASSUME TypeOK, ApproverInv, NEW i \in Index, Complete(i), ~Rivalled(i), NEW h \in Members(i)
  PROVE  TailsFrom(h) = {MsBundle[i][1]}
<1> DEFINE b == MsBundle[i]
<1>1. /\ Len(b) \in Nat /\ 1 \in 1..Len(b)
      /\ \A l \in 1..Len(b) : b[l] \in Hash /\ b[l] \in Watched /\ (IsTail[b[l]] <=> l = 1)
  BY SyncAssumption DEF IsBundle
<1>2. PICK k \in 1..Len(b) : b[k] = h
  BY DEF Members
<1>3. \A l \in 1..Len(b) : approver[b[l]] = IF l = 1 THEN None ELSE b[l - 1]
  BY NextOfBundle
<1>4. Members(i) = {b[l] : l \in 1..Len(b)} /\ Members(i) \subseteq Hash
  BY BundleType DEF Members
<1> HIDE DEF b
<1>5. h \in Hash /\ h \in Watched
  BY <1>1, <1>2
<1>6. Collected(h) \subseteq Members(i)
  <2>1. Upwards(Members(i))
    <3>1. \A l \in 1..Len(b) : l # 1 => l - 1 \in 1..Len(b)
      BY <1>1
    <3> QED BY <1>3, <1>4, <3>1 DEF Upwards
  <2> QED BY <1>4, <2>1 DEF Collected
<1>7. b[1] \in Collected(h)
  <2> SUFFICES ASSUME NEW S \in SUBSET Hash, h \in S, Upwards(S) PROVE b[1] \in S
    BY <1>1 DEF Collected
  <2> DEFINE T == {l \in 1..Len(b) : b[l] \in S}
  <2>1. T \subseteq Nat /\ T # {}
    BY <1>1, <1>2
  <2>2. PICK l \in T : \A o \in T : l <= o
    <3> HIDE DEF T
    <3> QED BY <2>1, NatMin
  <2>3. CASE l # 1
    <3>1. l - 1 \in 1..Len(b) /\ ~(l <= l - 1)
      BY <1>1, <2>3
    <3>2. approver[b[l]] = b[l - 1] /\ b[l - 1] \in Hash
      BY <1>1, <1>3, <2>3, <3>1
    <3>3. b[l - 1] # None
      BY <3>2, SyncAssumption
    <3>4. b[l - 1] \in S
      BY <3>2, <3>3 DEF Upwards
    <3> QED BY <2>2, <3>1, <3>4
  <2> QED BY <2>3
<1>8. \A g \in Members(i) : IsTail[g] => g = b[1]
  BY <1>1, <1>4
<1>9. approver[b[1]] = None /\ IsTail[b[1]]
  BY <1>1, <1>3
<1>10. TailsFrom(h) = {b[1]}
  <2>1. CASE IsTail[h]
    BY <1>5, <1>8, <2>1 DEF TailsFrom
  <2>2. CASE ~IsTail[h]
    <3>1. \A t : t \in TailsFrom(h) <=> t \in Collected(h) /\ approver[t] = None /\ IsTail[t]
      BY <1>5, <2>2 DEF TailsFrom
    <3> QED BY <1>6, <1>7, <1>8, <1>9, <3>1
  <2> QED BY <2>1, <2>2
<1> QED BY <1>10 DEF b

(* A new vertex becomes an approver unless there is one already.           *)
LEMMA InsertApprover ==
  ASSUME TypeOK, ApproverInv, NEW h \in Hash, TxInsert(h)
  PROVE  /\ ApproverInv'
         /\ \A g \in Hash : approver[g] # None => approver'[g] = approver[g]
<1>1. /\ vertices' = vertices \union {h} /\ Trunk[h] \in Hash
      /\ approver' = IF FirstApprover(h) THEN [approver EXCEPT ![Trunk[h]] = h] ELSE approver
      /\ approver \in [Hash -> Hash \union {None}] /\ vertices \subseteq Hash
      /\ h # None
  BY SyncAssumption DEF TxInsert, TypeOK
<1>2. CASE FirstApprover(h)
  <2>1. approver[Trunk[h]] = None /\ BundleField[h] = BundleField[Trunk[h]]
    BY <1>2 DEF FirstApprover
  <2>2. approver' = [approver EXCEPT ![Trunk[h]] = h]
    BY <1>1, <1>2
  <2> QED BY <1>1, <2>1, <2>2 DEF ApproverInv
<1>3. CASE ~FirstApprover(h)
  <2>1. approver' = approver
    BY <1>1, <1>3
  <2>2. BundleField[h] = BundleField[Trunk[h]] => approver[Trunk[h]] # None
    BY <1>3 DEF FirstApprover
  <2> QED BY <1>1, <2>1, <2>2 DEF ApproverInv
<1> QED BY <1>2, <1>3

(* Nothing but the vertices, what they approve and the place of the        *)
(* transaction worker has to do with a transaction that arrives.           *)
LEMMA InsertPending ==
  ASSUME TypeOK, ApproverInv, PendingInv, NEW h \in Hash, TxInsert(h)
  PROVE  PendingInv'
<1>1. /\ tpc = "idle" /\ tpc' = "synced" /\ tcur' = h
      /\ vertices' = vertices \union {h}
      /\ UNCHANGED <<milestones, tails, vpc, vcur>>
  BY DEF TxInsert, queueVars, valVars
<1>2. ASSUME NEW i \in Index, Complete(i)', ~Complete(i) PROVE tcur' \in Members(i)
  BY <1>1, <1>2 DEF Complete
<1>3. ASSUME NEW i \in Index, Rivalled(i) PROVE Rivalled(i)'
  <2>1. PICK g \in Members(i) : approver[g] \in Hash \ Members(i)
    BY <1>3 DEF Rivalled
  <2>2. g \in Hash /\ approver[g] # None
    BY <2>1, BundleType, SyncAssumption
  <2>3. approver'[g] = approver[g]
    BY <2>2, InsertApprover
  <2> QED BY <2>1, <2>3 DEF Rivalled
<1>4. ASSUME NEW i \in Index, Complete(i), ~Rivalled(i)
      PROVE  Known(i)' \/ (vpc' = "add" /\ vcur' = i) \/ InSeq(MsBundle[i][1], tails')
  BY <1>1, <1>4 DEF PendingInv, Known
<1> QED BY <1>1, <1>2, <1>3, <1>4 DEF PendingInv

LEMMA NextPending ==
  TypeInv /\ ApproverInv /\ PendingInv /\ [Next]_vars => ApproverInv' /\ PendingInv'
<1> SUFFICES ASSUME TypeInv, ApproverInv, PendingInv, [Next]_vars
             PROVE  ApproverInv' /\ PendingInv'
  OBVIOUS
<1>0. TypeOK
  BY DEF TypeInv
<1> DEFINE Still == UNCHANGED <<vertices, approver>>
<1> DEFINE Same == /\ UNCHANGED <<vertices, approver, milestones, tails, vpc, vcur>>
                   /\ UNCHANGED tcur /\ (tpc # "idle" => tpc' # "idle")
<1> USE DEF tangleVars, queueVars, txVars, valVars, msVars, reqVars, mreqVars, peerVars,
            netVars, castVars
<1>1. ASSUME TxMilestone PROVE Still /\ PendingInv'
  <2>1. /\ UNCHANGED <<vertices, approver, milestones, vpc, vcur>>
        /\ tcur \in Hash /\ tails \in Seq(Hash)
    BY <1>1 DEF TxMilestone, TxStep, TypeInv, TypeOK, Holds
  <2>2. \A t : InSeq(t, tails) => InSeq(t, tails')
    <3>1. ASSUME NEW t \in TailsFrom(tcur), tails' = Append(tails, t)
          PROVE  \A e : InSeq(e, tails) => InSeq(e, tails')
      <4>1. t \in Hash
        BY <2>1 DEF TailsFrom, Collected
      <4> QED BY <2>1, <3>1, <4>1, AppendHas
    <3> QED BY <1>1, <3>1 DEF TxMilestone
  <2>3. ASSUME NEW i \in Index, Complete(i), ~Rivalled(i), tcur \in Members(i)
        PROVE  InSeq(MsBundle[i][1], tails')
    <3>1. TailsFrom(tcur) = {MsBundle[i][1]}
      BY <1>0, <2>3, TailFound
    <3>2. tails' = Append(tails, MsBundle[i][1])
      BY <1>1, <3>1 DEF TxMilestone
    <3>3. MsBundle[i][1] \in Hash
      BY BundleType
    <3> QED BY <2>1, <3>2, <3>3, AppendHas
  <2>4. \A i \in Index : (Complete(i)' <=> Complete(i)) /\ (Rivalled(i)' <=> Rivalled(i))
    BY <2>1 DEF Complete, Rivalled
  <2> QED BY <2>1, <2>2, <2>3, <2>4 DEF PendingInv, Known
<1>2. ASSUME NEW i \in Index, Validate(i) PROVE Still /\ PendingInv'
  <2>1. /\ UNCHANGED <<vertices, approver, milestones, tpc, tcur>>
        /\ tails \in Seq(Hash) /\ tails # <<>> /\ tails' = Tail(tails)
        /\ vpc = "idle" /\ MsBundle[i][1] = Head(tails)
        /\ Complete(i) => vpc' = "add" /\ vcur' = i
    BY <1>2 DEF Validate, TypeInv, TypeOK
  <2>2. ASSUME NEW j \in Index, j # i, InSeq(MsBundle[j][1], tails)
        PROVE  InSeq(MsBundle[j][1], tails')
    <3>1. MsBundle[j][1] # MsBundle[i][1]
      BY <2>2, BundleType, SyncAssumption
    <3> QED BY <2>1, <2>2, <3>1, HeadTailHas
  <2>3. \A j \in Index : /\ Complete(j)' <=> Complete(j)
                         /\ Rivalled(j)' <=> Rivalled(j)
                         /\ Known(j)' <=> Known(j)
    BY <2>1 DEF Complete, Rivalled, Known
  <2> QED BY <2>1, <2>2, <2>3 DEF PendingInv
<1>3. ASSUME AddMilestone PROVE Still /\ PendingInv'
  <2>1. /\ vpc = "add" /\ vcur \in Index
        /\ UNCHANGED <<vertices, approver, tails, tpc, tcur>>
        /\ milestones'[vcur] = MsBundle[vcur][1]
        /\ \A i \in Index : i # vcur => milestones'[i] = milestones[i]
    BY <1>3 DEF AddMilestone, TypeInv, TypeOK, Holds
  <2>2. Known(vcur)'
    <3>1. MsBundle[vcur][1] \in Hash
      BY <2>1, BundleType
    <3>2. vcur' = vcur
      BY <1>3 DEF AddMilestone
    <3> QED BY <2>1, <3>1, <3>2, SyncAssumption DEF Known
  <2>3. \A i \in Index : (Complete(i)' <=> Complete(i)) /\ (Rivalled(i)' <=> Rivalled(i))
    BY <2>1 DEF Complete, Rivalled
  <2>4. ASSUME NEW i \in Index, Known(i) PROVE i = vcur \/ Known(i)'
    BY <2>1, <2>4 DEF Known
  <2>5. vcur' = vcur
    BY <1>3 DEF AddMilestone
  <2> QED BY <2>1, <2>2, <2>3, <2>4, <2>5 DEF PendingInv
<1>4. ASSUME UpdateLast PROVE Still /\ PendingInv'
  <2>1. vpc = "last" /\ UNCHANGED <<vertices, approver, milestones, tails, tpc, tcur>>
    BY <1>4 DEF UpdateLast
  <2> QED BY <2>1 DEF PendingInv, Complete, Rivalled, Known
<1>5. ASSUME TxSynced \/ TxEmpty \/ TxTrigger \/ TxRemove \/ TxSolidify \/ TxBroadcast
      PROVE  Same
  BY <1>5 DEF TxSynced, TxEmpty, TxTrigger, TxRemove, TxSolidify, TxBroadcast, TxStep
<1>6. ASSUME MilestoneSolidifier \/ HeartbeatTaken PROVE Same
  BY <1>6 DEF MilestoneSolidifier, RequestMilestones, Target, CheckTarget, UpdateSolid,
     WalkTarget, HeartbeatTaken, MsStep
<1>7. ASSUME Walk \/ TransactionRequester \/ SendRequest PROVE Same
  BY <1>7 DEF Walk, TransactionRequester, PopRequest, CheckPeers, MarkRequested, SendRequest,
     ReqStep
<1>8. ASSUME MilestoneRequester \/ SendMsRequest \/ Greet \/ TakeBroadcast \/ CommandTaken
      PROVE  Same
  BY <1>8 DEF MilestoneRequester, PopMilestone, CheckPeersMs, SendMsRequest, MreqStep, Greet,
     TakeBroadcast, CommandTaken
<1>9. ASSUME (\E h \in Hash : Gossip(h) \/ Answer(h)) \/ (\E i \in Index : AnswerMs(i))
      PROVE  ApproverInv' /\ PendingInv'
  <2>1. \E h \in Hash : TxInsert(h)
    BY <1>9, BundleType DEF Gossip, Answer, AnswerMs
  <2> QED BY <1>0, <2>1, InsertApprover, InsertPending
<1>10. ASSUME (\E h \in Hash : TxAgain(h)) \/ Lose \/ Join \/ Leave PROVE Same
  BY <1>10 DEF TxAgain, Lose, Join, Leave
<1>11. ASSUME NEW h \in Hash, Solidify(h) PROVE Same
  BY <1>11 DEF Solidify
<1>12. ASSUME UNCHANGED vars PROVE Same
  BY <1>12 DEF vars
<1>13. ASSUME Refuse PROVE Still /\ PendingInv'
  <2>1. /\ UNCHANGED <<vertices, approver, milestones, tpc, tcur, vpc, vcur>>
        /\ tails \in Seq(Hash) /\ tails # <<>> /\ tails' = Tail(tails)
        /\ \A i \in Index : MsBundle[i][1] # Head(tails)
    BY <1>13 DEF Refuse, TypeInv, TypeOK
  <2>2. \A i \in Index : InSeq(MsBundle[i][1], tails) => InSeq(MsBundle[i][1], tails')
    BY <2>1, HeadTailHas
  <2> QED BY <2>1, <2>2 DEF PendingInv, Complete, Rivalled, Known
<1>14. ASSUME Same PROVE Still /\ PendingInv'
  BY <1>14 DEF PendingInv, Complete, Rivalled, Known
<1>15. ASSUME Still PROVE ApproverInv'
  BY <1>15 DEF ApproverInv
<1> HIDE DEF Same, Still
<1> QED
  BY <1>1, <1>2, <1>3, <1>4, <1>5, <1>6, <1>7, <1>8, <1>9, <1>10, <1>11, <1>12, <1>13, <1>14,
     <1>15
  DEF Next, Workers, Sends, Network, Answers, TransactionWorker, MilestoneValidator

(* Whatever the order in which the transactions of a milestone arrive, it  *)
(* is known once they are all there and processed, unless a transaction    *)
(* from outside with its bundle field was the first to approve one of      *)
(* them by trunk.                                                          *)
THEOREM NoMilestoneMissed == Spec => []MilestoneNotMissed
<1>1. Init => TypeInv /\ ApproverInv /\ PendingInv
  <2>1. ASSUME Init, NEW i \in Index PROVE ~Complete(i)
    BY <2>1, BundleType DEF Init, Complete
  <2>2. Init => ApproverInv
    BY DEF Init, ApproverInv
  <2> QED BY <2>1, <2>2, InitType DEF PendingInv
<1>2. TypeInv /\ ApproverInv /\ PendingInv /\ [Next]_vars
      => (TypeInv /\ ApproverInv /\ PendingInv)'
  BY NextType, NextPending
<1>3. TypeInv /\ ApproverInv /\ PendingInv => MilestoneNotMissed
  BY EmptySeqHas DEF PendingInv, MilestoneNotMissed
<1> QED BY <1>1, <1>2, <1>3, PTL DEF Spec

=============================================================================
