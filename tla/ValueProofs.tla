---------------------------- MODULE ValueProofs ----------------------------
(***************************************************************************)
(* The theorems about value and signatures: the ledger, the bundles that   *)
(* move funds, and the Merkle signatures of milestones.                    *)
(***************************************************************************)
EXTENDS Ledger, Bundle, Milestone, DataLemmas, FiniteSetTheorems, TLAPS

-----------------------------------------------------------------------------
(* Ledger: LedgerInv is inductive, for balances of any width and any       *)
(* number of addresses, diffs and events.                                  *)

Balances == Entries(Signeds)

(* The casts between i64 and u64 undo each other.                          *)
LEMMA CastsUndo ==
  /\ \A u \in Unsigneds : AsSigned(u) \in Signeds /\ AsUnsigned(AsSigned(u)) = u
  /\ \A v \in Signeds : AsUnsigned(v) \in Unsigneds /\ AsSigned(AsUnsigned(v)) = v
<1>1. Half \in Nat /\ Half > 0
  BY LedgerAssumption
<1> DEFINE M == 2 * Half
<1>2. M \in Nat /\ M > 0 /\ M = Half + Half
  BY <1>1
<1> HIDE DEF M
<1>3. \A x \in 0..(M - 1) : x % M = x
  BY <1>2
<1>4. \A x \in (-M)..(-1) : x % M = x + M
  BY <1>2
<1>5. Unsigneds = 0..(M - 1)
  BY DEF Unsigneds, M
<1>6. \A u \in Unsigneds : AsSigned(u) \in Signeds /\ AsUnsigned(AsSigned(u)) = u
  <2> SUFFICES ASSUME NEW u \in Unsigneds
               PROVE  AsSigned(u) \in Signeds /\ AsUnsigned(AsSigned(u)) = u
    OBVIOUS
  <2>1. AsSigned(u) = IF u >= Half THEN u - M ELSE u
    BY DEF AsSigned, M
  <2>2. \A v : AsUnsigned(v) = v % M
    BY DEF AsUnsigned, M
  <2>3. CASE u >= Half
    <3>1. u - M \in (-M)..(-1) /\ (u - M) + M = u /\ u - M \in Signeds
      BY <1>1, <1>2, <1>5, <2>3 DEF Signeds
    <3> QED BY <1>4, <2>1, <2>2, <2>3, <3>1
  <2>4. CASE ~(u >= Half)
    <3>1. u \in 0..(M - 1) /\ u \in Signeds
      BY <1>1, <1>2, <1>5, <2>4 DEF Signeds
    <3> QED BY <1>3, <2>1, <2>2, <2>4, <3>1
  <2> QED BY <2>3, <2>4
<1>7. \A v \in Signeds : AsUnsigned(v) \in Unsigneds /\ AsSigned(AsUnsigned(v)) = v
  <2> SUFFICES ASSUME NEW v \in Signeds
               PROVE  AsUnsigned(v) \in Unsigneds /\ AsSigned(AsUnsigned(v)) = v
    OBVIOUS
  <2>1. AsUnsigned(v) = v % M
    BY DEF AsUnsigned, M
  <2>2. \A u : AsSigned(u) = IF u >= Half THEN u - M ELSE u
    BY DEF AsSigned, M
  <2>3. CASE v >= 0
    <3>1. v \in 0..(M - 1) /\ ~(v >= Half)
      BY <1>1, <1>2, <2>3 DEF Signeds
    <3> QED BY <1>3, <1>5, <2>1, <2>2, <3>1
  <2>4. CASE v < 0
    <3>1. v \in (-M)..(-1) /\ v + M >= Half /\ (v + M) - M = v /\ v + M \in 0..(M - 1)
      BY <1>1, <1>2, <2>4 DEF Signeds
    <3> QED BY <1>4, <1>5, <2>1, <2>2, <3>1
  <2>5. v >= 0 \/ v < 0
    BY <1>1 DEF Signeds
  <2> QED BY <2>3, <2>4, <2>5
<1> QED BY <1>6, <1>7

(* One change of a balance is what it means in whole numbers.              *)
LEMMA ChangeMeans ==
  ASSUME NEW u \in Unsigneds, NEW v \in Signeds
  PROVE  /\ apply_change(TRUE, u, v) \in Unsigneds
         /\ AsSigned(apply_change(TRUE, u, v)) = Changed(AsSigned(u), v)
         /\ Changed(AsSigned(u), v) \in Signeds
<1>1. Half \in Nat /\ Half > 0
  BY LedgerAssumption
<1> DEFINE b == AsSigned(u)
           sum == b + v
           back == AsSigned(AsUnsigned(sum))
<1>2. b \in Signeds
  BY CastsUndo
<1>3. sum \in Int /\ sum >= -Half - Half /\ sum <= Half + Half - 2
  <2> HIDE DEF b
  <2> QED BY <1>1, <1>2 DEF Signeds
<1>4. apply_change(TRUE, u, v) = IF back >= 0 THEN AsUnsigned(back) ELSE u
  BY DEF apply_change
<1>5. Changed(b, v) = IF sum \in 0..(Half - 1) THEN sum ELSE IF sum < -Half THEN sum + 2 * Half ELSE b
  BY DEF Changed
<1> HIDE DEF sum, b
<1>6. CASE sum \in Signeds
  <2>1. back = sum
    BY <1>6, CastsUndo
  <2>2. sum >= 0 => sum \in 0..(Half - 1)
    BY <1>1, <1>6 DEF Signeds
  <2>3. ~(sum < -Half)
    BY <1>1, <1>6 DEF Signeds
  <2>4. CASE sum >= 0
    <3>1. apply_change(TRUE, u, v) = AsUnsigned(sum) /\ Changed(b, v) = sum
      BY <1>4, <1>5, <2>1, <2>2, <2>4
    <3> QED BY <1>6, <3>1, CastsUndo DEF b
  <2>5. CASE ~(sum >= 0)
    <3>1. sum \notin 0..(Half - 1)
      BY <1>1, <1>3, <2>5
    <3>2. apply_change(TRUE, u, v) = u /\ Changed(b, v) = b
      BY <1>4, <1>5, <2>1, <2>3, <2>5, <3>1
    <3> QED BY <1>2, <3>2 DEF b
  <2> QED BY <2>4, <2>5
<1>7. CASE sum >= Half
  <2>1. AsUnsigned(sum) = sum /\ sum \in Unsigneds
    <3> DEFINE M == 2 * Half
    <3>1. M \in Nat /\ M > 0 /\ M = Half + Half
      BY <1>1
    <3> HIDE DEF M
    <3>2. sum \in 0..(M - 1)
      BY <1>1, <1>3, <1>7, <3>1
    <3>3. sum % M = sum
      BY <3>1, <3>2
    <3> QED BY <3>2, <3>3 DEF M, AsUnsigned, Unsigneds
  <2>2. back = sum - 2 * Half
    BY <1>7, <2>1 DEF AsSigned
  <2>3. ~(back >= 0) /\ sum \notin 0..(Half - 1) /\ ~(sum < -Half)
    <3> HIDE DEF back
    <3> QED BY <1>1, <1>3, <1>7, <2>2
  <2>4. apply_change(TRUE, u, v) = u /\ Changed(b, v) = b
    BY <1>4, <1>5, <2>3
  <2> QED BY <1>2, <2>4 DEF b
<1>8. CASE sum < -Half
  <2>1. AsUnsigned(sum) = sum + 2 * Half /\ sum + 2 * Half \in 0..(Half - 1)
    <3> DEFINE M == 2 * Half
    <3>1. M \in Nat /\ M > 0 /\ M = Half + Half
      BY <1>1
    <3> HIDE DEF M
    <3>2. sum \in (-M)..(-1) /\ sum + M \in 0..(Half - 1)
      BY <1>1, <1>3, <1>8, <3>1
    <3>3. sum % M = sum + M
      BY <3>1, <3>2
    <3> QED BY <3>2, <3>3 DEF M, AsUnsigned
  <2>2. sum \notin 0..(Half - 1)
    BY <1>1, <1>3, <1>8
  <2> DEFINE t == sum + 2 * Half
  <2>3. t \in Signeds /\ t \in Unsigneds /\ ~(t >= Half) /\ t >= 0
    <3> HIDE DEF t
    <3>1. t \in 0..(Half - 1)
      BY <2>1 DEF t
    <3> QED BY <1>1, <3>1 DEF Signeds, Unsigneds
  <2>4. back = t
    <3> HIDE DEF t
    <3>1. AsUnsigned(sum) = t
      BY <2>1 DEF t
    <3> QED BY <2>3, <3>1 DEF AsSigned
  <2>5. Changed(b, v) = t
    BY <1>5, <1>8, <2>2
  <2>6. apply_change(TRUE, u, v) = AsUnsigned(t)
    <3> HIDE DEF t, back
    <3> QED BY <1>4, <2>3, <2>4
  <2> HIDE DEF t
  <2> QED BY <2>3, <2>5, <2>6, CastsUndo DEF b
<1>9. sum \in Signeds \/ sum >= Half \/ sum < -Half
  BY <1>1, <1>3 DEF Signeds
<1> QED BY <1>6, <1>7, <1>8, <1>9

(* An entry's addresses are addresses, and its values values.              *)
LEMMA EntryIs ==
  ASSUME NEW V, NEW s
  PROVE  s \in Entries(V) <=> DOMAIN s \subseteq Address /\ s \in [DOMAIN s -> V]
BY Zenon DEF Entries

(* A diff changes the balances as it says in whole numbers.                *)
LEMMA MeaningTyped ==
  ASSUME NEW s \in Balances, NEW diff \in Balances
  PROVE  Meaning(s, diff) \in Balances
<1>1. /\ DOMAIN s \subseteq Address /\ \A a \in DOMAIN s : s[a] \in Signeds
      /\ DOMAIN diff \subseteq Address /\ \A a \in DOMAIN diff : diff[a] \in Signeds
  BY EntryIs DEF Balances
<1>2. ASSUME NEW a \in DOMAIN s, NEW v \in Signeds PROVE Changed(s[a], v) \in Signeds
  <2>1. s[a] \in Signeds
    BY <1>1
  <2>2. PICK u \in Unsigneds : s[a] = AsSigned(u)
    BY <2>1, CastsUndo
  <2> QED BY <2>2, ChangeMeans
<1> DEFINE m == Meaning(s, diff)
<1>3. DOMAIN m = DOMAIN s \union DOMAIN diff
  BY DEF Meaning
<1>4. ASSUME NEW a \in DOMAIN m PROVE m[a] \in Signeds
  BY <1>1, <1>2, <1>4 DEF Meaning
<1>5. m = [a \in DOMAIN m |-> m[a]]
  BY DEF Meaning
<1> HIDE DEF m
<1>6. m \in [DOMAIN m -> Signeds]
  BY <1>4, <1>5
<1>7. m \in Entries(Signeds)
  BY <1>1, <1>3, <1>6, EntryIs
<1> QED BY <1>7 DEF m, Balances

LEMMA DiffMeans ==
  ASSUME state \in Entries(Unsigneds), NEW diff \in Balances, apply_diff(diff)
  PROVE  state' \in Entries(Unsigneds) /\ Signed(state') = Meaning(Signed(state), diff)
<1>1. /\ DOMAIN state \subseteq Address /\ \A a \in DOMAIN state : state[a] \in Unsigneds
      /\ DOMAIN diff \subseteq Address /\ \A a \in DOMAIN diff : diff[a] \in Signeds
  BY EntryIs DEF Balances
<1> DEFINE all == DOMAIN state \union DOMAIN diff
           value(a) == IF a \notin DOMAIN diff THEN state[a]
                       ELSE IF a \in DOMAIN state THEN apply_change(TRUE, state[a], diff[a])
                       ELSE apply_change(FALSE, 0, diff[a])
           meant(a) == IF a \notin DOMAIN diff THEN AsSigned(state[a])
                       ELSE IF a \notin DOMAIN state THEN diff[a] ELSE Changed(AsSigned(state[a]), diff[a])
<1>2. state' = [a \in all |-> value(a)]
  BY DEF apply_diff
<1>3. ASSUME NEW a \in all PROVE value(a) \in Unsigneds /\ AsSigned(value(a)) = meant(a)
  <2>1. CASE a \notin DOMAIN diff
    BY <1>1, <2>1
  <2>2. CASE a \in DOMAIN diff /\ a \in DOMAIN state
    BY <1>1, <2>2, ChangeMeans
  <2>3. CASE a \in DOMAIN diff /\ a \notin DOMAIN state
    BY <1>1, <2>3, CastsUndo DEF apply_change
  <2> QED BY <2>1, <2>2, <2>3
<1>4. Meaning(Signed(state), diff) = [a \in all |-> meant(a)]
  BY DEF Meaning, Signed
<1> HIDE DEF value, meant
<1>5. state' \in [all -> Unsigneds]
  BY <1>2, <1>3
<1>6. state' \in Entries(Unsigneds)
  BY <1>1, <1>5, EntryIs
<1>7. Signed(state') = [a \in all |-> AsSigned(value(a))]
  BY <1>2 DEF Signed
<1> QED BY <1>3, <1>4, <1>6, <1>7

-----------------------------------------------------------------------------
(* The recursive definitions: what After and SumUpTo satisfy.              *)
LEMMA EventIs ==
  ASSUME NEW e \in Events
  PROVE  \/ e.type = "ApplyDiff" /\ e.diff \in Balances
         \/ e.type = "GetBalance" /\ e.address \in Address
<1>1. CASE \E d \in Diffs : e = ApplyDiff(d)
  BY <1>1, LedgerAssumption DEF ApplyDiff, Balances
<1>2. CASE \E a \in Address : e = GetBalance(a)
  BY <1>2 DEF GetBalance
<1> QED BY <1>1, <1>2 DEF Events

LEMMA SignedTyped ==
  ASSUME NEW s \in Entries(Unsigneds) PROVE Signed(s) \in Balances
<1>1. DOMAIN s \subseteq Address /\ \A a \in DOMAIN s : s[a] \in Unsigneds
  BY EntryIs
<1>2. Signed(s) \in [DOMAIN s -> Signeds]
  BY <1>1, CastsUndo DEF Signed
<1> QED BY <1>1, <1>2, EntryIs DEF Balances

LEMMA AfterIs ==
  ASSUME NEW start \in States, NEW events \in Seq(Events)
  PROVE  /\ After(start, events) \in [0..Len(events) -> Balances]
         /\ After(start, events)[0] = Signed(start)
         /\ \A n \in 1..Len(events) :
              After(start, events)[n] = Taken(After(start, events)[n - 1], events[n])
         /\ \A w \in [0..Len(events) -> Balances] :
              w[0] = Signed(start) /\ (\A n \in 1..Len(events) : w[n] = Taken(w[n - 1], events[n]))
                => w = After(start, events)
<1> DEFINE N == Len(events)
           step == [p \in Nat \X Balances |-> IF p[1] \in 1..N THEN Taken(p[2], events[p[1]]) ELSE p[2]]
           F(g) == [n \in 0..N |-> IF n = 0 THEN Signed(start) ELSE Taken(g[n - 1], events[n])]
<1>1. N \in Nat /\ \A n \in 1..N : events[n] \in Events
  OBVIOUS
<1>2. Signed(start) \in Balances
  BY SignedTyped, LedgerAssumption
<1>3. \A n \in 1..N, s \in Balances : Taken(s, events[n]) \in Balances
  BY <1>1, EventIs, MeaningTyped DEF Taken
<1> HIDE DEF N
<1>4. step \in [Nat \X Balances -> Balances]
  BY <1>3
<1>5. PICK w : Solves(w, Balances, Signed(start), step, N)
  <2> HIDE DEF step
  <2> QED BY <1>1, <1>2, <1>4, RecursionExists
<1>6. w \in [0..N -> Balances] /\ w[0] = Signed(start)
  BY <1>5 DEF Solves
<1>7. \A i \in 1..N : w[i] = Taken(w[i - 1], events[i])
  <2> SUFFICES ASSUME NEW i \in 1..N PROVE w[i] = Taken(w[i - 1], events[i])
    OBVIOUS
  <2>1. i \in Nat /\ i - 1 \in 0..N /\ w[i - 1] \in Balances
    BY <1>1, <1>6
  <2>2. w[i] = step[<<i, w[i - 1]>>]
    BY <1>5 DEF Solves
  <2> QED BY <2>1, <2>2
<1>8. w = F(w)
  <2>1. \A i \in 0..N : w[i] = F(w)[i]
    BY <1>1, <1>6, <1>7
  <2> HIDE DEF F
  <2>2. F(w) = [i \in 0..N |-> F(w)[i]]
    BY DEF F
  <2> QED BY <1>6, <2>1, <2>2
<1>9. ASSUME NEW v, v = F(v) PROVE v = w
  <2>1. v[0] = w[0] /\ v = [i \in 0..N |-> v[i]]
    BY <1>1, <1>6, <1>9
  <2>2. \A i \in 1..N : v[i - 1] = w[i - 1] => v[i] = w[i]
    <3> SUFFICES ASSUME NEW i \in 1..N, v[i - 1] = w[i - 1] PROVE v[i] = w[i]
      OBVIOUS
    <3>1. F(v)[i] = Taken(v[i - 1], events[i])
      BY <1>1
    <3> QED BY <1>7, <1>9, <3>1
  <2>3. \A i \in 0..N : v[i] = w[i]
    <3>1. N \in Nat /\ v[0] = w[0]
      BY <1>1, <2>1
    <3> HIDE DEF F, step
    <3> QED BY <2>2, <3>1, SameAlong
  <2> QED BY <1>6, <2>1, <2>3
<1>10. After(start, events) = w
  <2>1. After(start, events) = CHOOSE g : g = F(g)
    BY DEF After, N
  <2> HIDE DEF F
  <2> QED BY <1>8, <1>9, <2>1
<1>11. ASSUME NEW v \in [0..N -> Balances], v[0] = Signed(start),
              \A n \in 1..N : v[n] = Taken(v[n - 1], events[n])
       PROVE  v = w
  <2>1. \A i \in 0..N : v[i] = F(v)[i]
    BY <1>1, <1>11
  <2>2. v = F(v)
    <3> HIDE DEF F
    <3>1. F(v) = [i \in 0..N |-> F(v)[i]]
      BY DEF F
    <3> QED BY <1>11, <2>1, <3>1
  <2> QED BY <1>9, <2>2
<1> HIDE DEF F, step
<1> QED BY <1>6, <1>7, <1>10, <1>11 DEF N

(* One more event leaves the balances before it as they are.               *)
LEMMA AfterAppend ==
  ASSUME NEW start \in States, NEW events \in Seq(Events), NEW e \in Events
  PROVE  LET old == After(start, events)
             new == After(start, Append(events, e))
         IN  /\ \A n \in 0..Len(events) : new[n] = old[n]
             /\ new[Len(events) + 1] = Taken(old[Len(events)], e)
<1> DEFINE N == Len(events)
           more == Append(events, e)
           old == After(start, events)
           new == After(start, more)
<1>1. /\ N \in Nat /\ more \in Seq(Events) /\ Len(more) = N + 1
      /\ more[N + 1] = e /\ \A n \in 1..N : more[n] = events[n]
  OBVIOUS
<1>2. /\ old[0] = Signed(start) /\ \A n \in 1..N : old[n] = Taken(old[n - 1], events[n])
  BY AfterIs
<1>3. /\ new[0] = Signed(start) /\ \A n \in 1..(N + 1) : new[n] = Taken(new[n - 1], more[n])
  <2> HIDE DEF more
  <2> QED BY <1>1, AfterIs
<1> HIDE DEF N, more, old, new
<1>4. \A n \in 1..N : new[n - 1] = old[n - 1] => new[n] = old[n]
  BY <1>1, <1>2, <1>3
<1>5. \A n \in 0..N : new[n] = old[n]
  <2>1. N \in Nat /\ new[0] = old[0]
    BY <1>1, <1>2, <1>3
  <2> QED BY <1>4, <2>1, SameAlong
<1>6. new[N + 1] = Taken(old[N], e)
  <2>1. N + 1 \in 1..(N + 1) /\ (N + 1) - 1 = N /\ N \in 0..N
    BY <1>1
  <2> QED BY <1>1, <1>3, <1>5, <2>1
<1> QED BY <1>5, <1>6 DEF N, more, old, new

LEMMA SumIs ==
  ASSUME NEW s \in Balances
  PROVE  /\ SumUpTo(s) \in [0..Len(Accounts) -> Int]
         /\ SumUpTo(s)[0] = 0
         /\ \A n \in 1..Len(Accounts) : SumUpTo(s)[n] = SumUpTo(s)[n - 1] + Balance(s, Accounts[n])
<1> DEFINE N == Len(Accounts)
           step == [p \in Nat \X Int |-> IF p[1] \in 1..N THEN p[2] + Balance(s, Accounts[p[1]]) ELSE p[2]]
           F(g) == [n \in 0..N |-> IF n = 0 THEN 0 ELSE g[n - 1] + Balance(s, Accounts[n])]
<1>1. N \in Nat
  BY LedgerAssumption
<1>2. \A n \in 1..N : Balance(s, Accounts[n]) \in Int
  <2>1. \A a \in DOMAIN s : s[a] \in Signeds
    BY EntryIs DEF Balances
  <2>2. Signeds \subseteq Int
    BY LedgerAssumption DEF Signeds
  <2>3. ASSUME NEW a PROVE Balance(s, a) \in Int
    <3>1. CASE a \in DOMAIN s
      <4>1. s[a] \in Int
        BY <2>1, <2>2, <3>1
      <4> QED BY <3>1, <4>1 DEF Balance
    <3>2. CASE a \notin DOMAIN s
      BY <3>2 DEF Balance
    <3> QED BY <3>1, <3>2
  <2> QED BY <2>3
<1> HIDE DEF N
<1>4. step \in [Nat \X Int -> Int]
  BY <1>2
<1>5. PICK w : Solves(w, Int, 0, step, N)
  <2> HIDE DEF step
  <2>1. 0 \in Int
    OBVIOUS
  <2> QED BY <1>1, <1>4, <2>1, RecursionExists, Zenon
<1>6. w \in [0..N -> Int] /\ w[0] = 0
  BY <1>5 DEF Solves
<1>7. \A i \in 1..N : w[i] = w[i - 1] + Balance(s, Accounts[i])
  <2> SUFFICES ASSUME NEW i \in 1..N PROVE w[i] = w[i - 1] + Balance(s, Accounts[i])
    OBVIOUS
  <2>1. i \in Nat /\ i - 1 \in 0..N /\ w[i - 1] \in Int
    BY <1>1, <1>6
  <2>2. w[i] = step[<<i, w[i - 1]>>]
    BY <1>5 DEF Solves
  <2> QED BY <2>1, <2>2
<1>8. w = F(w)
  <2>1. \A i \in 0..N : w[i] = F(w)[i]
    BY <1>1, <1>6, <1>7
  <2> HIDE DEF F
  <2>2. F(w) = [i \in 0..N |-> F(w)[i]]
    BY DEF F
  <2> QED BY <1>6, <2>1, <2>2
<1>9. ASSUME NEW v, v = F(v) PROVE v = w
  <2>1. v[0] = w[0] /\ v = [i \in 0..N |-> v[i]]
    BY <1>1, <1>6, <1>9
  <2>2. \A i \in 1..N : v[i - 1] = w[i - 1] => v[i] = w[i]
    <3> SUFFICES ASSUME NEW i \in 1..N, v[i - 1] = w[i - 1] PROVE v[i] = w[i]
      OBVIOUS
    <3>1. F(v)[i] = v[i - 1] + Balance(s, Accounts[i])
      BY <1>1
    <3> QED BY <1>7, <1>9, <3>1
  <2>3. \A i \in 0..N : v[i] = w[i]
    <3>1. N \in Nat /\ v[0] = w[0]
      BY <1>1, <2>1
    <3> HIDE DEF F, step
    <3> QED BY <2>2, <3>1, SameAlong
  <2> QED BY <1>6, <2>1, <2>3
<1>10. SumUpTo(s) = w
  <2>1. SumUpTo(s) = CHOOSE g : g = F(g)
    BY DEF SumUpTo, N
  <2> HIDE DEF F
  <2> QED BY <1>8, <1>9, <2>1
<1> HIDE DEF F, step
<1> QED BY <1>6, <1>7, <1>10 DEF N

(* If a diff is applied as a whole, its total is added.                    *)
LEMMA TotalAdds ==
  ASSUME NEW s \in Balances, NEW diff \in Balances, ~Ignores(s, diff)
  PROVE  Total(Meaning(s, diff)) = Total(s) + Total(diff)
<1> DEFINE m == Meaning(s, diff)
           N == Len(Accounts)
           S == {n \in Nat : n <= N => SumUpTo(m)[n] = SumUpTo(s)[n] + SumUpTo(diff)[n]}
<1>1. N \in Nat /\ \A n \in 1..N : Accounts[n] \in Address
  BY LedgerAssumption
<1>2. m \in Balances
  BY MeaningTyped
<1>3. /\ \A a \in DOMAIN s : s[a] \in Int
      /\ \A a \in DOMAIN diff : diff[a] \in Int
  <2>1. Signeds \subseteq Int
    BY LedgerAssumption DEF Signeds
  <2> QED BY <2>1, EntryIs DEF Balances
<1>4. \A a : Balance(m, a) = Balance(s, a) + Balance(diff, a)
  <2> SUFFICES ASSUME NEW a PROVE Balance(m, a) = Balance(s, a) + Balance(diff, a)
    OBVIOUS
  <2>1. DOMAIN m = DOMAIN s \union DOMAIN diff
    BY DEF Meaning
  <2>2. CASE a \in DOMAIN s /\ a \in DOMAIN diff
    <3>1. m[a] = s[a] + diff[a]
      BY <2>2 DEF Ignores
    <3> HIDE DEF m
    <3> QED BY <2>1, <2>2, <3>1 DEF Balance
  <2>3. CASE a \in DOMAIN s /\ a \notin DOMAIN diff
    <3>1. m[a] = s[a]
      BY <2>3 DEF Meaning
    <3> HIDE DEF m
    <3> QED BY <1>3, <2>1, <2>3, <3>1 DEF Balance
  <2>4. CASE a \notin DOMAIN s /\ a \in DOMAIN diff
    <3>1. m[a] = diff[a]
      BY <2>4 DEF Meaning
    <3> HIDE DEF m
    <3> QED BY <1>3, <2>1, <2>4, <3>1 DEF Balance
  <2>5. CASE a \notin DOMAIN s /\ a \notin DOMAIN diff
    <3> HIDE DEF m
    <3> QED BY <2>1, <2>5 DEF Balance
  <2> QED BY <2>2, <2>3, <2>4, <2>5
<1> HIDE DEF m, N
<1>5. 0 \in S
  BY <1>2, SumIs DEF N
<1>6. ASSUME NEW n \in Nat, n \in S PROVE n + 1 \in S
  <2> SUFFICES ASSUME n + 1 <= N
               PROVE  SumUpTo(m)[n + 1] = SumUpTo(s)[n + 1] + SumUpTo(diff)[n + 1]
    OBVIOUS
  <2>1. n + 1 \in 1..N /\ (n + 1) - 1 = n /\ n \in 0..N
    BY <1>1
  <2>2. SumUpTo(m)[n] = SumUpTo(s)[n] + SumUpTo(diff)[n]
    BY <1>1, <1>6
  <2>3. \A t \in Balances : /\ SumUpTo(t)[n] \in Int
                            /\ SumUpTo(t)[n + 1] = SumUpTo(t)[n] + Balance(t, Accounts[n + 1])
    BY <2>1, SumIs DEF N
  <2>4. Balance(s, Accounts[n + 1]) \in Int /\ Balance(diff, Accounts[n + 1]) \in Int
    BY <1>3 DEF Balance
  <2> QED BY <1>2, <1>4, <2>2, <2>3, <2>4
<1>7. N \in S
  <2> HIDE DEF S
  <2> QED BY <1>1, <1>5, <1>6, SetInduction
<1> QED BY <1>1, <1>7 DEF Total, m, N

(* Events that only move funds keep the total.                             *)
LEMMA TotalKept ==
  ASSUME NEW start \in States, NEW events \in Seq(Events),
         \A n \in DOMAIN events : MovesFunds(After(start, events)[n - 1], events[n])
  PROVE  Total(After(start, events)[Len(events)]) = Total(Signed(start))
<1> DEFINE N == Len(events)
           after == After(start, events)
           S == {n \in Nat : n <= N => Total(after[n]) = Total(Signed(start))}
<1>1. N \in Nat /\ DOMAIN events = 1..N /\ \A n \in 1..N : events[n] \in Events
  OBVIOUS
<1>2. /\ after \in [0..N -> Balances] /\ after[0] = Signed(start)
      /\ \A n \in 1..N : after[n] = Taken(after[n - 1], events[n])
  BY AfterIs
<1>3. \A n \in 1..N : MovesFunds(after[n - 1], events[n])
  BY <1>1
<1> HIDE DEF N, after
<1>4. 0 \in S
  BY <1>2
<1>5. ASSUME NEW n \in Nat, n \in S PROVE n + 1 \in S
  <2> SUFFICES ASSUME n + 1 <= N PROVE Total(after[n + 1]) = Total(Signed(start))
    OBVIOUS
  <2>1. n + 1 \in 1..N /\ (n + 1) - 1 = n /\ n \in 0..N
    BY <1>1
  <2>2. Total(after[n]) = Total(Signed(start)) /\ after[n] \in Balances
    BY <1>1, <1>2, <1>5, <2>1
  <2> DEFINE e == events[n + 1]
  <2>3. after[n + 1] = Taken(after[n], e) /\ e \in Events /\ MovesFunds(after[n], e)
    BY <1>1, <1>2, <1>3, <2>1
  <2> HIDE DEF e
  <2>4. CASE e.type = "ApplyDiff" /\ e.diff \in Balances
    <3>1. after[n + 1] = Meaning(after[n], e.diff) /\ Total(e.diff) = 0 /\ ~Ignores(after[n], e.diff)
      BY <2>3, <2>4 DEF Taken, MovesFunds
    <3>2. Total(after[n + 1]) = Total(after[n]) + 0
      BY <2>2, <2>4, <3>1, TotalAdds
    <3>3. Total(after[n]) \in Int
      <4>1. Len(Accounts) \in 0..Len(Accounts)
        BY LedgerAssumption
      <4> QED BY <2>2, <4>1, SumIs DEF Total
    <3> QED BY <2>2, <3>2, <3>3
  <2>5. CASE e.type = "GetBalance"
    BY <2>2, <2>3, <2>5 DEF Taken
  <2> QED BY <2>3, <2>4, <2>5, EventIs
<1>6. N \in S
  <2> HIDE DEF S
  <2> QED BY <1>1, <1>4, <1>5, SetInduction
<1> QED BY <1>1, <1>6 DEF N, after

-----------------------------------------------------------------------------
(* The questions among the events, and how many there are up to one.       *)
LEMMA AskedFinite ==
  ASSUME NEW events \in Seq(Events)
  PROVE  /\ IsFiniteSet(Asked(events)) /\ Asked(events) \subseteq 1..Len(events)
         /\ \A n \in Asked(events) :
              /\ IsFiniteSet({m \in Asked(events) : m <= n})
              /\ Cardinality({m \in Asked(events) : m <= n}) \in 1..Cardinality(Asked(events))
<1>1. Asked(events) \subseteq 1..Len(events) /\ Len(events) \in Nat
  BY DEF Asked
<1>2. IsFiniteSet(Asked(events)) /\ Cardinality(Asked(events)) \in Nat
  <2>1. IsFiniteSet(1..Len(events))
    BY <1>1, FS_Interval
  <2> QED BY <1>1, <2>1, FS_Subset, FS_CardinalityType
<1>3. ASSUME NEW n \in Asked(events)
      PROVE  /\ IsFiniteSet({m \in Asked(events) : m <= n})
             /\ Cardinality({m \in Asked(events) : m <= n}) \in 1..Cardinality(Asked(events))
  <2> DEFINE A == Asked(events)
             B == {m \in A : m <= n}
  <2>1. B \subseteq A /\ n \in B
    BY <1>1, <1>3
  <2> HIDE DEF A, B
  <2>2. IsFiniteSet(A) /\ Cardinality(A) \in Nat
    BY <1>2 DEF A
  <2>3. IsFiniteSet(B) /\ Cardinality(B) <= Cardinality(A)
    BY <2>1, <2>2, FS_Subset
  <2>4. Cardinality(B) \in Nat /\ Cardinality(B) # 0
    BY <2>1, <2>3, FS_CardinalityType, FS_EmptySet
  <2>5. Cardinality(B) \in 1..Cardinality(A)
    BY <2>2, <2>3, <2>4
  <2> QED BY <2>3, <2>5 DEF A, B
<1> QED BY <1>1, <1>2, <1>3

LEMMA AskedAppend ==
  ASSUME NEW events \in Seq(Events), NEW e \in Events
  PROVE  LET N == Len(events)
             old == Asked(events)
             new == Asked(Append(events, e))
         IN  /\ e.type # "GetBalance" => new = old
             /\ e.type = "GetBalance" => /\ new = old \union {N + 1}
                                         /\ Cardinality(new) = Cardinality(old) + 1
                                         /\ {m \in new : m <= N + 1} = new
             /\ \A n \in old : {m \in new : m <= n} = {m \in old : m <= n}
<1> DEFINE N == Len(events)
           more == Append(events, e)
           old == Asked(events)
           new == Asked(more)
<1>1. /\ N \in Nat /\ DOMAIN events = 1..N /\ DOMAIN more = 1..(N + 1)
      /\ more[N + 1] = e /\ \A n \in 1..N : more[n] = events[n]
  OBVIOUS
<1>2. old \subseteq 1..N /\ \A n \in 1..N : n \in old <=> n \in new
  BY <1>1 DEF Asked
<1>3. new \subseteq 1..(N + 1) /\ (N + 1 \in new <=> e.type = "GetBalance")
  BY <1>1 DEF Asked
<1> HIDE DEF N, more, old, new
<1>4. ASSUME e.type # "GetBalance" PROVE new = old
  <2>1. \A n \in new : n \in 1..N
    BY <1>1, <1>3, <1>4
  <2> QED BY <1>2, <2>1
<1>5. ASSUME e.type = "GetBalance"
      PROVE  /\ new = old \union {N + 1}
             /\ Cardinality(new) = Cardinality(old) + 1
             /\ {m \in new : m <= N + 1} = new
  <2>1. \A n \in new : n \in 1..N \/ n = N + 1
    BY <1>1, <1>3
  <2>2. new = old \union {N + 1}
    BY <1>2, <1>3, <1>5, <2>1
  <2>3. N + 1 \notin old
    BY <1>1, <1>2
  <2>4. Cardinality(new) = Cardinality(old) + 1
    BY <2>2, <2>3, AskedFinite, FS_AddElement DEF old
  <2>5. {m \in new : m <= N + 1} = new
    <3>1. \A m \in new : m <= N + 1
      BY <1>1, <1>3
    <3> QED BY <3>1
  <2> QED BY <2>2, <2>4, <2>5
<1>6. \A n \in old : {m \in new : m <= n} = {m \in old : m <= n}
  <2> SUFFICES ASSUME NEW n \in old, NEW m
               PROVE  m \in {k \in new : k <= n} <=> m \in {k \in old : k <= n}
    BY Zenon
  <2>1. m \in new /\ m <= n => m \in 1..N
    BY <1>1, <1>2, <1>3
  <2>2. m \in old => m \in 1..N
    BY <1>2
  <2> QED BY <1>2, <2>1, <2>2
<1> QED BY <1>4, <1>5, <1>6 DEF N, more, old, new

-----------------------------------------------------------------------------
LEMMA LedgerInitial == LedgerInit => LedgerInv
<1> SUFFICES ASSUME LedgerInit PROVE LedgerInv
  OBVIOUS
<1>1. /\ overflowChecks \in BOOLEAN /\ state \in States /\ opening = state
      /\ receiver = << >> /\ handled = << >> /\ answers = << >>
  BY DEF LedgerInit
<1>2. /\ state \in Entries(Unsigneds) /\ receiver \in Seq(Events) /\ handled \in Seq(Events)
      /\ answers \in Seq(Unsigneds \union {None})
  BY <1>1, LedgerAssumption
<1>3. Asked(handled) = {} /\ Len(handled) = 0 /\ Len(answers) = 0
  BY <1>1 DEF Asked
<1>4. After(state, handled)[0] = Signed(state)
  BY <1>1, <1>2, AfterIs
<1>5. Follows(state)
  BY <1>3, <1>4, FS_EmptySet DEF Follows
<1> QED BY <1>1, <1>2, <1>5 DEF LedgerInv, LedgerFollowsDiffs

(* Events in the channel change no balance.                                *)
LEMMA QueueKeeps ==
  ASSUME LedgerInv, receiver' \in Seq(Events), UNCHANGED <<overflowChecks, state, opening, handled, answers>>
  PROVE  LedgerInv'
BY DEF LedgerInv, LedgerFollowsDiffs, Follows

(* What is common to the events handled: the balances and the total.       *)
LEMMA TakenFollows ==
  ASSUME NEW start \in States, handled \in Seq(Events), NEW e \in Events,
         handled' = Append(handled, e),
         Signed(state)' = Taken(Signed(state), e), Follows(start)
  PROVE  LET after == After(start, handled')
         IN  /\ Signed(state)' = after[Len(handled')]
             /\ \A n \in DOMAIN handled : after[n] = After(start, handled)[n]
             /\ (\A n \in DOMAIN handled' : MovesFunds(after[n - 1], handled'[n]))
                  => Total(Signed(state)') = Total(Signed(start))
<1>1. handled' \in Seq(Events) /\ Len(handled') = Len(handled) + 1 /\ Len(handled) \in Nat
  OBVIOUS
<1>2. Signed(state) = After(start, handled)[Len(handled)]
  BY DEF Follows
<1>3. Signed(state)' = After(start, handled')[Len(handled')]
  BY <1>1, <1>2, AfterAppend
<1>4. \A n \in DOMAIN handled : After(start, handled')[n] = After(start, handled)[n]
  BY <1>1, AfterAppend
<1> QED BY <1>1, <1>3, <1>4, TotalKept

LEMMA HandleKeeps ==
  ASSUME LedgerInv, HandleEvent
  PROVE  LedgerInv'
<1> DEFINE e == Head(receiver)
<1>1. /\ receiver \in Seq(Events) /\ receiver # << >> /\ receiver' = Tail(receiver)
      /\ overflowChecks' = overflowChecks /\ overflowChecks \in BOOLEAN
      /\ handled \in Seq(Events) /\ state \in Entries(Unsigneds)
      /\ answers \in Seq(Unsigneds \union {None})
  BY DEF LedgerInv, HandleEvent
<1>2. e \in Events /\ receiver' \in Seq(Events)
  BY <1>1
<1>3. PICK start \in States : start = opening /\ opening' = start /\ Follows(start)
  BY DEF LedgerInv, LedgerFollowsDiffs, HandleEvent
<1>4. Follows(start)' => LedgerFollowsDiffs'
  BY <1>3 DEF LedgerFollowsDiffs, Follows
<1>5. CASE e.type = "ApplyDiff" /\ diff_panics(e.diff)
  <2>1. UNCHANGED <<overflowChecks, state, opening, handled, answers>>
    BY <1>1, <1>5 DEF HandleEvent
  <2> QED BY <1>2, <2>1, QueueKeeps
<1>6. CASE e.type = "ApplyDiff" /\ ~diff_panics(e.diff)
  <2>1. apply_diff(e.diff) /\ handled' = Append(handled, e)
    BY <1>6 DEF HandleEvent
  <2>2. e.diff \in Balances
    BY <1>2, <1>6, EventIs
  <2> HIDE DEF e
  <2>3. state' \in Entries(Unsigneds) /\ Signed(state') = Meaning(Signed(state), e.diff)
    BY <1>1, <2>1, <2>2, DiffMeans
  <2>4. Signed(state)' = Taken(Signed(state), e)
    BY <1>6, <2>3 DEF Taken
  <2>5. answers' = answers /\ handled' \in Seq(Events)
    BY <1>1, <1>2, <2>1 DEF apply_diff
  <2> DEFINE after == After(start, handled')
  <2>6. /\ Signed(state)' = after[Len(handled')]
        /\ \A n \in DOMAIN handled : after[n] = After(start, handled)[n]
        /\ (\A n \in DOMAIN handled' : MovesFunds(after[n - 1], handled'[n]))
             => Total(Signed(state)') = Total(Signed(start))
    BY <1>1, <1>2, <1>3, <2>1, <2>4, TakenFollows
  <2>7. Asked(handled') = Asked(handled)
    BY <1>1, <1>2, <1>6, <2>1, AskedAppend
  <2>8. /\ Len(answers) = Cardinality(Asked(handled))
        /\ \A n \in Asked(handled) : answers[Cardinality({m \in Asked(handled) : m <= n})]
                                       = Answer(After(start, handled)[n], handled[n].address)
    BY <1>3 DEF Follows
  <2>9. \A n \in Asked(handled) : n \in DOMAIN handled /\ handled'[n] = handled[n]
    BY <1>1, <2>1 DEF Asked
  <2>10. \A n \in Asked(handled') : answers'[Cardinality({m \in Asked(handled') : m <= n})]
                                      = Answer(after[n], handled'[n].address)
    <3> HIDE DEF after
    <3> QED BY <2>5, <2>6, <2>7, <2>8, <2>9
  <2>11. Follows(start)'
    BY <2>5, <2>6, <2>7, <2>8, <2>10 DEF Follows
  <2> QED BY <1>1, <1>2, <1>3, <1>4, <2>3, <2>5, <2>11 DEF LedgerInv
<1>7. CASE e.type = "GetBalance"
  <2>1. get_balance(e.address) /\ handled' = Append(handled, e)
    BY <1>7 DEF HandleEvent
  <2> HIDE DEF e
  <2> DEFINE answer == IF e.address \in DOMAIN state THEN state[e.address] ELSE None
             after == After(start, handled')
             N == Len(handled)
             old == Asked(handled)
             new == Asked(handled')
  <2>2. answers' = Append(answers, answer) /\ state' = state
    BY <2>1 DEF get_balance
  <2>3. answer = Answer(Signed(state), e.address) /\ answer \in Unsigneds \union {None}
    <3>1. \A a \in DOMAIN state : state[a] \in Unsigneds
      BY <1>1, EntryIs
    <3>2. \A a \in DOMAIN state : AsUnsigned(AsSigned(state[a])) = state[a]
      BY <3>1, CastsUndo
    <3> QED BY <3>1, <3>2 DEF Answer, Signed
  <2> HIDE DEF answer
  <2>4. /\ Len(answers) \in Nat /\ answers' \in Seq(Unsigneds \union {None})
        /\ Len(answers') = Len(answers) + 1
        /\ answers'[Len(answers) + 1] = answer
        /\ \A k \in 1..Len(answers) : answers'[k] = answers[k]
    BY <1>1, <2>2, <2>3
  <2>5. Signed(state)' = Taken(Signed(state), e)
    BY <1>7, <2>2 DEF Taken
  <2>6. /\ N \in Nat /\ handled' \in Seq(Events) /\ Len(handled') = N + 1
        /\ handled'[N + 1] = e /\ \A n \in 1..N : handled'[n] = handled[n]
    BY <1>1, <1>2, <2>1
  <2>7. /\ Signed(state)' = after[Len(handled')]
        /\ \A n \in DOMAIN handled : after[n] = After(start, handled)[n]
        /\ (\A n \in DOMAIN handled' : MovesFunds(after[n - 1], handled'[n]))
             => Total(Signed(state)') = Total(Signed(start))
    BY <1>1, <1>2, <1>3, <2>1, <2>5, TakenFollows
  <2>8. /\ new = old \union {N + 1} /\ Cardinality(new) = Cardinality(old) + 1
        /\ {m \in new : m <= N + 1} = new
        /\ \A n \in old : {m \in new : m <= n} = {m \in old : m <= n}
    BY <1>1, <1>2, <1>7, <2>1, AskedAppend
  <2>9. /\ Len(answers) = Cardinality(old)
        /\ \A n \in old : answers[Cardinality({m \in old : m <= n})]
                            = Answer(After(start, handled)[n], handled[n].address)
    BY <1>3 DEF Follows
  <2>10. /\ old \subseteq 1..N /\ DOMAIN handled = 1..N
         /\ \A n \in old : Cardinality({m \in old : m <= n}) \in 1..Cardinality(old)
    <3>1. handled \in Seq(Events)
      BY <1>1
    <3>2. DOMAIN handled = 1..N
      BY <3>1
    <3> QED BY <3>1, <3>2, AskedFinite, Zenon
  <2> HIDE DEF after, N, old, new
  <2>11. ASSUME NEW n \in new
         PROVE  answers'[Cardinality({m \in new : m <= n})] = Answer(after[n], handled'[n].address)
    <3>1. CASE n \in old
      <4>1. Cardinality({m \in new : m <= n}) = Cardinality({m \in old : m <= n})
        BY <2>8, <3>1
      <4>2. answers'[Cardinality({m \in new : m <= n})] = answers[Cardinality({m \in old : m <= n})]
        BY <2>4, <2>9, <2>10, <3>1, <4>1
      <4>3. after[n] = After(start, handled)[n] /\ handled'[n] = handled[n]
        BY <2>6, <2>7, <2>10, <3>1
      <4> QED BY <2>9, <3>1, <4>2, <4>3
    <3>2. CASE n = N + 1
      <4>1. answers'[Cardinality({m \in new : m <= n})] = answer
        BY <2>4, <2>8, <2>9, <3>2
      <4>2. after[n] = Signed(state) /\ handled'[n] = e
        BY <2>2, <2>6, <2>7, <3>2
      <4> QED BY <2>3, <4>1, <4>2
    <3> QED BY <2>8, <2>11, <3>1, <3>2
  <2>12. Len(answers') = Cardinality(new)
    BY <2>4, <2>8, <2>9
  <2>13. Follows(start)'
    BY <2>7, <2>11, <2>12 DEF Follows, after, new
  <2> QED BY <1>1, <1>2, <1>3, <1>4, <2>2, <2>4, <2>6, <2>13 DEF LedgerInv
<1> QED BY <1>2, <1>5, <1>6, <1>7, EventIs

(* The balances, the answers and the total follow from the events handled, *)
(* whatever the addresses, diffs and their order, over shutdowns and       *)
(* panics (LedgerWorker::run, apply_diff, get_balance).                    *)
THEOREM LedgerMeans == LedgerSpec => []LedgerFollowsDiffs
<1>1. LedgerInit => LedgerInv
  BY LedgerInitial
<1>2. LedgerInv /\ [LedgerNext]_ledgerVars => LedgerInv'
  <2> SUFFICES ASSUME LedgerInv, [LedgerNext]_ledgerVars PROVE LedgerInv'
    OBVIOUS
  <2>0. receiver \in Seq(Events)
    BY DEF LedgerInv
  <2>1. ASSUME NEW event \in Events, SendEvent(event) PROVE LedgerInv'
    <3>1. receiver' \in Seq(Events) /\ UNCHANGED <<overflowChecks, state, opening, handled, answers>>
      BY <2>0, <2>1 DEF SendEvent
    <3> QED BY <3>1, QueueKeeps
  <2>2. CASE HandleEvent
    BY <2>2, HandleKeeps
  <2>3. CASE StopLedger
    <3>1. receiver' \in Seq(Events) /\ UNCHANGED <<overflowChecks, state, opening, handled, answers>>
      BY <2>0, <2>3 DEF StopLedger
    <3> QED BY <3>1, QueueKeeps
  <2>4. CASE UNCHANGED ledgerVars
    <3>1. receiver' \in Seq(Events) /\ UNCHANGED <<overflowChecks, state, opening, handled, answers>>
      BY <2>0, <2>4 DEF ledgerVars
    <3> QED BY <3>1, QueueKeeps
  <2> QED BY <2>1, <2>2, <2>3, <2>4 DEF LedgerNext
<1>3. LedgerInv => LedgerFollowsDiffs
  BY DEF LedgerInv
<1> QED BY <1>1, <1>2, <1>3, PTL DEF LedgerSpec

-----------------------------------------------------------------------------
(* Bundle: BundleInv is inductive, for any fields pushed, any inputs of     *)
(* sign and any sponge; BuiltBundlesAreSound follows from it.  First, what *)
(* the recursive definitions satisfy.                                      *)

(* The sums of a sequence of numbers.                                      *)
LEMMA SumsToIs ==
  ASSUME NEW N \in Nat, NEW t, \A k \in 1..N : t[k] \in Int
  PROVE  /\ SumsTo(t, N) \in [0..N -> Int]
         /\ SumsTo(t, N)[0] = 0
         /\ \A k \in 1..N : SumsTo(t, N)[k] = SumsTo(t, N)[k - 1] + t[k]
<1> DEFINE step == [p \in Nat \X Int |-> IF p[1] \in 1..N THEN p[2] + t[p[1]] ELSE p[2]]
           F(g) == [k \in 0..N |-> IF k = 0 THEN 0 ELSE g[k - 1] + t[k]]
<1>1. 0 \in Int /\ \A k \in 1..N, x \in Int : x + t[k] \in Int
  OBVIOUS
<1>2. step \in [Nat \X Int -> Int]
  BY <1>1
<1>3. PICK w : Solves(w, Int, 0, step, N)
  <2> HIDE DEF step
  <2> QED BY <1>1, <1>2, RecursionExists, Zenon
<1>4. w \in [0..N -> Int] /\ w[0] = 0
  BY <1>3 DEF Solves
<1>5. \A k \in 1..N : w[k] = w[k - 1] + t[k]
  <2> SUFFICES ASSUME NEW k \in 1..N PROVE w[k] = w[k - 1] + t[k]
    OBVIOUS
  <2>1. k \in Nat /\ k - 1 \in 0..N /\ w[k - 1] \in Int
    BY <1>4
  <2>2. w[k] = step[<<k, w[k - 1]>>]
    BY <1>3 DEF Solves
  <2> QED BY <2>1, <2>2
<1>6. w = F(w)
  <2>1. \A k \in 0..N : w[k] = F(w)[k]
    BY <1>4, <1>5
  <2> HIDE DEF F
  <2>2. F(w) = [k \in 0..N |-> F(w)[k]]
    BY DEF F
  <2> QED BY <1>4, <2>1, <2>2
<1>7. ASSUME NEW v, v = F(v) PROVE v = w
  <2>1. v[0] = w[0] /\ v = [k \in 0..N |-> v[k]]
    BY <1>4, <1>7
  <2>2. \A k \in 1..N : v[k - 1] = w[k - 1] => v[k] = w[k]
    <3> SUFFICES ASSUME NEW k \in 1..N, v[k - 1] = w[k - 1] PROVE v[k] = w[k]
      OBVIOUS
    <3>1. F(v)[k] = v[k - 1] + t[k]
      OBVIOUS
    <3> QED BY <1>5, <1>7, <3>1
  <2> HIDE DEF F, step
  <2>3. InStep(v, w, N)
    BY <2>1, <2>2 DEF InStep
  <2>4. SameTo(v, w, N)
    BY <2>3, StepsAgree
  <2> QED BY <1>4, <2>1, <2>4 DEF SameTo
<1>8. SumsTo(t, N) = w
  <2>1. SumsTo(t, N) = CHOOSE g : g = F(g)
    BY DEF SumsTo
  <2> HIDE DEF F
  <2> QED BY <1>6, <1>7, <2>1
<1> HIDE DEF F, step
<1> QED BY <1>4, <1>5, <1>8

(* The moves of a fragment.                                                *)
LEMMA MovesIs ==
  ASSUME NEW N \in Nat, NEW D, NEW t \in D, NEW dir, \A f \in D : Moved(f, dir) \in D
  PROVE  /\ Moves(t, dir, N) \in [0..N -> D]
         /\ Moves(t, dir, N)[0] = t
         /\ \A k \in 1..N : Moves(t, dir, N)[k] = Moved(Moves(t, dir, N)[k - 1], dir)
<1> DEFINE step == [p \in Nat \X D |-> IF p[1] \in 1..N THEN Moved(p[2], dir) ELSE p[2]]
           F(g) == [k \in 0..N |-> IF k = 0 THEN t ELSE Moved(g[k - 1], dir)]
<1>1. t \in D /\ \A k \in 1..N, x \in D : Moved(x, dir) \in D
  OBVIOUS
<1>2. step \in [Nat \X D -> D]
  BY <1>1
<1>3. PICK w : Solves(w, D, t, step, N)
  <2> HIDE DEF step
  <2> QED BY <1>1, <1>2, RecursionExists, Zenon
<1>4. w \in [0..N -> D] /\ w[0] = t
  BY <1>3 DEF Solves
<1>5. \A k \in 1..N : w[k] = Moved(w[k - 1], dir)
  <2> SUFFICES ASSUME NEW k \in 1..N PROVE w[k] = Moved(w[k - 1], dir)
    OBVIOUS
  <2>1. k \in Nat /\ k - 1 \in 0..N /\ w[k - 1] \in D
    BY <1>4
  <2>2. w[k] = step[<<k, w[k - 1]>>]
    BY <1>3 DEF Solves
  <2> QED BY <2>1, <2>2
<1>6. w = F(w)
  <2>1. \A k \in 0..N : w[k] = F(w)[k]
    BY <1>4, <1>5
  <2> HIDE DEF F
  <2>2. F(w) = [k \in 0..N |-> F(w)[k]]
    BY DEF F
  <2> QED BY <1>4, <2>1, <2>2
<1>7. ASSUME NEW v, v = F(v) PROVE v = w
  <2>1. v[0] = w[0] /\ v = [k \in 0..N |-> v[k]]
    BY <1>4, <1>7
  <2>2. \A k \in 1..N : v[k - 1] = w[k - 1] => v[k] = w[k]
    <3> SUFFICES ASSUME NEW k \in 1..N, v[k - 1] = w[k - 1] PROVE v[k] = w[k]
      OBVIOUS
    <3>1. F(v)[k] = Moved(v[k - 1], dir)
      OBVIOUS
    <3> QED BY <1>5, <1>7, <3>1
  <2> HIDE DEF F, step
  <2>3. InStep(v, w, N)
    BY <2>1, <2>2 DEF InStep
  <2>4. SameTo(v, w, N)
    BY <2>3, StepsAgree
  <2> QED BY <1>4, <2>1, <2>4 DEF SameTo
<1>8. Moves(t, dir, N) = w
  <2>1. Moves(t, dir, N) = CHOOSE g : g = F(g)
    BY DEF Moves
  <2> HIDE DEF F
  <2> QED BY <1>6, <1>7, <2>1
<1> HIDE DEF F, step
<1> QED BY <1>4, <1>5, <1>8

(* The increments of a tag.                                                *)
LEMMA IncrementedIs ==
  ASSUME NEW N \in Nat, NEW D, NEW t \in D, \A x \in D : Increment(x) \in D
  PROVE  /\ Incremented(t, N) \in [0..N -> D]
         /\ Incremented(t, N)[0] = t
         /\ \A k \in 1..N : Incremented(t, N)[k] = Increment(Incremented(t, N)[k - 1])
<1> DEFINE step == [p \in Nat \X D |-> IF p[1] \in 1..N THEN Increment(p[2]) ELSE p[2]]
           F(g) == [k \in 0..N |-> IF k = 0 THEN t ELSE Increment(g[k - 1])]
<1>1. t \in D /\ \A k \in 1..N, x \in D : Increment(x) \in D
  OBVIOUS
<1>2. step \in [Nat \X D -> D]
  BY <1>1
<1>3. PICK w : Solves(w, D, t, step, N)
  <2> HIDE DEF step
  <2> QED BY <1>1, <1>2, RecursionExists, Zenon
<1>4. w \in [0..N -> D] /\ w[0] = t
  BY <1>3 DEF Solves
<1>5. \A k \in 1..N : w[k] = Increment(w[k - 1])
  <2> SUFFICES ASSUME NEW k \in 1..N PROVE w[k] = Increment(w[k - 1])
    OBVIOUS
  <2>1. k \in Nat /\ k - 1 \in 0..N /\ w[k - 1] \in D
    BY <1>4
  <2>2. w[k] = step[<<k, w[k - 1]>>]
    BY <1>3 DEF Solves
  <2> QED BY <2>1, <2>2
<1>6. w = F(w)
  <2>1. \A k \in 0..N : w[k] = F(w)[k]
    BY <1>4, <1>5
  <2> HIDE DEF F
  <2>2. F(w) = [k \in 0..N |-> F(w)[k]]
    BY DEF F
  <2> QED BY <1>4, <2>1, <2>2
<1>7. ASSUME NEW v, v = F(v) PROVE v = w
  <2>1. v[0] = w[0] /\ v = [k \in 0..N |-> v[k]]
    BY <1>4, <1>7
  <2>2. \A k \in 1..N : v[k - 1] = w[k - 1] => v[k] = w[k]
    <3> SUFFICES ASSUME NEW k \in 1..N, v[k - 1] = w[k - 1] PROVE v[k] = w[k]
      OBVIOUS
    <3>1. F(v)[k] = Increment(v[k - 1])
      OBVIOUS
    <3> QED BY <1>5, <1>7, <3>1
  <2> HIDE DEF F, step
  <2>3. InStep(v, w, N)
    BY <2>1, <2>2 DEF InStep
  <2>4. SameTo(v, w, N)
    BY <2>3, StepsAgree
  <2> QED BY <1>4, <2>1, <2>4 DEF SameTo
<1>8. Incremented(t, N) = w
  <2>1. Incremented(t, N) = CHOOSE g : g = F(g)
    BY DEF Incremented
  <2> HIDE DEF F
  <2> QED BY <1>6, <1>7, <2>1
<1> HIDE DEF F, step
<1> QED BY <1>4, <1>5, <1>8

(* The sponge as it absorbs.                                               *)
LEMMA AbsorbedIs ==
  ASSUME NEW N \in Nat, NEW es, Len(es) = N, \A k \in 1..N : es[k] \in Essence
  PROVE  /\ Absorbed(es) \in [0..N -> SpongeStates]
         /\ Absorbed(es)[0] = EmptySponge
         /\ \A k \in 1..N : Absorbed(es)[k] = AbsorbEssence(Absorbed(es)[k - 1], es[k])
<1> DEFINE step == [p \in Nat \X SpongeStates |-> IF p[1] \in 1..N THEN AbsorbEssence(p[2], es[p[1]]) ELSE p[2]]
           F(g) == [k \in 0..N |-> IF k = 0 THEN EmptySponge ELSE AbsorbEssence(g[k - 1], es[k])]
<1>1. EmptySponge \in SpongeStates /\ \A k \in 1..N, x \in SpongeStates : AbsorbEssence(x, es[k]) \in SpongeStates
  BY BundleAssumption
<1>2. step \in [Nat \X SpongeStates -> SpongeStates]
  BY <1>1
<1>3. PICK w : Solves(w, SpongeStates, EmptySponge, step, N)
  <2> HIDE DEF step
  <2> QED BY <1>1, <1>2, RecursionExists, Zenon
<1>4. w \in [0..N -> SpongeStates] /\ w[0] = EmptySponge
  BY <1>3 DEF Solves
<1>5. \A k \in 1..N : w[k] = AbsorbEssence(w[k - 1], es[k])
  <2> SUFFICES ASSUME NEW k \in 1..N PROVE w[k] = AbsorbEssence(w[k - 1], es[k])
    OBVIOUS
  <2>1. k \in Nat /\ k - 1 \in 0..N /\ w[k - 1] \in SpongeStates
    BY <1>4
  <2>2. w[k] = step[<<k, w[k - 1]>>]
    BY <1>3 DEF Solves
  <2> QED BY <2>1, <2>2
<1>6. w = F(w)
  <2>1. \A k \in 0..N : w[k] = F(w)[k]
    BY <1>4, <1>5
  <2> HIDE DEF F
  <2>2. F(w) = [k \in 0..N |-> F(w)[k]]
    BY DEF F
  <2> QED BY <1>4, <2>1, <2>2
<1>7. ASSUME NEW v, v = F(v) PROVE v = w
  <2>1. v[0] = w[0] /\ v = [k \in 0..N |-> v[k]]
    BY <1>4, <1>7
  <2>2. \A k \in 1..N : v[k - 1] = w[k - 1] => v[k] = w[k]
    <3> SUFFICES ASSUME NEW k \in 1..N, v[k - 1] = w[k - 1] PROVE v[k] = w[k]
      OBVIOUS
    <3>1. F(v)[k] = AbsorbEssence(v[k - 1], es[k])
      OBVIOUS
    <3> QED BY <1>5, <1>7, <3>1
  <2> HIDE DEF F, step
  <2>3. InStep(v, w, N)
    BY <2>1, <2>2 DEF InStep
  <2>4. SameTo(v, w, N)
    BY <2>3, StepsAgree
  <2> QED BY <1>4, <2>1, <2>4 DEF SameTo
<1>8. Absorbed(es) = w
  <2>1. Absorbed(es) = CHOOSE g : g = F(g)
    BY DEF Absorbed
  <2> HIDE DEF F
  <2> QED BY <1>6, <1>7, <2>1
<1> HIDE DEF F, step
<1> QED BY <1>4, <1>5, <1>8

Running == [err : {"none", "panic", "InvalidValue"}, sum : Int]

LEMMA WrapIsInt == \A n \in Int : WrapI64(n) \in Int
<1>1. I64Half \in Nat /\ 2 * I64Half \in Nat /\ 2 * I64Half > 0
  BY BundleAssumption
<1> QED BY <1>1 DEF WrapI64

LEMMA AddValueTyped ==
  /\ [err |-> "none", sum |-> 0] \in Running
  /\ \A checks : \A r \in Running, v \in Int : AddValue(r, v, checks) \in Running
<1>1. \A r \in Running, v \in Int : WrapI64(r.sum + v) \in Int
  BY WrapIsInt DEF Running
<1> QED BY <1>1 DEF AddValue, Running

(* The running sum.                                                        *)
LEMMA RunningIs ==
  ASSUME NEW N \in Nat, NEW vs, NEW checks, \A k \in 1..N : vs[k] \in Int
  PROVE  /\ RunningSum(vs, N, checks) \in [0..N -> Running]
         /\ RunningSum(vs, N, checks)[0] = [err |-> "none", sum |-> 0]
         /\ \A k \in 1..N : RunningSum(vs, N, checks)[k] = AddValue(RunningSum(vs, N, checks)[k - 1], vs[k], checks)
<1> DEFINE step == [p \in Nat \X Running |-> IF p[1] \in 1..N THEN AddValue(p[2], vs[p[1]], checks) ELSE p[2]]
           F(g) == [k \in 0..N |-> IF k = 0 THEN [err |-> "none", sum |-> 0] ELSE AddValue(g[k - 1], vs[k], checks)]
<1>1. [err |-> "none", sum |-> 0] \in Running /\ \A k \in 1..N, x \in Running : AddValue(x, vs[k], checks) \in Running
  BY AddValueTyped
<1>2. step \in [Nat \X Running -> Running]
  BY <1>1
<1>3. PICK w : Solves(w, Running, [err |-> "none", sum |-> 0], step, N)
  <2> HIDE DEF step
  <2> QED BY <1>1, <1>2, RecursionExists, Zenon
<1>4. w \in [0..N -> Running] /\ w[0] = [err |-> "none", sum |-> 0]
  BY <1>3 DEF Solves
<1>5. \A k \in 1..N : w[k] = AddValue(w[k - 1], vs[k], checks)
  <2> SUFFICES ASSUME NEW k \in 1..N PROVE w[k] = AddValue(w[k - 1], vs[k], checks)
    OBVIOUS
  <2>1. k \in Nat /\ k - 1 \in 0..N /\ w[k - 1] \in Running
    BY <1>4
  <2>2. w[k] = step[<<k, w[k - 1]>>]
    BY <1>3 DEF Solves
  <2> QED BY <2>1, <2>2
<1>6. w = F(w)
  <2>1. \A k \in 0..N : w[k] = F(w)[k]
    BY <1>4, <1>5
  <2> HIDE DEF F
  <2>2. F(w) = [k \in 0..N |-> F(w)[k]]
    BY DEF F
  <2> QED BY <1>4, <2>1, <2>2
<1>7. ASSUME NEW v, v = F(v) PROVE v = w
  <2>1. v[0] = w[0] /\ v = [k \in 0..N |-> v[k]]
    BY <1>4, <1>7
  <2>2. \A k \in 1..N : v[k - 1] = w[k - 1] => v[k] = w[k]
    <3> SUFFICES ASSUME NEW k \in 1..N, v[k - 1] = w[k - 1] PROVE v[k] = w[k]
      OBVIOUS
    <3>1. F(v)[k] = AddValue(v[k - 1], vs[k], checks)
      OBVIOUS
    <3> QED BY <1>5, <1>7, <3>1
  <2> HIDE DEF F, step
  <2>3. InStep(v, w, N)
    BY <2>1, <2>2 DEF InStep
  <2>4. SameTo(v, w, N)
    BY <2>3, StepsAgree
  <2> QED BY <1>4, <2>1, <2>4 DEF SameTo
<1>8. RunningSum(vs, N, checks) = w
  <2>1. RunningSum(vs, N, checks) = CHOOSE g : g = F(g)
    BY DEF RunningSum
  <2> HIDE DEF F
  <2> QED BY <1>6, <1>7, <2>1
<1> HIDE DEF F, step
<1> QED BY <1>4, <1>5, <1>8

-----------------------------------------------------------------------------
(* Hash chains.  A hash has no type, so that the chain is built as it is.  *)
Over(w, N) == w = [k \in 0..N |-> w[k]]
Chain(w, c, N) ==
  /\ Over(w, N)
  /\ w[0] = c
  /\ \A k \in 1..N : w[k] = digest(<<w[k - 1]>>)

LEMMA ChainExists ==
  ASSUME NEW c, NEW N \in Nat
  PROVE  \E w : Chain(w, c, N)
<1> DEFINE S == {n \in Nat : \E w : Chain(w, c, n)}
<1>1. 0 \in S
  <2>1. Chain([k \in 0..0 |-> c], c, 0)
    BY DEF Chain, Over
  <2> QED BY <2>1
<1>2. ASSUME NEW n \in Nat, n \in S PROVE n + 1 \in S
  <2>1. PICK w : Chain(w, c, n)
    BY <1>2
  <2> DEFINE v == [k \in 0..(n + 1) |-> IF k <= n THEN w[k] ELSE digest(<<w[n]>>)]
  <2>2. v[0] = c /\ v = [k \in 0..(n + 1) |-> v[k]]
    BY <2>1 DEF Chain
  <2>3. ASSUME NEW k \in 1..(n + 1) PROVE v[k] = digest(<<v[k - 1]>>)
    <3>1. CASE k <= n
      BY <2>1, <3>1 DEF Chain
    <3>2. CASE k = n + 1
      <4>1. v[n + 1] = digest(<<w[n]>>) /\ v[n] = w[n] /\ (n + 1) - 1 = n
        OBVIOUS
      <4> HIDE DEF v
      <4> QED BY <3>2, <4>1
    <3> QED BY <3>1, <3>2
  <2>4. Chain(v, c, n + 1)
    <3>1. v[0] = c /\ Over(v, n + 1)
      BY <2>2 DEF Over
    <3> HIDE DEF v
    <3> QED BY <2>3, <3>1 DEF Chain
  <2> QED BY <2>4
<1>3. N \in S
  <2> HIDE DEF S
  <2> QED BY <1>1, <1>2, SetInduction
<1> QED BY <1>3

LEMMA RehashesIs ==
  ASSUME NEW c, NEW N \in Nat
  PROVE  Chain(Rehashes(c, N), c, N)
<1> DEFINE F(g) == [k \in 0..N |-> IF k = 0 THEN c ELSE digest(<<g[k - 1]>>)]
<1>1. PICK w : Chain(w, c, N)
  BY ChainExists
<1>2. w = F(w)
  <2>1. \A k \in 0..N : w[k] = F(w)[k]
    BY <1>1 DEF Chain
  <2> HIDE DEF F
  <2>2. F(w) = [k \in 0..N |-> F(w)[k]] /\ w = [k \in 0..N |-> w[k]]
    BY <1>1 DEF F, Chain, Over
  <2> QED BY <2>1, <2>2
<1>3. ASSUME NEW v, v = F(v) PROVE v = w
  <2>1. v[0] = w[0] /\ v = [k \in 0..N |-> v[k]] /\ w = [k \in 0..N |-> w[k]]
    BY <1>1, <1>3 DEF Chain, Over
  <2>2. \A k \in 1..N : v[k - 1] = w[k - 1] => v[k] = w[k]
    <3> SUFFICES ASSUME NEW k \in 1..N, v[k - 1] = w[k - 1] PROVE v[k] = w[k]
      OBVIOUS
    <3>1. F(v)[k] = digest(<<v[k - 1]>>)
      OBVIOUS
    <3>2. w[k] = digest(<<w[k - 1]>>)
      BY <1>1 DEF Chain
    <3> QED BY <1>3, <3>1, <3>2
  <2> HIDE DEF F
  <2>3. SameTo(v, w, N)
    <3>1. InStep(v, w, N)
      BY <2>1, <2>2 DEF InStep
    <3> QED BY <3>1, StepsAgree
  <2> QED BY <2>1, <2>3 DEF SameTo
<1>4. Rehashes(c, N) = w
  <2>1. Rehashes(c, N) = CHOOSE g : g = F(g)
    BY DEF Rehashes
  <2> HIDE DEF F
  <2> QED BY <1>2, <1>3, <2>1
<1> QED BY <1>1, <1>4

LEMMA RehashZero ==
  ASSUME NEW c PROVE Rehash(c, 0) = c
<1>1. Chain(Rehashes(c, 0), c, 0)
  BY RehashesIs
<1> QED BY <1>1 DEF Chain, Rehash

LEMMA RehashStep ==
  ASSUME NEW c, NEW n \in Nat
  PROVE  Rehash(c, n + 1) = digest(<<Rehash(c, n)>>)
<1> DEFINE v == Rehashes(c, n + 1)
           w == Rehashes(c, n)
<1>1. Chain(v, c, n + 1) /\ Chain(w, c, n)
  BY RehashesIs
<1>3. Rehash(c, n + 1) = v[n + 1] /\ Rehash(c, n) = w[n]
  BY DEF Rehash
<1> HIDE DEF v, w
<1>4. InStep(v, w, n)
  <2>1. v[0] = w[0] /\ \A k \in 1..n : v[k] = digest(<<v[k - 1]>>) /\ w[k] = digest(<<w[k - 1]>>)
    BY <1>1 DEF Chain
  <2> QED BY <2>1 DEF InStep
<1>5. v[n] = w[n]
  <2>1. SameTo(v, w, n)
    BY <1>4, StepsAgree
  <2> QED BY <2>1 DEF SameTo
<1>6. v[n + 1] = digest(<<v[n]>>)
  BY <1>1 DEF Chain
<1> QED BY <1>3, <1>5, <1>6

(* Hashing goes on where it stopped.                                       *)
LEMMA RehashAdds ==
  ASSUME NEW c, NEW m \in Nat, NEW n \in Nat
  PROVE  Rehash(Rehash(c, m), n) = Rehash(c, m + n)
<1> DEFINE S == {k \in Nat : Rehash(Rehash(c, m), k) = Rehash(c, m + k)}
<1>1. 0 \in S
  <2>1. Rehash(Rehash(c, m), 0) = Rehash(c, m) /\ m + 0 = m
    BY RehashZero
  <2> QED BY <2>1
<1>2. ASSUME NEW k \in Nat, k \in S PROVE k + 1 \in S
  <2>1. Rehash(Rehash(c, m), k + 1) = digest(<<Rehash(Rehash(c, m), k)>>)
    BY RehashStep
  <2>2. Rehash(c, (m + k) + 1) = digest(<<Rehash(c, m + k)>>)
    BY RehashStep
  <2>3. m + (k + 1) = (m + k) + 1
    OBVIOUS
  <2> QED BY <1>2, <2>1, <2>2, <2>3
<1>3. n \in S
  <2> HIDE DEF S
  <2> QED BY <1>1, <1>2, SetInduction
<1> QED BY <1>3

-----------------------------------------------------------------------------
(* Sums.                                                                   *)
IntsTo(t, N) == \A k \in 1..N : t[k] \in Int
SumsUp(t, N) ==
  /\ SumTo(t, 0) = 0
  /\ \A n \in 0..N : SumTo(t, n) \in Int
  /\ \A n \in 1..N : SumTo(t, n) = SumTo(t, n - 1) + t[n]

LEMMA SumToIs ==
  ASSUME NEW N \in Nat, NEW t, IntsTo(t, N)
  PROVE  SumsUp(t, N)
<1> DEFINE w == SumsTo(t, N)
<1>1. w \in [0..N -> Int] /\ w[0] = 0 /\ \A k \in 1..N : w[k] = w[k - 1] + t[k]
  BY SumsToIs DEF IntsTo
<1> HIDE DEF w
<1>2. ASSUME NEW n \in 0..N PROVE SumTo(t, n) = w[n]
  <2> DEFINE v == SumsTo(t, n)
  <2>1. n \in Nat /\ \A k \in 1..n : t[k] \in Int
    BY DEF IntsTo
  <2>2. v[0] = 0 /\ \A k \in 1..n : v[k] = v[k - 1] + t[k]
    BY <2>1, SumsToIs
  <2> HIDE DEF v
  <2>3. InStep(v, w, n)
    <3>1. \A k \in 1..n : k \in 1..N
      BY <2>1
    <3> QED BY <1>1, <2>2, <3>1 DEF InStep
  <2>4. SameTo(v, w, n)
    BY <2>1, <2>3, StepsAgree
  <2> QED BY <2>1, <2>4 DEF SameTo, SumTo, v
<1>3. ASSUME NEW n \in 1..N PROVE SumTo(t, n) = SumTo(t, n - 1) + t[n]
  <2>1. n \in 0..N /\ n - 1 \in 0..N
    OBVIOUS
  <2> QED BY <1>1, <1>2, <2>1
<1> QED BY <1>1, <1>2, <1>3 DEF SumsUp

(* One element changed changes the sum by as much; the same elements have  *)
(* the same sum.                                                           *)
LEMMA SumChanges ==
  ASSUME NEW N \in Nat, NEW s, NEW t, IntsTo(s, N), IntsTo(t, N), NEW d \in Int, NEW at \in 1..N,
         t[at] = s[at] + d, \A k \in 1..N : k # at => t[k] = s[k]
  PROVE  SumTo(t, N) = SumTo(s, N) + d
<1> DEFINE S == {n \in Nat : n <= N => SumTo(t, n) = SumTo(s, n) + (IF at <= n THEN d ELSE 0)}
<1>1. SumsUp(s, N) /\ SumsUp(t, N)
  BY SumToIs
<1>2. 0 \in S
  BY <1>1 DEF SumsUp
<1>3. ASSUME NEW n \in Nat, n \in S PROVE n + 1 \in S
  <2> SUFFICES ASSUME n + 1 <= N
               PROVE  SumTo(t, n + 1) = SumTo(s, n + 1) + (IF at <= n + 1 THEN d ELSE 0)
    OBVIOUS
  <2>1. n + 1 \in 1..N /\ (n + 1) - 1 = n /\ n \in 0..N
    OBVIOUS
  <2>2. SumTo(t, n) = SumTo(s, n) + (IF at <= n THEN d ELSE 0)
    BY <1>3
  <2>3. /\ SumTo(t, n + 1) = SumTo(t, n) + t[n + 1] /\ SumTo(s, n + 1) = SumTo(s, n) + s[n + 1]
        /\ SumTo(s, n) \in Int
    BY <1>1, <2>1 DEF SumsUp
  <2>4. s[n + 1] \in Int
    BY <2>1 DEF IntsTo
  <2>5. t[n + 1] = s[n + 1] + (IF at = n + 1 THEN d ELSE 0)
    BY <2>1, <2>4
  <2> QED BY <2>2, <2>3, <2>4, <2>5
<1>4. N \in S
  <2> HIDE DEF S
  <2> QED BY <1>2, <1>3, SetInduction
<1> QED BY <1>4

LEMMA SumSame ==
  ASSUME NEW N \in Nat, NEW s, NEW t, IntsTo(s, N), \A k \in 1..N : t[k] = s[k]
  PROVE  SumTo(t, N) = SumTo(s, N)
<1>0. IntsTo(t, N)
  BY DEF IntsTo
<1>1. SumsUp(s, N) /\ SumsUp(t, N)
  BY <1>0, SumToIs
<1> DEFINE v == [n \in 0..N |-> SumTo(t, n)]
           w == [n \in 0..N |-> SumTo(s, n)]
<1>2. InStep(v, w, N)
  BY <1>1 DEF InStep, SumsUp
<1>3. SameTo(v, w, N)
  <2> HIDE DEF v, w
  <2> QED BY <1>2, StepsAgree
<1> QED BY <1>3 DEF SameTo

-----------------------------------------------------------------------------
(* Fragments.                                                              *)
LEMMA Grows == ASSUME NEW a \in Nat, NEW b \in Nat, NEW c \in Nat, a <= b PROVE a * c <= b * c /\ a * c \in Nat
<1>1. PICK d \in Nat : b = a + d
  <2>1. b - a \in Nat /\ b = a + (b - a)
    OBVIOUS
  <2> QED BY <2>1
<1>2. (a + d) * c = a * c + d * c /\ a * c \in Nat /\ d * c \in Nat
  OBVIOUS
<1> HIDE <1>1
<1> QED BY <1>1, <1>2

(* Where an element is: in a fragment, and where in it.                    *)
InFragment(i, levels) ==
  /\ FragmentOf(i) \in 1..levels /\ PlaceIn(i) \in 1..FragmentLen
  /\ (FragmentOf(i) - 1) * FragmentLen + PlaceIn(i) = i

LEMMA FragmentHas ==
  ASSUME NEW levels \in Nat, NEW i \in 1..(levels * FragmentLen)
  PROVE  InFragment(i, levels)
<1> DEFINE L == FragmentLen
           q == (i - 1) \div L
           r == (i - 1) % L
<1>1. L \in Nat /\ L > 0
  BY SigningAssumption
<1>2. levels * L \in Nat /\ i - 1 \in Nat /\ i - 1 < levels * L
  BY <1>1
<1>3. q \in Nat /\ r \in Nat /\ r < L /\ i - 1 = L * q + r
  <2> HIDE DEF L
  <2> QED BY <1>1, <1>2
<1> HIDE DEF q, r, L
<1>4. q < levels
  <2> SUFFICES ASSUME levels <= q PROVE FALSE
    BY <1>3
  <2>1. levels * L <= q * L
    BY <1>1, <1>3, Grows
  <2>2. L * q = q * L /\ q * L \in Nat
    BY <1>1, <1>3
  <2> QED BY <1>2, <1>3, <2>1, <2>2
<1>5. FragmentOf(i) = q + 1 /\ PlaceIn(i) = r + 1
  BY DEF FragmentOf, PlaceIn, q, r, L
<1>6. (FragmentOf(i) - 1) * L = L * q
  BY <1>1, <1>3, <1>5
<1>7. L * q \in Nat
  BY <1>1, <1>3
<1> QED BY <1>1, <1>3, <1>4, <1>5, <1>6, <1>7 DEF InFragment, L

(* A fragment is a piece of the sequence.                                  *)
LEMMA FragmentIs ==
  ASSUME NEW s, NEW f \in Nat \ {0}
  PROVE  /\ Len(Fragment(s, f)) = FragmentLen
         /\ Fragment(s, f) = [m \in 1..FragmentLen |-> s[(f - 1) * FragmentLen + m]]
<1> DEFINE L == FragmentLen
           from == (f - 1) * L
           x == Fragment(s, f)
           S == {s[i] : i \in (from + 1)..(from + L)}
<1>1. L \in Nat /\ L > 0
  BY SigningAssumption
<1>2. from \in Nat /\ f * L = from + L
  <2>1. f - 1 \in Nat /\ ((f - 1) + 1) * L = (f - 1) * L + L /\ (f - 1) * L \in Nat
    BY <1>1
  <2> QED BY <2>1
<1>3. x = SubSeq(s, from + 1, from + L)
  BY <1>2 DEF Fragment
<1> HIDE DEF from, x, L
<1>4. from + 1 \in Int /\ from + L \in Int /\ \A i \in (from + 1)..(from + L) : s[i] \in S
  BY <1>1, <1>2
<1> HIDE DEF S
<1>5. /\ x \in Seq(S)
      /\ Len(x) = IF from + 1 <= from + L THEN (from + L) - (from + 1) + 1 ELSE 0
      /\ \A i \in 1..((from + L) - (from + 1) + 1) : x[i] = s[(from + 1) + i - 1]
  BY <1>3, <1>4, SubSeqProperties
<1>6. from + 1 <= from + L /\ (from + L) - (from + 1) + 1 = L
  BY <1>1, <1>2
<1>7. \A i \in 1..L : (from + 1) + i - 1 = from + i
  BY <1>1, <1>2
<1>8. x \in Seq(S) /\ Len(x) = L /\ \A i \in 1..L : x[i] = s[from + i]
  BY <1>5, <1>6, <1>7
<1>9. x = [m \in 1..L |-> s[from + m]]
  <2>1. x = [m \in 1..L |-> x[m]]
    BY <1>8
  <2> QED BY <1>8, <2>1
<1> QED BY <1>8, <1>9 DEF x, L, from

-----------------------------------------------------------------------------
(* Normalized hashes are trytes.                                           *)
LEMMA MinIn ==
  ASSUME NEW T, T \subseteq Nat, T # {}
  PROVE  Min(T) \in T /\ \A y \in T : Min(T) <= y
BY NatMin DEF Min

LEMMA MovedTyped ==
  ASSUME NEW f \in [1..FragmentLen -> Tryte], NEW dir \in {-1, 1}
  PROVE  Moved(f, dir) \in [1..FragmentLen -> Tryte]
<1> DEFINE free == {j \in DOMAIN f : IF dir < 0 THEN f[j] > -MaxTryte ELSE f[j] < MaxTryte}
<1>1. MaxTryte \in Nat
  BY SigningAssumption
<1>2. CASE free = {}
  BY <1>2 DEF Moved
<1>3. CASE free # {}
  <2>1. Min(free) \in free
    <3>1. free \subseteq Nat
      BY SigningAssumption
    <3> HIDE DEF free
    <3> QED BY <1>3, <3>1, MinIn
  <2> DEFINE j == Min(free)
  <2>2. Moved(f, dir) = [f EXCEPT ![j] = @ + dir]
    BY <1>3 DEF Moved
  <2>3. j \in 1..FragmentLen /\ f[j] \in Tryte /\ IF dir < 0 THEN f[j] > -MaxTryte ELSE f[j] < MaxTryte
    BY <2>1
  <2> HIDE DEF j, free
  <2>4. f[j] + dir \in Tryte
    BY <1>1, <2>3 DEF Tryte
  <2> QED BY <2>2, <2>3, <2>4
<1> QED BY <1>2, <1>3

LEMMA TryteIsInt == Tryte \subseteq Int
BY SigningAssumption DEF Tryte

LEMMA FragmentNormalized ==
  ASSUME NEW t \in [1..FragmentLen -> Tryte], Len(t) = FragmentLen
  PROVE  NormalizeFragment(t) \in [1..FragmentLen -> Tryte]
<1> DEFINE D == [1..FragmentLen -> Tryte]
           sum == SumTrytes(t)
           dir == IF sum > 0 THEN -1 ELSE 1
           N == Magnitude(sum)
<1>1. FragmentLen \in Nat
  BY SigningAssumption
<1>2. sum \in Int
  <2>1. IntsTo(t, FragmentLen)
    BY TryteIsInt DEF IntsTo
  <2>2. SumsUp(t, FragmentLen)
    BY <1>1, <2>1, SumToIs
  <2> QED BY <1>1, <2>2 DEF SumsUp, SumTrytes
<1> HIDE DEF sum
<1>3. N \in Nat /\ dir \in {-1, 1}
  BY <1>2 DEF Magnitude
<1>4. NormalizeFragment(t) = Moves(t, dir, N)[N]
  BY DEF NormalizeFragment, sum
<1> HIDE DEF dir, N
<1>5. \A f \in D : Moved(f, dir) \in D
  BY <1>3, MovedTyped
<1> HIDE DEF D
<1>6. t \in D
  BY DEF D
<1>7. Moves(t, dir, N) \in [0..N -> D]
  BY <1>3, <1>5, <1>6, MovesIs
<1>8. N \in 0..N
  BY <1>3
<1> QED BY <1>4, <1>7, <1>8 DEF D

LEMMA HashNormalized ==
  ASSUME NEW hash \in HashTrytes
  PROVE  normalize_hash(hash) \in HashTrytes
<1> DEFINE L == FragmentLen
           M == SECURITY_LEVEL_MAX
           part(f) == NormalizeFragment(Fragment(hash, f))
<1>1. L \in Nat /\ M \in Nat
  BY SigningAssumption
<1>2. ASSUME NEW f \in 1..M PROVE part(f) \in [1..L -> Tryte]
  <2>1. Len(Fragment(hash, f)) = L /\ Fragment(hash, f) = [m \in 1..L |-> hash[(f - 1) * L + m]]
    BY <1>1, FragmentIs
  <2>2. ASSUME NEW m \in 1..L PROVE hash[(f - 1) * L + m] \in Tryte
    <3>1. f - 1 \in Nat /\ f \in Nat /\ f <= M /\ ((f - 1) + 1) * L = (f - 1) * L + L /\ (f - 1) * L \in Nat
      BY <1>1
    <3>2. f * L <= M * L /\ M * L \in Nat
      BY <1>1, <3>1, Grows
    <3>3. (f - 1) * L + m \in 1..(M * L)
      BY <1>1, <3>1, <3>2
    <3> QED BY <3>3 DEF HashTrytes
  <2> HIDE DEF L
  <2>3. Fragment(hash, f) \in [1..L -> Tryte]
    BY <2>1, <2>2
  <2> QED BY <2>1, <2>3, FragmentNormalized DEF L
<1>3. ASSUME NEW i \in 1..(M * L) PROVE part(FragmentOf(i))[PlaceIn(i)] \in Tryte
  <2>1. FragmentOf(i) \in 1..M /\ PlaceIn(i) \in 1..L
    BY <1>1, FragmentHas DEF InFragment
  <2> HIDE DEF part
  <2> QED BY <1>2, <2>1
<1>4. \A i \in 1..(M * L) : FragmentOf(i) \in 1..M
  BY <1>1, FragmentHas DEF InFragment
<1>5. normalize_hash(hash) = [i \in 1..(M * L) |-> part(FragmentOf(i))[PlaceIn(i)]]
  BY <1>4 DEF normalize_hash
<1> HIDE DEF part
<1> QED BY <1>3, <1>5 DEF HashTrytes

-----------------------------------------------------------------------------
(* Signing and recovering together hash a chunk as often as making the     *)
(* public key does, whatever the message.                                  *)
LEMMA SignatureRecovers ==
  ASSUME NEW levels \in 1..SECURITY_LEVEL_MAX, NEW which, NEW message \in HashTrytes
  PROVE  wots_recover_public_key(SignatureOf(<<which, levels>>, message), message) = PublicKeyOf(<<which, levels>>)
<1> DEFINE N == levels * FragmentLen
           secret == wots_generate(levels, BundleSeed, which)
           signature == wots_sign(secret, message)
           M == MaxTryte
<1>1. M \in Nat /\ FragmentLen \in Nat /\ levels \in Nat /\ N \in Nat /\ N <= SECURITY_LEVEL_MAX * FragmentLen
      /\ SECURITY_LEVEL_MAX * FragmentLen \in Nat
  BY SigningAssumption, Grows
<1>2. DOMAIN secret = 1..N
  BY DEF wots_generate
<1>3. signature = [i \in 1..N |-> Rehash(secret[i], M - message[i])]
  BY <1>2 DEF wots_sign
<1> HIDE DEF secret, N
<1>4. ASSUME NEW i \in 1..N PROVE Rehash(signature[i], message[i] + M) = Rehash(secret[i], 2 * M)
  <2>1. message[i] \in Tryte
    BY <1>1 DEF HashTrytes
  <2>2. M - message[i] \in Nat /\ message[i] + M \in Nat /\ (M - message[i]) + (message[i] + M) = 2 * M
    BY <1>1, <2>1 DEF Tryte
  <2>3. signature[i] = Rehash(secret[i], M - message[i])
    BY <1>3
  <2> HIDE DEF signature
  <2> QED BY <2>2, <2>3, RehashAdds
<1>5. DOMAIN signature = 1..N
  BY <1>3
<1> HIDE DEF signature
<1>6. [i \in DOMAIN signature |-> Rehash(signature[i], message[i] + M)] = [i \in DOMAIN secret |-> Rehash(secret[i], 2 * M)]
  BY <1>2, <1>4, <1>5
<1>7. SignatureOf(<<which, levels>>, message) = signature
  BY DEF SignatureOf, signature, secret
<1>8. PublicKeyOf(<<which, levels>>) = wots_generate_public_key(secret)
  BY DEF PublicKeyOf, secret
<1> QED BY <1>6, <1>7, <1>8 DEF wots_recover_public_key, wots_generate_public_key

LEMMA SignatureDomain ==
  ASSUME NEW input, NEW message
  PROVE  SignatureOf(input, message) = [k \in 1..(input[2] * FragmentLen) |-> SignatureOf(input, message)[k]]
BY DEF SignatureOf, wots_sign, wots_generate

(* The fragments of a signature, read one after another, are the signature.*)
Carries(bs, at, input, message) ==
  \A f \in 1..input[2] : bs[at + f - 1]["payload"] = Fragment(SignatureOf(input, message), f)

LEMMA SignatureReadBack ==
  ASSUME NEW bs, NEW at, NEW input, input[2] \in Nat, NEW message, Carries(bs, at, input, message)
  PROVE  SignatureAt(bs, at, input[2]) = SignatureOf(input, message)
<1> DEFINE s == SignatureOf(input, message)
           n == input[2]
<1>1. ASSUME NEW k \in 1..(n * FragmentLen)
      PROVE  bs[at + FragmentOf(k) - 1]["payload"][PlaceIn(k)] = s[k]
  <2>1. /\ FragmentOf(k) \in 1..n /\ PlaceIn(k) \in 1..FragmentLen
        /\ (FragmentOf(k) - 1) * FragmentLen + PlaceIn(k) = k
    BY FragmentHas DEF InFragment
  <2>2. bs[at + FragmentOf(k) - 1]["payload"] = Fragment(s, FragmentOf(k))
    BY <2>1 DEF Carries
  <2>3. Fragment(s, FragmentOf(k)) = [m \in 1..FragmentLen |-> s[(FragmentOf(k) - 1) * FragmentLen + m]]
    BY <2>1, FragmentIs
  <2> HIDE DEF s
  <2> QED BY <2>1, <2>2, <2>3
<1>2. s = [k \in 1..(n * FragmentLen) |-> s[k]]
  BY SignatureDomain
<1> HIDE DEF s
<1>3. SignatureAt(bs, at, n) = [k \in 1..(n * FragmentLen) |-> s[k]]
  BY <1>1 DEF SignatureAt
<1> QED BY <1>2, <1>3 DEF s

-----------------------------------------------------------------------------
(* The stages of the builder.                                              *)
IsWith(e, b, field, x) ==
  /\ DOMAIN e = DOMAIN b \union {field}
  /\ e[field] = x
  /\ \A g \in DOMAIN b : g # field => e[g] = b[g]

LEMMA WithIs ==
  ASSUME NEW b, NEW field, NEW x
  PROVE  IsWith(With(b, field, x), b, field, x)
BY DEF With, IsWith

LEMMA TagsTyped == \A t \in Tags : Increment(t) \in Tags
<1> SUFFICES ASSUME NEW t \in Tags PROVE Increment(t) \in Tags
  OBVIOUS
<1> DEFINE free == {i \in DOMAIN t : checked_increment(t[i]) = "Some"}
           stop == IF free = {} THEN Len(t) + 1 ELSE Min(free)
<1>1. TagLen \in Nat /\ DOMAIN t = 1..TagLen /\ Len(t) = TagLen /\ \A i \in 1..TagLen : t[i] \in {-1, 0, 1}
  BY BundleAssumption DEF Tags
<1>2. ASSUME NEW i \in 1..TagLen, i = stop PROVE t[i] + 1 \in {-1, 0, 1}
  <2>1. free # {}
    BY <1>1, <1>2
  <2>2. Min(free) \in free
    <3>1. free \subseteq Nat
      BY <1>1
    <3> HIDE DEF free
    <3> QED BY <2>1, <3>1, MinIn
  <2>3. i \in free
    BY <1>2, <2>1, <2>2
  <2>4. t[i] # 1
    BY <2>3 DEF checked_increment
  <2> QED BY <1>1, <2>4
<1>3. Increment(t) = [i \in 1..TagLen |-> IF i < stop THEN -1 ELSE IF i = stop THEN t[i] + 1 ELSE t[i]]
  BY <1>1 DEF Increment
<1> HIDE DEF stop
<1>4. Increment(t) \in [1..TagLen -> {-1, 0, 1}]
  BY <1>1, <1>2, <1>3
<1> QED BY <1>4 DEF Tags

LEMMA SqueezedTyped ==
  ASSUME NEW N \in Nat, NEW es, Len(es) = N, \A k \in 1..N : es[k] \in Essence
  PROVE  Squeezed(es) \in HashTrytes
<1>1. Absorbed(es) \in [0..N -> SpongeStates]
  BY AbsorbedIs
<1>2. Absorbed(es)[N] \in SpongeStates
  BY <1>1
<1> QED BY <1>2, BundleAssumption DEF Squeezed

(* A bundle that differs from a sealed one only in the other fields is     *)
(* sealed.                                                                 *)
SameSealed(b, c) ==
  /\ DOMAIN b \subseteq DOMAIN c
  /\ \A g \in EssenceFields \union {"bundle"} : c[g] = b[g]

LEMMA SealedSame ==
  ASSUME NEW bs, NEW cs, NEW checks, SealedBundle(bs, checks),
         DOMAIN cs = DOMAIN bs, Len(cs) = Len(bs), \A i \in DOMAIN bs : SameSealed(bs[i], cs[i])
  PROVE  SealedBundle(cs, checks) /\ \A i \in DOMAIN bs : cs[i]["value"] = bs[i]["value"]
<1>1. DOMAIN bs = 1..Len(bs) /\ Len(bs) \in 1..MaxPush
  BY DEF SealedBundle
<1>2. \A i \in DOMAIN bs : /\ cs[i]["address"] = bs[i]["address"] /\ cs[i]["value"] = bs[i]["value"]
                          /\ cs[i]["obsolete_tag"] = bs[i]["obsolete_tag"]
                          /\ cs[i]["timestamp"] = bs[i]["timestamp"]
                          /\ cs[i]["index"] = bs[i]["index"] /\ cs[i]["last_index"] = bs[i]["last_index"]
                          /\ cs[i]["bundle"] = bs[i]["bundle"]
  BY DEF SameSealed, EssenceFields
<1>3. \A i \in DOMAIN bs : essence(cs[i]) = essence(bs[i])
  BY <1>2 DEF essence
<1>4. Essences(cs) = Essences(bs) /\ ValuesOf(cs) = ValuesOf(bs)
  BY <1>2, <1>3 DEF Essences, ValuesOf
<1>5. 1 \in DOMAIN bs /\ cs[1]["bundle"] = bs[1]["bundle"]
  BY <1>1, <1>2
<1>6. Linked(cs) /\ HashIsOfEssences(cs)
  <2>1. Linked(bs) /\ HashIsOfEssences(bs)
    BY DEF SealedBundle
  <2> QED BY <1>2, <1>4, <1>5, <2>1 DEF Linked, HashIsOfEssences
<1>7. \A i \in DOMAIN cs : /\ EssenceFields \union {"bundle"} \subseteq DOMAIN cs[i]
                          /\ essence(cs[i]) \in Essence
  BY <1>3 DEF SealedBundle, SameSealed
<1>8. RunningSum(ValuesOf(cs), Len(cs), checks)[Len(cs)] = [err |-> "none", sum |-> 0]
  BY <1>4 DEF SealedBundle
<1> QED BY <1>1, <1>2, <1>6, <1>7, <1>8 DEF SealedBundle

(* A builder that lacks nothing, after seal has set the indexes.           *)
IndexedBuilder(b, i, n) ==
  /\ EssenceFields \subseteq DOMAIN b
  /\ essence(b) \in Essence
  /\ b["index"] = i - 1 /\ b["last_index"] = n - 1

LEMMA IndexedIs ==
  ASSUME NEW bs \in Seq(Pushes), Len(bs) \in 1..MaxPush, Incomplete(bs) = {},
         \A i \in DOMAIN bs : {"obsolete_tag", "timestamp"} \subseteq DOMAIN Indexed(bs)[i]
  PROVE  /\ DOMAIN Indexed(bs) = 1..Len(bs) /\ Len(Indexed(bs)) = Len(bs)
         /\ \A i \in 1..Len(bs) : /\ IndexedBuilder(Indexed(bs)[i], i, Len(bs))
                                  /\ Indexed(bs)[i]["value"] = bs[i]["value"]
<1> DEFINE n == Len(bs)
           c == Indexed(bs)
<1>1. DOMAIN bs = 1..n /\ n \in Nat /\ MaxPush \in Nat /\ n <= MaxPush /\ \A i \in 1..n : bs[i] \in Pushes
  BY BundleAssumption
<1>2. c = [i \in 1..n |-> With(With(bs[i], "index", i - 1), "last_index", n - 1)]
  BY <1>1 DEF Indexed
<1>3. DOMAIN c = 1..n /\ Len(c) = n
  BY <1>1, <1>2
<1>4. ASSUME NEW i \in 1..n
      PROVE  IndexedBuilder(c[i], i, n) /\ c[i]["value"] = bs[i]["value"]
  <2> DEFINE b == bs[i]
             d == With(b, "index", i - 1)
             e == With(d, "last_index", n - 1)
  <2>1. c[i] = e
    BY <1>2
  <2>2. b \in Pushes /\ {"payload", "address", "value", "tag"} \subseteq DOMAIN b
    BY <1>1 DEF Incomplete
  <2>3. DOMAIN d = DOMAIN b \union {"index"} /\ d["index"] = i - 1 /\ \A g \in DOMAIN b : g # "index" => d[g] = b[g]
    <3>1. IsWith(d, b, "index", i - 1)
      BY WithIs
    <3> HIDE DEF d, b
    <3> QED BY <3>1 DEF IsWith
  <2>4. /\ DOMAIN e = DOMAIN d \union {"last_index"} /\ e["last_index"] = n - 1
        /\ \A g \in DOMAIN d : g # "last_index" => e[g] = d[g]
    <3>1. IsWith(e, d, "last_index", n - 1)
      BY WithIs
    <3> HIDE DEF d, e
    <3> QED BY <3>1 DEF IsWith
  <2>5. {"obsolete_tag", "timestamp"} \subseteq DOMAIN e
    BY <1>1, <2>1
  <2> HIDE DEF b, d, e, c
  <2>6. {"obsolete_tag", "timestamp"} \subseteq DOMAIN b
    BY <2>3, <2>4, <2>5
  <2>7. /\ e["address"] = b["address"] /\ e["value"] = b["value"] /\ e["obsolete_tag"] = b["obsolete_tag"]
        /\ e["timestamp"] = b["timestamp"] /\ e["index"] = i - 1
    BY <2>2, <2>3, <2>4, <2>6
  <2>8. EssenceFields \subseteq DOMAIN e
    BY <2>2, <2>3, <2>4, <2>6 DEF EssenceFields
  <2>9. b["address"] \in Addresses /\ b["value"] \in Values /\ b["obsolete_tag"] \in Tags /\ b["timestamp"] \in Timestamps
    BY <2>2, <2>6, BundleAssumption
  <2>10. i - 1 \in 0..(MaxPush - 1) /\ n - 1 \in 0..(MaxPush - 1)
    BY <1>1
  <2>11. essence(e) \in Essence
    BY <2>4, <2>7, <2>9, <2>10 DEF essence, Essence
  <2> QED BY <2>1, <2>4, <2>7, <2>8, <2>11 DEF IndexedBuilder, b
<1> QED BY <1>3, <1>4

LEMMA TaggedIs ==
  ASSUME NEW n \in Nat \ {0}, NEW bs, DOMAIN bs = 1..n, NEW tag \in Tags,
         \A i \in 1..n : IndexedBuilder(bs[i], i, n)
  PROVE  /\ DOMAIN Tagged(bs, tag) = 1..n /\ Len(Tagged(bs, tag)) = n
         /\ \A i \in 1..n : /\ IndexedBuilder(Tagged(bs, tag)[i], i, n)
                            /\ Tagged(bs, tag)[i]["value"] = bs[i]["value"]
<1> DEFINE t == Tagged(bs, tag)
           b == bs[1]
           e == With(b, "obsolete_tag", tag)
<1>1. t = [bs EXCEPT ![1] = e]
  BY DEF Tagged
<1>2. DOMAIN t = 1..n /\ Len(t) = n /\ 1 \in 1..n
  BY <1>1
<1>3. t[1] = e /\ \A i \in 1..n : i # 1 => t[i] = bs[i]
  BY <1>1
<1>4. /\ DOMAIN e = DOMAIN b \union {"obsolete_tag"} /\ e["obsolete_tag"] = tag
      /\ \A g \in DOMAIN b : g # "obsolete_tag" => e[g] = b[g]
  <2>1. IsWith(e, b, "obsolete_tag", tag)
    BY WithIs
  <2> HIDE DEF e, b
  <2> QED BY <2>1 DEF IsWith
<1>5. IndexedBuilder(b, 1, n)
  BY <1>2
<1> HIDE DEF t, b, e
<1>6. EssenceFields \subseteq DOMAIN b /\ essence(b) \in Essence /\ b["index"] = 1 - 1 /\ b["last_index"] = n - 1
  BY <1>5 DEF IndexedBuilder
<1>7. /\ e["address"] = b["address"] /\ e["value"] = b["value"] /\ e["timestamp"] = b["timestamp"]
      /\ e["index"] = b["index"] /\ e["last_index"] = b["last_index"]
  BY <1>4, <1>6 DEF EssenceFields
<1>8. essence(e) \in Essence
  BY <1>4, <1>6, <1>7 DEF essence, Essence
<1>9. IndexedBuilder(e, 1, n)
  BY <1>4, <1>6, <1>7, <1>8 DEF IndexedBuilder
<1>10. ASSUME NEW i \in 1..n PROVE IndexedBuilder(t[i], i, n) /\ t[i]["value"] = bs[i]["value"]
  <2>1. CASE i = 1
    BY <1>3, <1>7, <1>9, <2>1 DEF b
  <2>2. CASE i # 1
    BY <1>3, <2>2
  <2> QED BY <2>1, <2>2
<1> QED BY <1>2, <1>10 DEF t

LEMMA HashedIs ==
  ASSUME NEW n \in 1..MaxPush, NEW t, DOMAIN t = 1..n, NEW checks,
         \A i \in 1..n : IndexedBuilder(t[i], i, n),
         ~has_m_bug(Squeezed(Essences(t))),
         RunningSum(ValuesOf(t), n, checks)[n] = [err |-> "none", sum |-> 0]
  PROVE  SealedBundle(Hashed(t, Squeezed(Essences(t))), checks)
<1> DEFINE h == Squeezed(Essences(t))
           d == Hashed(t, h)
<1>0. n \in Nat /\ 1 \in 1..n
  BY BundleAssumption
<1>1. d = [i \in 1..n |-> With(t[i], "bundle", h)]
  BY DEF Hashed
<1>2. DOMAIN d = 1..n /\ Len(d) = n
  BY <1>0, <1>1
<1> HIDE DEF d, h
<1>3. ASSUME NEW i \in 1..n
      PROVE  /\ EssenceFields \union {"bundle"} \subseteq DOMAIN d[i]
             /\ essence(d[i]) = essence(t[i]) /\ d[i]["bundle"] = h /\ d[i]["value"] = t[i]["value"]
             /\ d[i]["index"] = i - 1 /\ d[i]["last_index"] = n - 1 /\ essence(t[i]) \in Essence
  <2> DEFINE b == t[i]
             e == With(b, "bundle", h)
  <2>1. /\ DOMAIN e = DOMAIN b \union {"bundle"} /\ e["bundle"] = h
        /\ \A g \in DOMAIN b : g # "bundle" => e[g] = b[g]
    <3>1. IsWith(e, b, "bundle", h)
      BY WithIs
    <3> HIDE DEF e, b
    <3> QED BY <3>1 DEF IsWith
  <2>2. d[i] = e /\ IndexedBuilder(b, i, n)
    BY <1>1
  <2> HIDE DEF b, e
  <2>3. EssenceFields \subseteq DOMAIN b /\ essence(b) \in Essence /\ b["index"] = i - 1 /\ b["last_index"] = n - 1
    BY <2>2 DEF IndexedBuilder
  <2>4. /\ e["address"] = b["address"] /\ e["value"] = b["value"] /\ e["obsolete_tag"] = b["obsolete_tag"]
        /\ e["timestamp"] = b["timestamp"] /\ e["index"] = b["index"] /\ e["last_index"] = b["last_index"]
    BY <2>1, <2>3 DEF EssenceFields
  <2>5. essence(e) = essence(b)
    BY <2>4 DEF essence
  <2> QED BY <2>1, <2>2, <2>3, <2>4, <2>5 DEF b
<1>4. Essences(d) = Essences(t) /\ ValuesOf(d) = ValuesOf(t)
  BY <1>2, <1>3 DEF Essences, ValuesOf
<1>5. Linked(d)
  BY <1>0, <1>2, <1>3 DEF Linked
<1>6. HashIsOfEssences(d)
  BY <1>0, <1>3, <1>4 DEF HashIsOfEssences, h
<1>7. RunningSum(ValuesOf(d), Len(d), checks)[Len(d)] = [err |-> "none", sum |-> 0]
  BY <1>2, <1>4
<1> QED BY <1>2, <1>3, <1>5, <1>6, <1>7 DEF SealedBundle, d, h

LEMMA SealSeals ==
  ASSUME NEW bs \in Seq(Pushes), Len(bs) \in 1..MaxPush, Incomplete(bs) = {}, NEW checks,
         RunningSum(ValuesOf(bs), Len(bs), checks)[Len(bs)] = [err |-> "none", sum |-> 0],
         Seal(bs).err = "none"
  PROVE  SealedBundle(Seal(bs).builders, checks)
<1> DEFINE n == Len(bs)
           c == Indexed(bs)
           tag == Incremented(c[1]["obsolete_tag"], TagCount)
           hash(k) == Squeezed(Essences(Tagged(c, tag[k])))
           good == {k \in 0..(TagCount - 1) : ~has_m_bug(hash(k))}
           best == Min(good)
<1>1. n \in Nat \ {0} /\ DOMAIN bs = 1..n /\ DOMAIN c = 1..n
  BY BundleAssumption DEF Indexed
<1>2. /\ "obsolete_tag" \in DOMAIN c[1]
      /\ \A i \in DOMAIN c : {"obsolete_tag", "timestamp"} \subseteq DOMAIN c[i]
      /\ good # {}
      /\ Seal(bs) = [err |-> "none", builders |-> Hashed(Tagged(c, tag[best]), hash(best))]
  <2> HIDE DEF c
  <2>1. Seal(bs) = calculate_bundle_hash(c)
    BY DEF Seal, c
  <2>2. calculate_bundle_hash(c).err = "none"
    BY <2>1
  <2>3. "obsolete_tag" \in DOMAIN c[1]
    BY <2>2 DEF calculate_bundle_hash
  <2>4. ~\E i \in DOMAIN c : ~({"obsolete_tag", "timestamp"} \subseteq DOMAIN c[i])
    BY <2>2, <2>3 DEF calculate_bundle_hash
  <2>5. calculate_bundle_hash(c) = IF good = {} THEN [err |-> "diverges"]
           ELSE [err |-> "none", builders |-> Hashed(Tagged(c, tag[best]), hash(best))]
    BY <2>3, <2>4 DEF calculate_bundle_hash
  <2> HIDE DEF good
  <2>6. good # {}
    BY <2>2, <2>5
  <2> QED BY <2>1, <2>3, <2>4, <2>5, <2>6
<1>3. best \in good
  <2>1. good \subseteq Nat
    BY BundleAssumption
  <2> HIDE DEF good
  <2> QED BY <1>2, <2>1, MinIn
<1>4. /\ Len(c) = n
      /\ \A i \in 1..n : IndexedBuilder(c[i], i, n) /\ c[i]["value"] = bs[i]["value"]
  BY <1>1, <1>2, IndexedIs
<1>5. best \in 0..TagCount /\ ~has_m_bug(hash(best))
  BY <1>3, BundleAssumption
<1> HIDE DEF best, good, c
<1>6. tag[best] \in Tags
  <2>1. c[1]["obsolete_tag"] \in Tags
    <3>1. 1 \in 1..n /\ essence(c[1]) \in Essence
      BY <1>1, <1>4 DEF IndexedBuilder
    <3> QED BY <3>1 DEF essence, Essence
  <2>2. tag \in [0..TagCount -> Tags]
    BY <2>1, TagsTyped, IncrementedIs, BundleAssumption
  <2> QED BY <1>5, <2>2
<1> DEFINE t == Tagged(c, tag[best])
<1> HIDE DEF tag
<1>7. /\ DOMAIN t = 1..n /\ Len(t) = n
      /\ \A i \in 1..n : IndexedBuilder(t[i], i, n) /\ t[i]["value"] = c[i]["value"]
  BY <1>1, <1>4, <1>6, TaggedIs
<1> HIDE DEF t
<1>8. ValuesOf(t) = ValuesOf(bs)
  BY <1>1, <1>4, <1>7 DEF ValuesOf
<1>9. hash(best) = Squeezed(Essences(t))
  BY DEF t
<1>10. SealedBundle(Hashed(t, Squeezed(Essences(t))), checks)
  BY <1>5, <1>7, <1>8, <1>9, HashedIs
<1>11. Seal(bs).builders = Hashed(t, Squeezed(Essences(t)))
  BY <1>2, <1>9 DEF t
<1> QED BY <1>10, <1>11

-----------------------------------------------------------------------------
(* sign.  The fragments of an input begin where those before it end.       *)
LEMMA FragmentsCount ==
  ASSUME NEW ins \in Seq(Nat \X (1..SECURITY_LEVEL_MAX))
  PROVE  /\ FragmentsBefore(ins, 0) = 0
         /\ \A j \in 0..Len(ins) : FragmentsBefore(ins, j) \in Nat
         /\ \A j \in 1..Len(ins) : /\ FragmentsBefore(ins, j) = FragmentsBefore(ins, j - 1) + ins[j][2]
                                   /\ ins[j][2] \in 1..SECURITY_LEVEL_MAX
         /\ \A j \in 0..Len(ins) : \A i \in 0..j : FragmentsBefore(ins, i) <= FragmentsBefore(ins, j)
<1> DEFINE N == Len(ins)
           t == [k \in DOMAIN ins |-> ins[k][2]]
           b(j) == FragmentsBefore(ins, j)
<1>1. N \in Nat /\ DOMAIN ins = 1..N /\ SECURITY_LEVEL_MAX \in Nat
  BY SigningAssumption
<1>2. \A j \in 1..N : t[j] = ins[j][2] /\ ins[j][2] \in 1..SECURITY_LEVEL_MAX
  BY <1>1
<1>3. SumsUp(t, N)
  <2>1. IntsTo(t, N)
    BY <1>1, <1>2 DEF IntsTo
  <2> HIDE DEF t
  <2> QED BY <1>1, <2>1, SumToIs
<1>4. /\ b(0) = 0 /\ \A j \in 0..N : b(j) \in Int
      /\ \A j \in 1..N : b(j) = b(j - 1) + ins[j][2]
  BY <1>2, <1>3 DEF SumsUp, FragmentsBefore
<1> HIDE DEF b, t
<1> DEFINE S == {j \in Nat : j <= N => \A i \in 0..j : b(i) <= b(j)}
<1>5. 0 \in S
  BY <1>4
<1>6. ASSUME NEW j \in Nat, j \in S PROVE j + 1 \in S
  <2> SUFFICES ASSUME j + 1 <= N, NEW i \in 0..(j + 1) PROVE b(i) <= b(j + 1)
    OBVIOUS
  <2>1. j + 1 \in 1..N /\ (j + 1) - 1 = j /\ j \in 0..N /\ i \in 0..N /\ j + 1 \in 0..N
    BY <1>1
  <2>2. b(j + 1) = b(j) + ins[j + 1][2] /\ ins[j + 1][2] \in 1..SECURITY_LEVEL_MAX /\ b(j) \in Int /\ b(i) \in Int
    BY <1>2, <1>4, <2>1
  <2>3. CASE i = j + 1
    BY <2>2, <2>3
  <2>4. CASE i \in 0..j
    <3>1. b(i) <= b(j)
      BY <1>1, <1>6, <2>1, <2>4
    <3> QED BY <1>1, <2>2, <3>1
  <2> QED BY <2>1, <2>3, <2>4
<1>7. \A j \in Nat : j \in S
  <2> SUFFICES ASSUME NEW j \in Nat PROVE j \in S
    OBVIOUS
  <2> HIDE DEF S
  <2> QED BY <1>5, <1>6, SetInduction
<1>8. \A j \in 0..N : \A i \in 0..j : b(i) <= b(j)
  BY <1>1, <1>7
<1>9. \A j \in 0..N : b(j) \in Nat
  <2> SUFFICES ASSUME NEW j \in 0..N PROVE b(j) \in Nat
    OBVIOUS
  <2>1. 0 \in 0..j
    BY <1>1
  <2> QED BY <1>4, <1>8, <2>1
<1> QED BY <1>2, <1>4, <1>8, <1>9 DEF b

LEMMA PlaceWithin ==
  ASSUME NEW x \in Nat, NEW y \in Nat, NEW z \in Nat, NEW g \in Nat, NEW f \in Nat,
         1 <= f, f <= g, y = x + g, y <= z
  PROVE  x + f \in Nat /\ x < x + f /\ x + f <= y /\ x + f \in 1..z
OBVIOUS

LEMMA FragmentsAre ==
  ASSUME NEW ins \in Seq(Nat \X (1..SECURITY_LEVEL_MAX)), NEW message
  PROVE  /\ DOMAIN Fragments(message, ins) = 1..FragmentsBefore(ins, Len(ins))
         /\ \A j \in 1..Len(ins) : \A f \in 1..ins[j][2] :
              /\ FragmentsBefore(ins, j - 1) + f \in 1..FragmentsBefore(ins, Len(ins))
              /\ Fragments(message, ins)[FragmentsBefore(ins, j - 1) + f]
                   = Fragment(SignatureOf(ins[j], message), f)
<1> DEFINE N == Len(ins)
           b(j) == FragmentsBefore(ins, j)
           before == [j \in 0..N |-> b(j)]
           owner(p) == CHOOSE j \in DOMAIN ins : before[j - 1] < p /\ p <= before[j]
           fs == Fragments(message, ins)
<1>1. N \in Nat /\ DOMAIN ins = 1..N
  OBVIOUS
<1>2. /\ b(0) = 0 /\ \A j \in 0..N : b(j) \in Nat
      /\ \A j \in 1..N : b(j) = b(j - 1) + ins[j][2] /\ ins[j][2] \in 1..SECURITY_LEVEL_MAX
      /\ \A j \in 0..N : \A i \in 0..j : b(i) <= b(j)
  BY FragmentsCount
<1>3. fs = [p \in 1..b(N) |-> Fragment(SignatureOf(ins[owner(p)], message), p - before[owner(p) - 1])]
  BY <1>1 DEF Fragments
<1> HIDE DEF b, fs
<1>4. ASSUME NEW j \in 1..N, NEW f \in 1..ins[j][2]
      PROVE  b(j - 1) + f \in 1..b(N) /\ fs[b(j - 1) + f] = Fragment(SignatureOf(ins[j], message), f)
  <2> DEFINE p == b(j - 1) + f
  <2>1. /\ j - 1 \in 0..N /\ j \in 0..N /\ b(j - 1) \in Nat /\ b(j) \in Nat /\ b(N) \in Nat
        /\ SECURITY_LEVEL_MAX \in Nat /\ ins[j][2] \in Nat /\ b(j) = b(j - 1) + ins[j][2]
    <3>1. j - 1 \in 0..N /\ j \in 0..N /\ N \in 0..N /\ SECURITY_LEVEL_MAX \in Nat
      BY <1>1, SigningAssumption
    <3> HIDE DEF N
    <3>2. b(j - 1) \in Nat /\ b(j) \in Nat /\ b(N) \in Nat
      BY <1>2, <3>1
    <3>3. b(j) = b(j - 1) + ins[j][2] /\ ins[j][2] \in 1..SECURITY_LEVEL_MAX
      BY <1>2
    <3> QED BY <3>1, <3>2, <3>3
  <2>2. b(j) <= b(N)
    <3>1. N \in 0..N /\ j \in 0..N
      BY <1>1
    <3> HIDE DEF N
    <3> QED BY <1>2, <3>1
  <2>3. p \in Nat /\ b(j - 1) < p /\ p <= b(j) /\ p \in 1..b(N)
    <3>1. f \in Nat /\ 1 <= f /\ f <= ins[j][2]
      BY <2>1
    <3> DEFINE x == b(j - 1)
               y == b(j)
               z == b(N)
    <3>2. x \in Nat /\ y \in Nat /\ z \in Nat /\ y = x + ins[j][2] /\ y <= z /\ ins[j][2] \in Nat
      BY <2>1, <2>2
    <3>3. p = x + f /\ b(j - 1) = x /\ b(j) = y /\ b(N) = z
      OBVIOUS
    <3> HIDE DEF p, x, y, z
    <3>4. x + f \in Nat /\ x < x + f /\ x + f <= y /\ x + f \in 1..z
      BY <3>1, <3>2, PlaceWithin
    <3> QED BY <3>3, <3>4
  <2> HIDE DEF p
  <2>4. ASSUME NEW k \in 1..N, b(k - 1) < p, p <= b(k) PROVE k = j
    <3>1. k \in 0..N /\ k - 1 \in 0..N /\ b(k) \in Nat /\ b(k - 1) \in Nat
      <4>1. k \in 0..N /\ k - 1 \in 0..N
        BY <1>1
      <4> HIDE DEF N
      <4> QED BY <1>2, <4>1
    <3>2. CASE k < j
      <4>1. k \in 0..(j - 1)
        BY <1>1, <3>2
      <4>2. b(k) <= b(j - 1)
        BY <1>2, <2>1, <4>1
      <4> QED BY <2>1, <2>3, <2>4, <3>1, <4>2
    <3>3. CASE j < k
      <4>1. j \in 0..(k - 1)
        BY <1>1, <3>3
      <4>2. b(j) <= b(k - 1)
        BY <1>2, <3>1, <4>1
      <4> QED BY <2>1, <2>3, <2>4, <3>1, <4>2
    <3> QED BY <1>1, <3>2, <3>3
  <2>5. before[j - 1] = b(j - 1) /\ before[j] = b(j)
    BY <2>1
  <2>6. \A k \in DOMAIN ins : before[k - 1] = b(k - 1) /\ before[k] = b(k)
    BY <1>1
  <2> HIDE DEF before
  <2>7. owner(p) = j
    BY <1>1, <2>3, <2>4, <2>5, <2>6
  <2>8. fs[p] = Fragment(SignatureOf(ins[owner(p)], message), p - before[owner(p) - 1])
    BY <1>3, <2>3
  <2> HIDE DEF owner
  <2>9. p - b(j - 1) = f
    BY <2>1 DEF p
  <2> QED BY <2>3, <2>5, <2>7, <2>8, <2>9 DEF p
<1>5. DOMAIN fs = 1..b(N)
  BY <1>3
<1> QED BY <1>4, <1>5 DEF b, fs

LEMMA FirstInputIn ==
  ASSUME NEW bs, NEW n \in Nat \ {0}, DOMAIN bs = 1..n
  PROVE  FirstInput(bs) \in 1..n
<1> DEFINE negative == {i \in DOMAIN bs : bs[i]["value"] < 0}
<1>1. FirstInput(bs) = IF negative = {} THEN 1 ELSE Min(negative)
  BY DEF FirstInput
<1>2. negative \subseteq 1..n /\ negative \subseteq Nat
  OBVIOUS
<1> HIDE DEF negative
<1>3. CASE negative = {}
  BY <1>1, <1>3
<1>4. CASE negative # {}
  <2>1. Min(negative) \in negative
    BY <1>2, <1>4, MinIn
  <2> QED BY <1>1, <1>2, <1>4, <2>1
<1> QED BY <1>3, <1>4

LEMMA SignSigns ==
  ASSUME NEW bs, NEW checks, SealedBundle(bs, checks), NEW ins \in Inputs, NEW fs,
         fs = Fragments(normalize_hash(bs[1]["bundle"]), ins),
         FirstInput(bs) + Len(fs) - 1 <= Len(bs)
  PROVE  /\ SealedBundle(WithPayloads(bs, FirstInput(bs), fs), checks)
         /\ SignedBundle(WithPayloads(bs, FirstInput(bs), fs), ins)
<1> DEFINE first == FirstInput(bs)
           cs == WithPayloads(bs, first, fs)
           n == Len(bs)
           m == normalize_hash(bs[1]["bundle"])
           b(j) == FragmentsBefore(ins, j)
<1>1. n \in Nat \ {0} /\ DOMAIN bs = 1..n
  BY BundleAssumption DEF SealedBundle
<1>2. first \in 1..n
  BY <1>1, FirstInputIn
<1>3. ins \in Seq(Nat \X (1..SECURITY_LEVEL_MAX))
  BY BundleAssumption
<1>4. /\ DOMAIN fs = 1..b(Len(ins)) /\ b(Len(ins)) \in Nat
      /\ \A j \in 1..Len(ins) : \A f \in 1..ins[j][2] :
           b(j - 1) + f \in 1..b(Len(ins)) /\ fs[b(j - 1) + f] = Fragment(SignatureOf(ins[j], m), f)
  <2>1. Len(ins) \in Nat /\ Len(ins) \in 0..Len(ins)
    BY <1>3
  <2> QED BY <1>3, <2>1, FragmentsAre, FragmentsCount
<1>5. Len(fs) = b(Len(ins))
  BY <1>4
<1> HIDE DEF b, first, m
<1>6. cs = [i \in 1..n |-> IF i \in first..(first + Len(fs) - 1)
                           THEN With(bs[i], "payload", fs[i - first + 1]) ELSE bs[i]]
  BY <1>1 DEF WithPayloads
<1>7. DOMAIN cs = 1..n /\ Len(cs) = n
  BY <1>1, <1>6
<1>8. ASSUME NEW i \in 1..n
      PROVE  SameSealed(bs[i], cs[i])
  <2>1. CASE i \in first..(first + Len(fs) - 1)
    <3> DEFINE x == fs[i - first + 1]
               e == With(bs[i], "payload", x)
    <3>1. cs[i] = e
      BY <1>6, <2>1
    <3>2. IsWith(e, bs[i], "payload", x)
      BY WithIs
    <3> HIDE DEF e, x, cs
    <3>3. EssenceFields \union {"bundle"} \subseteq DOMAIN bs[i]
      BY <1>1 DEF SealedBundle
    <3> QED BY <3>1, <3>2, <3>3 DEF IsWith, SameSealed, EssenceFields
  <2>2. CASE i \notin first..(first + Len(fs) - 1)
    <3>1. cs[i] = bs[i]
      BY <1>6, <2>2
    <3> HIDE DEF cs
    <3> QED BY <3>1 DEF SameSealed
  <2> QED BY <2>1, <2>2
<1>9. ASSUME NEW i \in 1..n, i \in first..(first + Len(fs) - 1)
      PROVE  cs[i]["payload"] = fs[i - first + 1]
  <2> DEFINE x == fs[i - first + 1]
             e == With(bs[i], "payload", x)
  <2>1. cs[i] = e
    BY <1>6, <1>9
  <2>2. IsWith(e, bs[i], "payload", x)
    BY WithIs
  <2> HIDE DEF e, cs
  <2> QED BY <2>1, <2>2 DEF IsWith
<1> HIDE DEF cs
<1>10. SealedBundle(cs, checks) /\ \A i \in DOMAIN bs : cs[i]["value"] = bs[i]["value"]
  BY <1>1, <1>7, <1>8, SealedSame
<1>11. FirstInput(cs) = first
  <2>1. {i \in DOMAIN cs : cs[i]["value"] < 0} = {i \in DOMAIN bs : bs[i]["value"] < 0}
    BY <1>1, <1>7, <1>10
  <2> QED BY <2>1 DEF FirstInput, first
<1>12. cs[1]["bundle"] = bs[1]["bundle"]
  BY <1>1, <1>8 DEF SameSealed
<1>13. ASSUME NEW j \in DOMAIN ins, NEW f \in 1..ins[j][2]
       PROVE  /\ Position(cs, ins, j) + f - 1 \in DOMAIN cs
              /\ cs[Position(cs, ins, j) + f - 1]["payload"] = Fragment(SignatureOf(ins[j], m), f)
  <2>1. j \in 1..Len(ins) /\ j - 1 \in 0..Len(ins) /\ b(j - 1) \in Nat /\ ins[j][2] \in 1..SECURITY_LEVEL_MAX
    <3>1. Len(ins) \in Nat /\ j \in 1..Len(ins) /\ j - 1 \in 0..Len(ins)
      BY <1>3
    <3> QED BY <1>3, <3>1, FragmentsCount DEF b
  <2>2. Position(cs, ins, j) = first + b(j - 1)
    BY <1>11 DEF Position, b
  <2> DEFINE p == b(j - 1) + f
             i == first + p - 1
  <2>3. f \in Nat /\ p \in 1..b(Len(ins)) /\ fs[p] = Fragment(SignatureOf(ins[j], m), f)
    BY <1>4, <2>1
  <2>4. i = Position(cs, ins, j) + f - 1 /\ i \in first..(first + Len(fs) - 1) /\ i \in 1..n /\ i - first + 1 = p
    <3>1. first \in Nat /\ first >= 1 /\ first + Len(fs) - 1 <= n /\ n \in Nat
      BY <1>1, <1>2 DEF first
    <3> HIDE DEF p
    <3>2. p \in Nat /\ 1 <= p /\ p <= Len(fs)
      BY <1>4, <1>5, <2>3
    <3>3. first + b(j - 1) + f - 1 = first + p - 1
      BY <2>1, <2>3, <3>1 DEF p
    <3> QED BY <1>4, <1>5, <2>2, <3>1, <3>2, <3>3
  <2> HIDE DEF i, p
  <2>5. cs[i]["payload"] = fs[p]
    BY <1>9, <2>4
  <2> QED BY <1>7, <2>3, <2>4, <2>5
<1>14. SignedBundle(cs, ins)
  BY <1>12, <1>13 DEF SignedBundle, m
<1> QED BY <1>10, <1>14 DEF cs, first

-----------------------------------------------------------------------------
(* Every step keeps the invariant.                                         *)
LEMMA FailKeeps ==
  ASSUME NEW e, BundleInv, Fail(e)
  PROVE  BundleInv'
<1>1. checked \in BOOLEAN /\ checked' = checked /\ stage' = "failed"
  BY DEF BundleInv, Fail
<1> QED BY <1>1 DEF BundleInv

LEMMA PushKeeps ==
  ASSUME BundleInv, NEW b \in Pushes, push(b)
  PROVE  BundleInv'
<1>1. /\ stage = "raw" /\ Len(builders) < MaxPush /\ builders' = Append(builders, b)
      /\ checked' = checked /\ stage' = stage /\ failure' = failure /\ inputs' = inputs
  BY DEF push
<1>2. checked \in BOOLEAN /\ builders \in Seq(Pushes) /\ inputs = << >>
  BY <1>1 DEF BundleInv
<1>3. builders' \in Seq(Pushes) /\ Len(builders') = Len(builders) + 1 /\ Len(builders) \in Nat
  BY <1>1, <1>2
<1>4. Len(builders') <= MaxPush
  BY <1>1, <1>3, BundleAssumption
<1> QED BY <1>1, <1>2, <1>3, <1>4 DEF BundleInv

LEMMA SealKeeps ==
  ASSUME BundleInv, seal
  PROVE  BundleInv'
<1> DEFINE bad == Incomplete(builders)
           upto == IF bad = {} THEN Len(builders) ELSE Min(bad) - 1
           vs == [i \in 1..upto |-> builders[i]["value"]]
           sum == RunningSum(vs, upto, checked)[upto]
           sealed == Seal(builders)
<1>1. /\ stage = "raw"
      /\ \/ \E e : Fail(e)
         \/ /\ builders # << >> /\ sum.err = "none" /\ bad = {} /\ sum.sum = 0 /\ sealed.err = "none"
            /\ stage' = "sealed" /\ builders' = sealed.builders
            /\ checked' = checked /\ failure' = failure /\ inputs' = inputs
  <2> HIDE DEF sealed, sum
  <2> QED BY DEF seal, sealed, sum
<1>2. CASE \E e : Fail(e)
  BY <1>2, FailKeeps
<1>3. CASE /\ builders # << >> /\ sum.err = "none" /\ bad = {} /\ sum.sum = 0 /\ sealed.err = "none"
           /\ stage' = "sealed" /\ builders' = sealed.builders
           /\ checked' = checked /\ failure' = failure /\ inputs' = inputs
  <2> DEFINE n == Len(builders)
  <2>1. /\ checked \in BOOLEAN /\ builders \in Seq(Pushes) /\ n <= MaxPush /\ inputs = << >>
        /\ MaxPush \in Nat
    BY <1>1, BundleAssumption DEF BundleInv
  <2>2. DOMAIN builders = 1..n /\ n \in Nat /\ n \in 1..MaxPush
    BY <1>3, <2>1
  <2>3. upto = n /\ vs = ValuesOf(builders)
    BY <1>3, <2>2 DEF ValuesOf
  <2>4. \A i \in 1..n : vs[i] \in Int
    <3> SUFFICES ASSUME NEW i \in 1..n PROVE vs[i] \in Int
      OBVIOUS
    <3>1. builders[i] \in Pushes /\ "value" \in DOMAIN builders[i]
      BY <1>3, <2>1, <2>2 DEF Incomplete
    <3>2. builders[i]["value"] \in Values
      BY <3>1, BundleAssumption
    <3> QED BY <2>3, <3>2, BundleAssumption DEF Values
  <2> HIDE DEF vs, upto, bad, sealed
  <2>5. sum \in Running
    <3>1. RunningSum(vs, n, checked) \in [0..n -> Running]
      BY <2>2, <2>4, RunningIs
    <3> QED BY <2>2, <2>3, <3>1
  <2>6. sum = [err |-> "none", sum |-> 0]
    <3> HIDE DEF sum
    <3> QED BY <1>3, <2>5 DEF Running
  <2>7. RunningSum(ValuesOf(builders), Len(builders), checked)[Len(builders)] = [err |-> "none", sum |-> 0]
    BY <2>3, <2>6
  <2>8. SealedBundle(Seal(builders).builders, checked)
    BY <1>3, <2>1, <2>2, <2>7, SealSeals DEF sealed, bad
  <2>9. SealedBundle(builders, checked)'
    BY <1>3, <2>8 DEF sealed
  <2> QED BY <1>3, <2>1, <2>9 DEF BundleInv
<1> QED BY <1>1, <1>2, <1>3

LEMMA AttachKeeps ==
  ASSUME BundleInv, attach
  PROVE  BundleInv'
<1>1. CASE \E e : Fail(e)
  BY <1>1, FailKeeps
<1>2. CASE /\ stage = "sealed" /\ has_no_input(builders) /\ stage' = "attached"
           /\ UNCHANGED <<checked, builders, failure, inputs>>
  <2>1. checked \in BOOLEAN /\ inputs = << >> /\ SealedBundle(builders, checked)
    BY <1>2 DEF BundleInv
  <2>2. SealedBundle(builders, checked)' /\ has_no_input(builders)'
    BY <1>2, <2>1
  <2> QED BY <1>2, <2>1, <2>2 DEF BundleInv
<1>3. CASE stage = "signed" /\ stage' = "attached" /\ UNCHANGED <<checked, builders, failure, inputs>>
  <2>1. /\ checked \in BOOLEAN /\ SealedBundle(builders, checked)
        /\ IF inputs = << >> THEN has_no_input(builders)
           ELSE \E ins \in Inputs : inputs = <<ins>> /\ SignedBundle(builders, ins)
    BY <1>3 DEF BundleInv
  <2>2. /\ SealedBundle(builders, checked)'
        /\ (IF inputs = << >> THEN has_no_input(builders)
            ELSE \E ins \in Inputs : inputs = <<ins>> /\ SignedBundle(builders, ins))'
    BY <1>3, <2>1
  <2> QED BY <1>3, <2>1, <2>2 DEF BundleInv
<1> QED BY <1>1, <1>2, <1>3 DEF attach

LEMMA SignKeeps ==
  ASSUME BundleInv, NEW ins \in Inputs, sign(ins)
  PROVE  BundleInv'
<1> DEFINE fs == Fragments(normalize_hash(builders[1]["bundle"]), ins)
           first == FirstInput(builders)
           signed == WithPayloads(builders, first, fs)
<1>1. /\ stage = "sealed"
      /\ \/ \E e : Fail(e)
         \/ /\ ~(first + Len(fs) - 1 > Len(builders)) /\ builders' = signed
            /\ stage' = "signed" /\ inputs' = <<ins>> /\ checked' = checked /\ failure' = failure
  BY DEF sign
<1>2. CASE \E e : Fail(e)
  BY <1>2, FailKeeps
<1>3. CASE /\ ~(first + Len(fs) - 1 > Len(builders)) /\ builders' = signed
           /\ stage' = "signed" /\ inputs' = <<ins>> /\ checked' = checked /\ failure' = failure
  <2>1. checked \in BOOLEAN /\ SealedBundle(builders, checked)
    BY <1>1 DEF BundleInv
  <2>2. first \in Nat /\ Len(fs) \in Nat /\ Len(builders) \in Nat
    <3>1. Len(builders) \in Nat \ {0} /\ DOMAIN builders = 1..Len(builders)
      BY <2>1, BundleAssumption DEF SealedBundle
    <3>2. ins \in Seq(Nat \X (1..SECURITY_LEVEL_MAX)) /\ Len(ins) \in 0..Len(ins)
      BY BundleAssumption
    <3>3. DOMAIN fs = 1..FragmentsBefore(ins, Len(ins)) /\ FragmentsBefore(ins, Len(ins)) \in Nat
      BY <3>2, FragmentsAre, FragmentsCount
    <3> HIDE DEF fs
    <3>4. Len(fs) \in Nat
      BY <3>3
    <3> QED BY <3>1, <3>4, FirstInputIn
  <2>3. first + Len(fs) - 1 <= Len(builders)
    <3> HIDE DEF first, fs
    <3> QED BY <1>3, <2>2
  <2>4. SealedBundle(signed, checked) /\ SignedBundle(signed, ins)
    BY <2>1, <2>3, SignSigns
  <2> HIDE DEF signed
  <2>5. SealedBundle(builders, checked)' /\ SignedBundle(builders', ins)
    BY <1>3, <2>4
  <2>6. inputs' # << >>
    BY <1>3
  <2> QED BY <1>3, <2>1, <2>5, <2>6 DEF BundleInv
<1> QED BY <1>1, <1>2, <1>3

LEMMA BuildKeeps ==
  ASSUME BundleInv, build
  PROVE  BundleInv'
<1> DEFINE bad == {i \in DOMAIN builders : BuildError(builders[i], checked) # "none"}
<1>1. /\ stage = "attached"
      /\ \/ \E e : Fail(e)
         \/ bad = {} /\ stage' = "built" /\ UNCHANGED <<checked, builders, failure, inputs>>
  BY DEF build
<1>2. CASE \E e : Fail(e)
  BY <1>2, FailKeeps
<1>3. CASE bad = {} /\ stage' = "built" /\ UNCHANGED <<checked, builders, failure, inputs>>
  <2>1. /\ checked \in BOOLEAN /\ SealedBundle(builders, checked)
        /\ IF inputs = << >> THEN has_no_input(builders)
           ELSE \E ins \in Inputs : inputs = <<ins>> /\ SignedBundle(builders, ins)
    BY <1>1 DEF BundleInv
  <2>2. /\ SealedBundle(builders, checked)'
        /\ (IF inputs = << >> THEN has_no_input(builders)
            ELSE \E ins \in Inputs : inputs = <<ins>> /\ SignedBundle(builders, ins))'
        /\ (\A i \in DOMAIN builders : BuildError(builders[i], checked) = "none")'
    BY <1>3, <2>1
  <2> QED BY <1>3, <2>1, <2>2 DEF BundleInv
<1> QED BY <1>1, <1>2, <1>3

(* What each stage of the bundle builder hands to the next holds in every  *)
(* state it can reach (outgoing_bundle_builder.rs: the raw, sealed, signed *)
(* and attached stages).                                                   *)
THEOREM BundleInductive == BundleSpec => []BundleInv
<1>1. BundleInit => BundleInv
  <2> SUFFICES ASSUME BundleInit PROVE BundleInv
    OBVIOUS
  <2>1. << >> \in Seq(Pushes) /\ Len(<< >>) = 0 /\ MaxPush \in Nat
    BY BundleAssumption
  <2> QED BY <2>1 DEF BundleInit, BundleInv
<1>2. BundleInv /\ [BundleNext]_bundleVars => BundleInv'
  <2> SUFFICES ASSUME BundleInv, [BundleNext]_bundleVars PROVE BundleInv'
    OBVIOUS
  <2>1. ASSUME NEW b \in Pushes, push(b) PROVE BundleInv'
    BY <2>1, PushKeeps
  <2>2. CASE seal
    BY <2>2, SealKeeps
  <2>3. CASE attach
    BY <2>3, AttachKeeps
  <2>4. ASSUME NEW ins \in Inputs, sign(ins) PROVE BundleInv'
    BY <2>4, SignKeeps
  <2>5. CASE build
    BY <2>5, BuildKeeps
  <2>6. CASE UNCHANGED bundleVars
    <3>1. /\ checked' = checked /\ stage' = stage /\ builders' = builders /\ failure' = failure
          /\ inputs' = inputs
      BY <2>6 DEF bundleVars
    <3> QED BY <3>1 DEF BundleInv
  <2> QED BY <2>1, <2>2, <2>3, <2>4, <2>5, <2>6 DEF BundleNext
<1> QED BY <1>1, <1>2, PTL DEF BundleSpec

-----------------------------------------------------------------------------
(* Sums that stay within the supply do not wrap.                           *)
LEMMA ModSmall ==
  ASSUME NEW a \in Nat, NEW b \in Nat, a < b
  PROVE  a % b = a
OBVIOUS

LEMMA WrapExact ==
  ASSUME NEW n \in Int, -I64Half <= n, n < I64Half
  PROVE  WrapI64(n) = n
<1> DEFINE a == n + I64Half
           b == 2 * I64Half
<1>1. I64Half \in Nat /\ a \in Nat /\ b \in Nat /\ a < b /\ a - I64Half = n
  BY BundleAssumption
<1>2. WrapI64(n) = (a % b) - I64Half
  BY DEF WrapI64
<1> HIDE DEF a, b
<1> QED BY <1>1, <1>2, ModSmall

WithinSupply(v) == v \in Int /\ -IOTA_SUPPLY <= v /\ v <= IOTA_SUPPLY

LEMMA AbsWithin ==
  ASSUME NEW v \in Int, -I64Half < v, v < I64Half, ~(abs(v) > IOTA_SUPPLY)
  PROVE  WithinSupply(v)
<1>1. I64Half \in Nat /\ IOTA_SUPPLY \in Nat
  BY BundleAssumption
<1>2. CASE v < 0
  <2>1. WrapI64(-v) = -v
    BY <1>1, <1>2, WrapExact
  <2>2. abs(v) = -v
    BY <1>2, <2>1 DEF abs
  <2> QED BY <1>1, <1>2, <2>2 DEF WithinSupply
<1>3. CASE ~(v < 0)
  BY <1>1, <1>3 DEF abs, WithinSupply
<1> QED BY <1>2, <1>3

(* One value added, with no error.                                         *)
LEMMA AddsExactly ==
  ASSUME NEW r \in Running, r.err = "none", WithinSupply(r.sum), NEW v, WithinSupply(v), NEW checks,
         AddValue(r, v, checks).err = "none"
  PROVE  AddValue(r, v, checks).sum = r.sum + v /\ WithinSupply(r.sum + v)
<1> DEFINE s == r.sum + v
<1>1. I64Half \in Nat /\ IOTA_SUPPLY \in Nat /\ 2 * IOTA_SUPPLY < I64Half
  BY BundleAssumption
<1>2. s \in Int /\ -I64Half < s /\ s < I64Half /\ -I64Half <= s
  BY <1>1 DEF WithinSupply
<1> HIDE DEF s
<1>3. WrapI64(s) = s
  BY <1>2, WrapExact
<1>4. AddValue(r, v, checks) = IF checks /\ (WrapI64(s) # s \/ WrapI64(s) = I64Min)
                               THEN [err |-> "panic", sum |-> 0]
                               ELSE IF abs(WrapI64(s)) > IOTA_SUPPLY THEN [err |-> "InvalidValue", sum |-> 0]
                               ELSE [err |-> "none", sum |-> WrapI64(s)]
  BY DEF AddValue, s
<1>5. ~(checks /\ (WrapI64(s) # s \/ WrapI64(s) = I64Min))
  BY <1>4
<1>6. ~(abs(s) > IOTA_SUPPLY)
  BY <1>3, <1>4, <1>5
<1>7. AddValue(r, v, checks).sum = s
  BY <1>3, <1>4, <1>5, <1>6
<1> QED BY <1>2, <1>6, <1>7, AbsWithin DEF s

(* No error at the end: none on the way.                                   *)
NoErrors(w, N) == \A k \in 0..N : w[k].err = "none"

LEMMA ErrorsStick ==
  ASSUME NEW N \in Nat, NEW vs, NEW checks, IntsTo(vs, N),
         RunningSum(vs, N, checks)[N].err = "none"
  PROVE  NoErrors(RunningSum(vs, N, checks), N)
<1> DEFINE w == RunningSum(vs, N, checks)
           S == {k \in Nat : k <= N => w[N - k].err = "none"}
<1>1. w \in [0..N -> Running] /\ \A k \in 1..N : w[k] = AddValue(w[k - 1], vs[k], checks)
  BY RunningIs DEF IntsTo
<1>2. w[N].err = "none"
  OBVIOUS
<1> HIDE DEF w
<1>3. 0 \in S
  BY <1>2
<1>4. ASSUME NEW k \in Nat, k \in S PROVE k + 1 \in S
  <2> SUFFICES ASSUME k + 1 <= N PROVE w[N - (k + 1)].err = "none"
    OBVIOUS
  <2> DEFINE m == N - k
  <2>1. m \in 1..N /\ N - (k + 1) = m - 1 /\ w[m].err = "none"
    BY <1>4
  <2> HIDE DEF m
  <2>2. w[m] = AddValue(w[m - 1], vs[m], checks)
    BY <1>1, <2>1
  <2>3. w[m - 1].err = "none"
    BY <2>1, <2>2 DEF AddValue
  <2> QED BY <2>1, <2>3
<1>5. \A k \in Nat : k \in S
  <2> SUFFICES ASSUME NEW k \in Nat PROVE k \in S
    OBVIOUS
  <2> HIDE DEF S
  <2> QED BY <1>3, <1>4, SetInduction
<1>6. ASSUME NEW k \in 0..N PROVE w[k].err = "none"
  <2>1. N - k \in Nat /\ N - k <= N /\ N - (N - k) = k
    OBVIOUS
  <2>2. N - k \in S
    BY <1>5, <2>1
  <2> QED BY <2>1, <2>2
<1> QED BY <1>6 DEF NoErrors, w

(* Without an error the running sum is the sum.                            *)
LEMMA RunsExactly ==
  ASSUME NEW N \in Nat, NEW vs, NEW checks, \A k \in 1..N : WithinSupply(vs[k]),
         RunningSum(vs, N, checks)[N].err = "none"
  PROVE  RunningSum(vs, N, checks)[N].sum = SumTo(vs, N)
<1> DEFINE w == RunningSum(vs, N, checks)
           S == {k \in Nat : k <= N => w[k].sum = SumTo(vs, k) /\ WithinSupply(w[k].sum)}
<1>0. IntsTo(vs, N)
  BY DEF IntsTo, WithinSupply
<1>1. /\ w \in [0..N -> Running] /\ w[0] = [err |-> "none", sum |-> 0]
      /\ \A k \in 1..N : w[k] = AddValue(w[k - 1], vs[k], checks)
  BY <1>0, RunningIs DEF IntsTo
<1>2. \A k \in 0..N : w[k].err = "none"
  BY <1>0, ErrorsStick DEF NoErrors
<1>3. SumsUp(vs, N)
  BY <1>0, SumToIs
<1> HIDE DEF w
<1>4. 0 \in S
  <2>1. IOTA_SUPPLY \in Nat /\ SumTo(vs, 0) = 0 /\ w[0].sum = 0
    BY <1>1, <1>3, BundleAssumption DEF SumsUp
  <2> QED BY <2>1 DEF WithinSupply
<1>5. ASSUME NEW k \in Nat, k \in S PROVE k + 1 \in S
  <2> SUFFICES ASSUME k + 1 <= N
               PROVE  w[k + 1].sum = SumTo(vs, k + 1) /\ WithinSupply(w[k + 1].sum)
    OBVIOUS
  <2>1. k + 1 \in 1..N /\ (k + 1) - 1 = k /\ k \in 0..N /\ k + 1 \in 0..N /\ k <= N
    OBVIOUS
  <2>2. w[k] \in Running /\ w[k].err = "none" /\ w[k].sum = SumTo(vs, k) /\ WithinSupply(w[k].sum)
    BY <1>1, <1>2, <1>5, <2>1
  <2>3. w[k + 1] = AddValue(w[k], vs[k + 1], checks) /\ w[k + 1].err = "none" /\ WithinSupply(vs[k + 1])
    BY <1>1, <1>2, <2>1
  <2>4. w[k + 1].sum = w[k].sum + vs[k + 1] /\ WithinSupply(w[k].sum + vs[k + 1])
    BY <2>2, <2>3, AddsExactly
  <2>5. SumTo(vs, k + 1) = SumTo(vs, k) + vs[k + 1]
    BY <1>3, <2>1 DEF SumsUp
  <2> QED BY <2>2, <2>4, <2>5
<1>6. N \in S
  <2> HIDE DEF S
  <2> QED BY <1>4, <1>5, SetInduction
<1> QED BY <1>6 DEF w

(* build takes a value out of the supply only where i64::MIN wraps.        *)
LEMMA BuiltWithin ==
  ASSUME NEW b, b["value"] \in Values, NEW checks, BuildError(b, checks) = "none",
         ~(~checks /\ b["value"] = I64Min)
  PROVE  WithinSupply(b["value"])
<1> DEFINE v == b["value"]
<1>1. I64Half \in Nat /\ v \in Int /\ -I64Half <= v /\ v < I64Half
  BY BundleAssumption DEF Values
<1>2. ~(v = I64Min /\ checks) /\ ~(abs(v) > IOTA_SUPPLY)
  BY DEF BuildError
<1> HIDE DEF v
<1>3. v # I64Min
  BY <1>2 DEF v
<1>4. -I64Half < v
  BY <1>1, <1>3 DEF I64Min
<1> QED BY <1>1, <1>2, <1>4, AbsWithin DEF v

-----------------------------------------------------------------------------
(* What the addresses of a bundle spend and receive adds up to the sum of  *)
(* the values, in whatever order the addresses are taken.                  *)
LEMMA SumOfZeros ==
  ASSUME NEW N \in Nat, NEW t, \A k \in 1..N : t[k] = 0
  PROVE  SumTo(t, N) = 0
<1> DEFINE S == {n \in Nat : n <= N => SumTo(t, n) = 0}
<1>1. SumsUp(t, N)
  <2>1. IntsTo(t, N)
    BY DEF IntsTo
  <2> QED BY <2>1, SumToIs
<1>2. 0 \in S
  BY <1>1 DEF SumsUp
<1>3. ASSUME NEW n \in Nat, n \in S PROVE n + 1 \in S
  <2> SUFFICES ASSUME n + 1 <= N PROVE SumTo(t, n + 1) = 0
    OBVIOUS
  <2>1. n + 1 \in 1..N /\ (n + 1) - 1 = n
    OBVIOUS
  <2>2. SumTo(t, n) = 0 /\ t[n + 1] = 0 /\ SumTo(t, n + 1) = SumTo(t, n) + t[n + 1]
    BY <1>1, <1>3, <2>1 DEF SumsUp
  <2> QED BY <2>2
<1>4. N \in S
  <2> HIDE DEF S
  <2> QED BY <1>2, <1>3, SetInduction
<1> QED BY <1>4

OrdersAddresses(order, m, bs, n) ==
  /\ \A k \in 1..m, l \in 1..m : order[k] = order[l] => k = l
  /\ \A i \in 1..n : bs[i]["value"] # 0 => \E k \in 1..m : order[k] = bs[i]["address"]

DiffInOrder(order, m, bs, n) == SumTo([k \in 1..m |-> SumTo(SpentOrReceived(bs, order[k]), n)], m)

LEMMA DiffAddsUp ==
  ASSUME NEW bs, NEW n \in Nat, DOMAIN bs = 1..n, IntsTo(ValuesOf(bs), n),
         NEW m \in Nat, NEW order, OrdersAddresses(order, m, bs, n)
  PROVE  DiffInOrder(order, m, bs, n) = SumTo(ValuesOf(bs), n)
<1> DEFINE vs == ValuesOf(bs)
           part(k) == SpentOrReceived(bs, order[k])
           row(j) == [k \in 1..m |-> SumTo(part(k), j)]
           S == {j \in Nat : j <= n => SumTo(row(j), m) = SumTo(vs, j)}
<1>1. \A i \in 1..n : vs[i] = bs[i]["value"] /\ vs[i] \in Int
  BY DEF ValuesOf, IntsTo
<1>2. \A k \in 1..m, i \in 1..n :
         part(k)[i] = IF bs[i]["address"] = order[k] THEN bs[i]["value"] ELSE 0
  BY DEF SpentOrReceived
<1> HIDE DEF vs, part
<1>3. SumsUp(vs, n)
  <2>1. IntsTo(vs, n)
    BY <1>1 DEF IntsTo
  <2> QED BY <2>1, SumToIs
<1>4. ASSUME NEW k \in 1..m PROVE SumsUp(part(k), n)
  <2>1. IntsTo(part(k), n)
    BY <1>1, <1>2 DEF IntsTo
  <2> QED BY <2>1, SumToIs
<1>5. \A j \in 0..n : IntsTo(row(j), m)
  BY <1>4 DEF IntsTo, SumsUp
<1>6. \A j \in 0..n, k \in 1..m : row(j)[k] = SumTo(part(k), j) /\ row(j)[k] \in Int
  BY <1>4 DEF SumsUp
<1>7. 0 \in S
  <2>1. \A k \in 1..m : row(0)[k] = 0
    BY <1>4 DEF SumsUp
  <2>2. SumTo(vs, 0) = 0
    BY <1>3 DEF SumsUp
  <2> HIDE DEF row
  <2>3. SumTo(row(0), m) = 0
    BY <2>1, SumOfZeros
  <2> QED BY <2>2, <2>3
<1> HIDE DEF row
<1>8. ASSUME NEW j \in Nat, j \in S PROVE j + 1 \in S
  <2> SUFFICES ASSUME j + 1 <= n PROVE SumTo(row(j + 1), m) = SumTo(vs, j + 1)
    OBVIOUS
  <2> DEFINE i == j + 1
             v == bs[i]["value"]
             s == row(j)
             t == row(i)
  <2>1. i \in 1..n /\ i - 1 = j /\ j \in 0..n /\ i \in 0..n
    OBVIOUS
  <2>2. SumTo(s, m) = SumTo(vs, j) /\ v \in Int
    BY <1>1, <1>8, <2>1
  <2> HIDE DEF i
  <2>3. SumTo(vs, i) = SumTo(vs, j) + v /\ SumTo(vs, j) \in Int
    BY <1>1, <1>3, <2>1 DEF SumsUp
  <2>4. ASSUME NEW k \in 1..m
        PROVE  t[k] = s[k] + (IF bs[i]["address"] = order[k] THEN v ELSE 0) /\ s[k] \in Int
    <3>1. SumTo(part(k), i) = SumTo(part(k), j) + part(k)[i]
      BY <1>4, <2>1 DEF SumsUp
    <3> QED BY <1>2, <1>6, <2>1, <3>1
  <2>5. IntsTo(s, m) /\ IntsTo(t, m)
    BY <1>5, <2>1
  <2>6. CASE v = 0
    <3>1. \A k \in 1..m : t[k] = s[k]
      BY <2>4, <2>6
    <3> HIDE DEF s, t
    <3>2. SumTo(t, m) = SumTo(s, m)
      BY <2>5, <3>1, SumSame
    <3> QED BY <2>2, <2>3, <2>6, <3>2 DEF i, t
  <2>7. CASE v # 0
    <3>1. PICK at \in 1..m : order[at] = bs[i]["address"]
      BY <2>1, <2>7 DEF OrdersAddresses
    <3>2. t[at] = s[at] + v /\ \A k \in 1..m : k # at => t[k] = s[k]
      <4>1. \A k \in 1..m : k # at => order[k] # bs[i]["address"]
        BY <3>1 DEF OrdersAddresses
      <4> HIDE DEF s, t, v
      <4> QED BY <2>4, <3>1, <4>1
    <3> HIDE DEF s, t, v
    <3>3. SumTo(t, m) = SumTo(s, m) + v
      BY <2>2, <2>5, <3>2, SumChanges
    <3> QED BY <2>2, <2>3, <3>3 DEF i, t
  <2> QED BY <2>6, <2>7
<1>9. n \in S
  <2> HIDE DEF S
  <2> QED BY <1>7, <1>8, SetInduction
<1> QED BY <1>9 DEF row, part, vs, DiffInOrder

LEMMA LedgerDiffBalances ==
  ASSUME NEW bs, NEW n \in Nat, DOMAIN bs = 1..n, Len(bs) = n,
         \A i \in 1..n : bs[i]["value"] \in Int, SumTo(ValuesOf(bs), n) = 0
  PROVE  Balanced(bs)
<1> DEFINE diff == ledger_diff(bs)
           moved == {i \in 1..n : bs[i]["value"] # 0}
           D == {bs[i]["address"] : i \in moved}
           m == Cardinality(D)
<1>1. Len(ValuesOf(bs)) = n /\ \A a : Len(SpentOrReceived(bs, a)) = n
  BY DEF ValuesOf, SpentOrReceived
<1>2. SumTrytes(ValuesOf(bs)) = 0
  BY <1>1 DEF SumTrytes
<1>3. diff = [a \in D |-> SumTo(SpentOrReceived(bs, a), n)]
  BY <1>1 DEF ledger_diff, SumTrytes
<1>4. m \in Nat
  <2>1. IsFiniteSet(moved)
    <3>1. IsFiniteSet(1..n) /\ moved \in SUBSET (1..n)
      BY FS_Interval
    <3> HIDE DEF moved
    <3> QED BY <3>1, FS_Subset
  <2> DEFINE f == [i \in moved |-> bs[i]["address"]]
  <2>2. f \in Surjection(moved, D)
    BY DEF Surjection
  <2> HIDE DEF f, moved, D
  <2>3. IsFiniteSet(D)
    BY <2>1, <2>2, FS_Surjection
  <2> QED BY <2>3, FS_CardinalityType
<1> HIDE DEF m
<1>5. ASSUME NEW order \in Bijection(1..m, D)
      PROVE  SumTo([k \in 1..m |-> diff[order[k]]], m) = 0
  <2>1. /\ order \in [1..m -> D]
        /\ \A k \in 1..m, l \in 1..m : order[k] = order[l] => k = l
        /\ \A a \in D : \E k \in 1..m : order[k] = a
    <3> HIDE DEF D
    <3> QED BY DEF Bijection, Injection, Surjection, IsInjective
  <2>2. \A k \in 1..m : order[k] \in D
    BY <2>1
  <2>3. [k \in 1..m |-> diff[order[k]]] = [k \in 1..m |-> SumTo(SpentOrReceived(bs, order[k]), n)]
    <3> HIDE DEF D, diff
    <3> QED BY <1>3, <2>2
  <2>4. OrdersAddresses(order, m, bs, n)
    BY <2>1 DEF OrdersAddresses
  <2>5. IntsTo(ValuesOf(bs), n)
    BY DEF IntsTo, ValuesOf
  <2>6. DiffInOrder(order, m, bs, n) = 0
    BY <1>4, <2>4, <2>5, DiffAddsUp
  <2> QED BY <2>3, <2>6 DEF DiffInOrder
<1>6. DOMAIN diff = D
  BY <1>3
<1> HIDE DEF diff
<1> QED BY <1>2, <1>5, <1>6 DEF Balanced, diff, m

-----------------------------------------------------------------------------
(* The signatures and the incoming builder.                                *)
LEMMA SignedVerifies ==
  ASSUME NEW bs, NEW checks, SealedBundle(bs, checks), NEW ins \in Inputs, SignedBundle(bs, ins),
         NEW j \in DOMAIN ins
  PROVE  Verifies(bs, ins, j) = (bs[Position(bs, ins, j)]["address"] = PublicKeyOf(ins[j]))
<1> DEFINE input == ins[j]
           at == Position(bs, ins, j)
           m == normalize_hash(bs[1]["bundle"])
<1>1. input \in Nat \X (1..SECURITY_LEVEL_MAX)
  BY BundleAssumption
<1>2. input = <<input[1], input[2]>> /\ input[2] \in 1..SECURITY_LEVEL_MAX /\ input[2] \in Nat
  BY <1>1, SigningAssumption
<1>3. m \in HashTrytes
  <2>1. /\ Len(bs) \in Nat /\ DOMAIN bs = 1..Len(bs) /\ bs[1]["bundle"] = Squeezed(Essences(bs))
        /\ \A i \in DOMAIN bs : essence(bs[i]) \in Essence
    BY BundleAssumption DEF SealedBundle, HashIsOfEssences
  <2>2. Len(Essences(bs)) = Len(bs) /\ \A k \in 1..Len(bs) : Essences(bs)[k] \in Essence
    BY <2>1 DEF Essences
  <2>3. Squeezed(Essences(bs)) \in HashTrytes
    BY <2>1, <2>2, SqueezedTyped
  <2> QED BY <2>1, <2>3, HashNormalized
<1>4. Carries(bs, at, input, m)
  BY DEF SignedBundle, Carries
<1> HIDE DEF input, at, m
<1>5. SignatureAt(bs, at, input[2]) = SignatureOf(input, m)
  BY <1>2, <1>4, SignatureReadBack
<1>6. wots_recover_public_key(SignatureOf(input, m), m) = PublicKeyOf(input)
  <2>1. wots_recover_public_key(SignatureOf(<<input[1], input[2]>>, m), m) = PublicKeyOf(<<input[1], input[2]>>)
    BY <1>2, <1>3, SignatureRecovers
  <2> QED BY <1>2, <2>1
<1>7. Verifies(bs, ins, j) = (wots_recover_public_key(SignatureAt(bs, at, input[2]), m) = bs[at]["address"])
  BY DEF Verifies, wots_verify, at, input, m
<1> QED BY <1>5, <1>6, <1>7 DEF at, input

LEMMA IncomingRefuses ==
  ASSUME NEW bs, NEW checks, SealedBundle(bs, checks)
  PROVE  incoming_validate(bs, checks) \in Refusals(bs)
<1> DEFINE n == Len(bs)
           err(i) == IncomingError(bs, i, checks)
           bad == {i \in 1..n : err(i) # "none"}
           w == RunningSum(ValuesOf(bs), n, checks)
<1>1. /\ n \in Nat \ {0} /\ DOMAIN bs = 1..n /\ Linked(bs) /\ w[n] = [err |-> "none", sum |-> 0]
      /\ \A i \in DOMAIN bs : essence(bs[i]) \in Essence
  BY BundleAssumption DEF SealedBundle
<1>2. IntsTo(ValuesOf(bs), n)
  <2> SUFFICES ASSUME NEW i \in 1..n PROVE ValuesOf(bs)[i] \in Int
    BY DEF IntsTo
  <2>1. essence(bs[i]) \in Essence
    BY <1>1
  <2>2. bs[i]["value"] \in Values
    BY <2>1 DEF essence, Essence
  <2> QED BY <1>1, <2>2, BundleAssumption DEF ValuesOf, Values
<1>3. \A i \in 1..n : w[i].err = "none"
  BY <1>1, <1>2, ErrorsStick DEF NoErrors
<1> HIDE DEF w
<1>4. ASSUME NEW i \in 1..n, err(i) # "none" PROVE err(i) \in Refusals(bs)
  <2>1. bs[i]["index"] = i - 1 /\ bs[i]["last_index"] = n - 1
    BY <1>1 DEF Linked
  <2>2. err(i) = IF i = 1 /\ incoming_calculate_hash(bs) # bs[1]["bundle"] THEN "InvalidBundleHash"
                 ELSE IF bs[i]["branch"] # bs[1]["branch"] THEN "InvalidBranchInconsistency" ELSE "none"
    BY <1>3, <2>1 DEF IncomingError, w
  <2> HIDE DEF err
  <2> QED BY <1>1, <1>4, <2>2 DEF Refusals
<1>5. incoming_validate_signatures(bs) = FALSE
  <2> DEFINE x == AddressOf([i \in DOMAIN << >> |-> Rehash(<< >>[i], << >>[i] + MaxTryte)])
  <2>1. incoming_validate_signatures(bs) = (x = [key |-> << >>])
    BY DEF incoming_validate_signatures, wots_verify, wots_recover_public_key
  <2>2. "digest" \in DOMAIN x
    BY DEF AddressOf, digest
  <2>3. DOMAIN [key |-> << >>] = {"key"}
    OBVIOUS
  <2> HIDE DEF x
  <2>4. x # [key |-> << >>]
    BY <2>2, <2>3
  <2> QED BY <2>1, <2>4
<1>6. incoming_validate(bs, checks) = IF n = 0 THEN "Empty" ELSE IF bad # {} THEN err(Min(bad))
                                      ELSE IF w[n].sum # 0 THEN "InvalidValue"
                                      ELSE IF ~incoming_validate_signatures(bs) THEN "InvalidSignature" ELSE "none"
  BY DEF incoming_validate, w
<1>7. CASE bad # {}
  <2>1. Min(bad) \in bad
    <3>1. bad \subseteq Nat
      BY <1>1
    <3> HIDE DEF bad
    <3> QED BY <1>7, <3>1, MinIn
  <2>2. Min(bad) \in 1..n /\ err(Min(bad)) # "none"
    BY <2>1
  <2> HIDE DEF bad, err
  <2> QED BY <1>1, <1>4, <1>6, <1>7, <2>2
<1>8. CASE bad = {}
  <2> HIDE DEF bad, err
  <2> QED BY <1>1, <1>5, <1>6, <1>8 DEF Refusals
<1> QED BY <1>7, <1>8

LEMMA InvIsSound == BundleInv => BuiltBundlesAreSound
<1> SUFFICES ASSUME BundleInv, stage = "built"
             PROVE  /\ Linked(builders)
                    /\ HashIsOfEssences(builders)
                    /\ Balanced(builders) \/ (~checked /\ \E i \in DOMAIN builders : builders[i]["value"] = I64Min)
                    /\ IF inputs = << >> THEN has_no_input(builders)
                       ELSE \A j \in DOMAIN inputs[1] :
                              Verifies(builders, inputs[1], j)
                                = (builders[Position(builders, inputs[1], j)]["address"] = PublicKeyOf(inputs[1][j]))
                    /\ incoming_validate(builders, checked) \in Refusals(builders)
  BY DEF BuiltBundlesAreSound
<1>1. /\ SealedBundle(builders, checked)
      /\ IF inputs = << >> THEN has_no_input(builders)
         ELSE \E ins \in Inputs : inputs = <<ins>> /\ SignedBundle(builders, ins)
      /\ \A i \in DOMAIN builders : BuildError(builders[i], checked) = "none"
  BY DEF BundleInv
<1>2. Linked(builders) /\ HashIsOfEssences(builders)
  BY <1>1 DEF SealedBundle
<1>3. ASSUME ~(~checked /\ \E i \in DOMAIN builders : builders[i]["value"] = I64Min)
      PROVE  Balanced(builders)
  <2> DEFINE n == Len(builders)
             vs == ValuesOf(builders)
  <2>1. /\ n \in Nat /\ DOMAIN builders = 1..n /\ \A i \in 1..n : essence(builders[i]) \in Essence
        /\ RunningSum(vs, n, checked)[n] = [err |-> "none", sum |-> 0]
    BY <1>1, BundleAssumption DEF SealedBundle
  <2>2. ASSUME NEW i \in 1..n PROVE WithinSupply(builders[i]["value"]) /\ vs[i] = builders[i]["value"]
    <3>1. essence(builders[i]) \in Essence
      BY <2>1
    <3>2. builders[i]["value"] \in Values
      BY <3>1 DEF essence, Essence
    <3>3. BuildError(builders[i], checked) = "none" /\ ~(~checked /\ builders[i]["value"] = I64Min)
      BY <1>1, <1>3, <2>1
    <3> QED BY <2>1, <3>2, <3>3, BuiltWithin DEF ValuesOf
  <2> HIDE DEF vs
  <2>3. RunningSum(vs, n, checked)[n].sum = SumTo(vs, n)
    BY <2>1, <2>2, RunsExactly
  <2>4. SumTo(vs, n) = 0
    BY <2>1, <2>3
  <2>5. \A i \in 1..n : builders[i]["value"] \in Int
    BY <2>2 DEF WithinSupply
  <2> QED BY <2>1, <2>4, <2>5, LedgerDiffBalances DEF vs
<1>4. IF inputs = << >> THEN has_no_input(builders)
      ELSE \A j \in DOMAIN inputs[1] :
             Verifies(builders, inputs[1], j)
               = (builders[Position(builders, inputs[1], j)]["address"] = PublicKeyOf(inputs[1][j]))
  <2>1. CASE inputs = << >>
    BY <1>1, <2>1
  <2>2. CASE inputs # << >>
    <3>1. PICK ins \in Inputs : inputs = <<ins>> /\ SignedBundle(builders, ins)
      BY <1>1, <2>2
    <3>2. inputs[1] = ins
      BY <3>1
    <3>3. \A j \in DOMAIN ins : Verifies(builders, ins, j)
                                  = (builders[Position(builders, ins, j)]["address"] = PublicKeyOf(ins[j]))
      BY <1>1, <3>1, SignedVerifies
    <3> QED BY <2>2, <3>2, <3>3
  <2> QED BY <2>1, <2>2
<1>5. incoming_validate(builders, checked) \in Refusals(builders)
  BY <1>1, IncomingRefuses
<1> QED BY <1>2, <1>3, <1>4, <1>5

(* Every bundle that is built is sound, for any fields pushed, any inputs  *)
(* given to sign, any hash function and any supply an i64 holds twice      *)
(* (outgoing_bundle_builder.rs: seal, sign, build; bundle.rs: ledger_diff; *)
(* incoming_bundle_builder.rs: validate).                                  *)
THEOREM BuiltBundles == BundleSpec => []BuiltBundlesAreSound
<1>1. BundleInv => BuiltBundlesAreSound
  BY InvIsSound
<1> QED BY <1>1, BundleInductive, PTL

-----------------------------------------------------------------------------
(* Milestones: MilestoneInv is inductive, and a milestone validates just   *)
(* as it was signed, for keys of any level and depth, messages of any      *)
(* length, and seeds enough for the leaves.                                *)

(* The powers of a base.                                                   *)
LEMMA PowersIs ==
  ASSUME NEW N \in Nat, NEW base \in Nat
  PROVE  /\ Powers(base, N) \in [0..N -> Nat]
         /\ Powers(base, N)[0] = 1
         /\ \A k \in 1..N : Powers(base, N)[k] = base * Powers(base, N)[k - 1]
<1> DEFINE step == [p \in Nat \X Nat |-> IF p[1] \in 1..N THEN base * p[2] ELSE p[2]]
           F(g) == [k \in 0..N |-> IF k = 0 THEN 1 ELSE base * g[k - 1]]
<1>1. 1 \in Nat /\ \A k \in 1..N, x \in Nat : base * x \in Nat
  OBVIOUS
<1>2. step \in [Nat \X Nat -> Nat]
  BY <1>1
<1>3. PICK w : Solves(w, Nat, 1, step, N)
  <2> HIDE DEF step
  <2> QED BY <1>1, <1>2, RecursionExists, Zenon
<1>4. w \in [0..N -> Nat] /\ w[0] = 1
  BY <1>3 DEF Solves
<1>5. \A k \in 1..N : w[k] = base * w[k - 1]
  <2> SUFFICES ASSUME NEW k \in 1..N PROVE w[k] = base * w[k - 1]
    OBVIOUS
  <2>1. k \in Nat /\ k - 1 \in 0..N /\ w[k - 1] \in Nat
    BY <1>4
  <2>2. w[k] = step[<<k, w[k - 1]>>]
    BY <1>3 DEF Solves
  <2> QED BY <2>1, <2>2
<1>6. w = F(w)
  <2>1. \A k \in 0..N : w[k] = F(w)[k]
    BY <1>4, <1>5
  <2> HIDE DEF F
  <2>2. F(w) = [k \in 0..N |-> F(w)[k]]
    BY DEF F
  <2> QED BY <1>4, <2>1, <2>2
<1>7. ASSUME NEW v, v = F(v) PROVE v = w
  <2>1. v[0] = w[0] /\ v = [k \in 0..N |-> v[k]]
    BY <1>4, <1>7
  <2>2. \A k \in 1..N : v[k - 1] = w[k - 1] => v[k] = w[k]
    <3> SUFFICES ASSUME NEW k \in 1..N, v[k - 1] = w[k - 1] PROVE v[k] = w[k]
      OBVIOUS
    <3>1. F(v)[k] = base * v[k - 1]
      OBVIOUS
    <3> QED BY <1>5, <1>7, <3>1
  <2> HIDE DEF F, step
  <2>3. InStep(v, w, N)
    BY <2>1, <2>2 DEF InStep
  <2>4. SameTo(v, w, N)
    BY <2>3, StepsAgree
  <2> QED BY <1>4, <2>1, <2>4 DEF SameTo
<1>8. Powers(base, N) = w
  <2>1. Powers(base, N) = CHOOSE g : g = F(g)
    BY DEF Powers
  <2> HIDE DEF F
  <2> QED BY <1>6, <1>7, <2>1
<1> HIDE DEF F, step
<1> QED BY <1>4, <1>5, <1>8

(* A number, halved again and again.                                       *)
LEMMA HalvingsIs ==
  ASSUME NEW N \in Nat, NEW x \in Nat
  PROVE  /\ Halvings(x, N) \in [0..N -> Nat]
         /\ Halvings(x, N)[0] = x
         /\ \A k \in 1..N : Halvings(x, N)[k] = Halvings(x, N)[k - 1] \div 2
<1> DEFINE step == [p \in Nat \X Nat |-> IF p[1] \in 1..N THEN p[2] \div 2 ELSE p[2]]
           F(g) == [k \in 0..N |-> IF k = 0 THEN x ELSE g[k - 1] \div 2]
<1>1. x \in Nat /\ \A k \in 1..N, y \in Nat : y \div 2 \in Nat
  OBVIOUS
<1>2. step \in [Nat \X Nat -> Nat]
  BY <1>1
<1>3. PICK w : Solves(w, Nat, x, step, N)
  <2> HIDE DEF step
  <2> QED BY <1>1, <1>2, RecursionExists, Zenon
<1>4. w \in [0..N -> Nat] /\ w[0] = x
  BY <1>3 DEF Solves
<1>5. \A k \in 1..N : w[k] = w[k - 1] \div 2
  <2> SUFFICES ASSUME NEW k \in 1..N PROVE w[k] = w[k - 1] \div 2
    OBVIOUS
  <2>1. k \in Nat /\ k - 1 \in 0..N /\ w[k - 1] \in Nat
    BY <1>4
  <2>2. w[k] = step[<<k, w[k - 1]>>]
    BY <1>3 DEF Solves
  <2> QED BY <2>1, <2>2
<1>6. w = F(w)
  <2>1. \A k \in 0..N : w[k] = F(w)[k]
    BY <1>4, <1>5
  <2> HIDE DEF F
  <2>2. F(w) = [k \in 0..N |-> F(w)[k]]
    BY DEF F
  <2> QED BY <1>4, <2>1, <2>2
<1>7. ASSUME NEW v, v = F(v) PROVE v = w
  <2>1. v[0] = w[0] /\ v = [k \in 0..N |-> v[k]]
    BY <1>4, <1>7
  <2>2. \A k \in 1..N : v[k - 1] = w[k - 1] => v[k] = w[k]
    <3> SUFFICES ASSUME NEW k \in 1..N, v[k - 1] = w[k - 1] PROVE v[k] = w[k]
      OBVIOUS
    <3>1. F(v)[k] = v[k - 1] \div 2
      OBVIOUS
    <3> QED BY <1>5, <1>7, <3>1
  <2> HIDE DEF F, step
  <2>3. InStep(v, w, N)
    BY <2>1, <2>2 DEF InStep
  <2>4. SameTo(v, w, N)
    BY <2>3, StepsAgree
  <2> QED BY <1>4, <2>1, <2>4 DEF SameTo
<1>8. Halvings(x, N) = w
  <2>1. Halvings(x, N) = CHOOSE g : g = F(g)
    BY DEF Halvings
  <2> HIDE DEF F
  <2> QED BY <1>6, <1>7, <2>1
<1> HIDE DEF F, step
<1> QED BY <1>4, <1>5, <1>8

(* The way from a node to the root.                                        *)
LEMMA PathIs ==
  ASSUME NEW N \in Nat, NEW from \in Int
  PROVE  /\ PathFrom(from, N) \in [0..N -> Int]
         /\ PathFrom(from, N)[0] = from
         /\ \A k \in 1..N : PathFrom(from, N)[k] = Parent(PathFrom(from, N)[k - 1])
<1> DEFINE step == [p \in Nat \X Int |-> IF p[1] \in 1..N THEN Parent(p[2]) ELSE p[2]]
           F(g) == [k \in 0..N |-> IF k = 0 THEN from ELSE Parent(g[k - 1])]
<1>1. from \in Int /\ \A k \in 1..N, x \in Int : Parent(x) \in Int
  BY DEF Parent
<1>2. step \in [Nat \X Int -> Int]
  BY <1>1
<1>3. PICK w : Solves(w, Int, from, step, N)
  <2> HIDE DEF step
  <2> QED BY <1>1, <1>2, RecursionExists, Zenon
<1>4. w \in [0..N -> Int] /\ w[0] = from
  BY <1>3 DEF Solves
<1>5. \A k \in 1..N : w[k] = Parent(w[k - 1])
  <2> SUFFICES ASSUME NEW k \in 1..N PROVE w[k] = Parent(w[k - 1])
    OBVIOUS
  <2>1. k \in Nat /\ k - 1 \in 0..N /\ w[k - 1] \in Int
    BY <1>4
  <2>2. w[k] = step[<<k, w[k - 1]>>]
    BY <1>3 DEF Solves
  <2> QED BY <2>1, <2>2
<1>6. w = F(w)
  <2>1. \A k \in 0..N : w[k] = F(w)[k]
    BY <1>4, <1>5
  <2> HIDE DEF F
  <2>2. F(w) = [k \in 0..N |-> F(w)[k]]
    BY DEF F
  <2> QED BY <1>4, <2>1, <2>2
<1>7. ASSUME NEW v, v = F(v) PROVE v = w
  <2>1. v[0] = w[0] /\ v = [k \in 0..N |-> v[k]]
    BY <1>4, <1>7
  <2>2. \A k \in 1..N : v[k - 1] = w[k - 1] => v[k] = w[k]
    <3> SUFFICES ASSUME NEW k \in 1..N, v[k - 1] = w[k - 1] PROVE v[k] = w[k]
      OBVIOUS
    <3>1. F(v)[k] = Parent(v[k - 1])
      OBVIOUS
    <3> QED BY <1>5, <1>7, <3>1
  <2> HIDE DEF F, step
  <2>3. InStep(v, w, N)
    BY <2>1, <2>2 DEF InStep
  <2>4. SameTo(v, w, N)
    BY <2>3, StepsAgree
  <2> QED BY <1>4, <2>1, <2>4 DEF SameTo
<1>8. PathFrom(from, N) = w
  <2>1. PathFrom(from, N) = CHOOSE g : g = F(g)
    BY DEF PathFrom
  <2> HIDE DEF F
  <2> QED BY <1>6, <1>7, <2>1
<1> HIDE DEF F, step
<1> QED BY <1>4, <1>5, <1>8

Doubling(base, N) ==
  /\ Power(base, 0) = 1
  /\ \A n \in 0..N : Power(base, n) \in Nat
  /\ \A n \in 1..N : Power(base, n) = base * Power(base, n - 1)

LEMMA PowerIs ==
  ASSUME NEW N \in Nat, NEW base \in Nat
  PROVE  Doubling(base, N)
<1> DEFINE w == Powers(base, N)
<1>1. w \in [0..N -> Nat] /\ w[0] = 1 /\ \A k \in 1..N : w[k] = base * w[k - 1]
  BY PowersIs
<1> HIDE DEF w
<1>2. ASSUME NEW n \in 0..N PROVE Power(base, n) = w[n]
  <2> DEFINE v == Powers(base, n)
  <2>1. n \in Nat /\ n \in 0..n
    OBVIOUS
  <2>2. v[0] = 1 /\ \A k \in 1..n : v[k] = base * v[k - 1]
    BY <2>1, PowersIs
  <2> HIDE DEF v
  <2>3. InStep(v, w, n)
    <3>1. \A k \in 1..n : k \in 1..N
      BY <2>1
    <3> QED BY <1>1, <2>2, <3>1 DEF InStep
  <2>4. SameTo(v, w, n)
    BY <2>1, <2>3, StepsAgree
  <2> QED BY <2>1, <2>4 DEF SameTo, Power, v
<1>3. ASSUME NEW n \in 1..N PROVE Power(base, n) = base * Power(base, n - 1)
  <2>1. n \in 0..N /\ n - 1 \in 0..N
    OBVIOUS
  <2> QED BY <1>1, <1>2, <2>1
<1> QED BY <1>1, <1>2, <1>3 DEF Doubling

LEMMA PowerZero == ASSUME NEW base \in Nat PROVE Power(base, 0) = 1
BY PowerIs DEF Doubling

LEMMA PowerStep ==
  ASSUME NEW base \in Nat, NEW n \in Nat
  PROVE  Power(base, n) \in Nat /\ Power(base, n + 1) = base * Power(base, n)
<1>1. n \in 0..(n + 1) /\ n + 1 \in 1..(n + 1) /\ (n + 1) - 1 = n /\ n + 1 \in Nat
  OBVIOUS
<1>2. Doubling(base, n + 1)
  BY <1>1, PowerIs
<1> QED BY <1>1, <1>2 DEF Doubling

LEMMA PowerPositive ==
  ASSUME NEW base \in Nat \ {0}, NEW n \in Nat
  PROVE  Power(base, n) \in Nat /\ Power(base, n) > 0
<1> DEFINE S == {k \in Nat : Power(base, k) > 0}
<1>1. 0 \in S
  BY PowerZero
<1>2. ASSUME NEW k \in Nat, k \in S PROVE k + 1 \in S
  <2>1. Power(base, k) \in Nat /\ Power(base, k) > 0 /\ Power(base, k + 1) = base * Power(base, k)
    BY <1>2, PowerStep
  <2>2. \A p \in Nat : p > 0 => base * p > 0
    OBVIOUS
  <2> QED BY <2>1, <2>2
<1>3. n \in S
  <2> HIDE DEF S
  <2> QED BY <1>1, <1>2, SetInduction
<1> QED BY <1>3, PowerStep

LEMMA PowerAdds ==
  ASSUME NEW base \in Nat, NEW m \in Nat, NEW n \in Nat
  PROVE  Power(base, m + n) = Power(base, m) * Power(base, n)
<1> DEFINE S == {k \in Nat : Power(base, m + k) = Power(base, m) * Power(base, k)}
<1>1. 0 \in S
  <2>1. Power(base, 0) = 1 /\ Power(base, m) \in Nat /\ m + 0 = m
    BY PowerZero, PowerStep
  <2> QED BY <2>1
<1>2. ASSUME NEW k \in Nat, k \in S PROVE k + 1 \in S
  <2>1. m + (k + 1) = (m + k) + 1 /\ m + k \in Nat
    OBVIOUS
  <2>2. Power(base, (m + k) + 1) = base * Power(base, m + k)
    BY <2>1, PowerStep
  <2>3. Power(base, k + 1) = base * Power(base, k) /\ Power(base, k) \in Nat /\ Power(base, m) \in Nat
    BY PowerStep
  <2>4. Power(base, m + k) = Power(base, m) * Power(base, k)
    BY <1>2
  <2>5. \A p, q \in Nat : base * (p * q) = p * (base * q)
    OBVIOUS
  <2> QED BY <2>1, <2>2, <2>3, <2>4, <2>5
<1>3. n \in S
  <2> HIDE DEF S
  <2> QED BY <1>1, <1>2, SetInduction
<1> QED BY <1>3

(* 1 << n grows with n.                                                    *)
LEMMA PowerGrows ==
  ASSUME NEW m \in Nat, NEW n \in Nat, m <= n
  PROVE  Power(2, m) <= Power(2, n)
<1>1. n - m \in Nat /\ m + (n - m) = n
  OBVIOUS
<1>2. Power(2, n) = Power(2, m) * Power(2, n - m)
  BY <1>1, PowerAdds
<1>3. Power(2, n - m) \in Nat /\ Power(2, n - m) > 0 /\ Power(2, m) \in Nat
  <2>1. 2 \in Nat \ {0} /\ 2 \in Nat
    OBVIOUS
  <2>2. Power(2, n - m) \in Nat /\ Power(2, n - m) > 0
    BY <1>1, <2>1, PowerPositive
  <2>3. Power(2, m) \in Nat
    BY <2>1, PowerStep
  <2> QED BY <2>2, <2>3
<1>4. \A p, q \in Nat : q > 0 => p <= p * q
  <2> SUFFICES ASSUME NEW p \in Nat, NEW q \in Nat, q > 0 PROVE p <= p * q
    OBVIOUS
  <2>1. q - 1 \in Nat /\ p * ((q - 1) + 1) = p * (q - 1) + p /\ p * (q - 1) \in Nat
    OBVIOUS
  <2> QED BY <2>1
<1> QED BY <1>2, <1>3, <1>4

-----------------------------------------------------------------------------
(* Remainders.                                                             *)
LEMMA DivModIs ==
  ASSUME NEW p \in Nat \ {0}, NEW y \in Int
  PROVE  y \div p \in Int /\ y % p \in 0..(p - 1) /\ y = p * (y \div p) + (y % p)
<1>1. y \div p \in Int
  OBVIOUS
<1>2. y % p \in 0..(p - 1)
  OBVIOUS
<1>3. p \in Nat /\ p > 0
  OBVIOUS
<1>4. y = p * (y \div p) + (y % p)
  BY <1>3
<1> QED BY <1>1, <1>2, <1>4

LEMMA ModIs ==
  ASSUME NEW p \in Nat \ {0}, NEW q \in Int, NEW r \in 0..(p - 1)
  PROVE  (p * q + r) % p = r
<1> DEFINE a == p * q + r
           e == a \div p
           s == a % p
<1>1. a \in Int
  OBVIOUS
<1>2. e \in Int /\ s \in 0..(p - 1) /\ a = p * e + s
  <2> HIDE DEF a
  <2> QED BY <1>1
<1>3. p * q + r = p * e + s
  BY <1>2
<1> HIDE DEF a, e, s
<1>4. p * (q - e) = s - r
  BY <1>2, <1>3
<1>5. q - e = 0
  <2>1. CASE q - e >= 1
    <3>1. (q - e) - 1 \in Nat /\ p * (((q - e) - 1) + 1) = p * ((q - e) - 1) + p /\ p * ((q - e) - 1) \in Nat
      BY <1>2, <2>1
    <3> QED BY <1>2, <1>4, <3>1
  <2>2. CASE q - e <= -1
    <3>1. /\ (e - q) - 1 \in Nat /\ p * (((e - q) - 1) + 1) = p * ((e - q) - 1) + p
          /\ p * ((e - q) - 1) \in Nat
      BY <1>2, <2>2
    <3>2. p * (e - q) = r - s
      BY <1>2, <1>3
    <3> QED BY <1>2, <3>1, <3>2
  <2> QED BY <1>2, <2>1, <2>2
<1>6. s = r
  BY <1>2, <1>4, <1>5
<1> QED BY <1>6 DEF a, s

LEMMA ModOfMod ==
  ASSUME NEW p \in Nat \ {0}, NEW m \in Nat \ {0}, NEW x \in Int
  PROVE  (x % (p * m)) % p = x % p
<1> DEFINE n == p * m
           i == x % n
           q == x \div n
           r == i % p
           e == i \div p
<1>1. n \in Nat \ {0}
  OBVIOUS
<1>2. q \in Int /\ i \in Nat /\ x = n * q + i
  <2> HIDE DEF n
  <2> QED BY <1>1
<1>3. e \in Int /\ r \in 0..(p - 1) /\ i = p * e + r
  <2>1. i \in Int
    BY <1>2
  <2> HIDE DEF i
  <2> QED BY <2>1, DivModIs
<1>4. x = p * (m * q + e) + r /\ m * q + e \in Int
  <2> HIDE DEF q, i, r, e
  <2> QED BY <1>2, <1>3
<1> HIDE DEF q, e, r
<1>5. x % p = r
  BY <1>3, <1>4, ModIs
<1> QED BY <1>5 DEF r, i, n

-----------------------------------------------------------------------------
(* The bits of a number.                                                   *)
Halved(x, k) == Halvings(x, k)[k]

LEMMA HalfIs ==
  ASSUME NEW x \in Nat
  PROVE  Halved(x, 0) = x
<1>1. Halvings(x, 0)[0] = x
  BY HalvingsIs
<1> QED BY <1>1 DEF Halved

LEMMA HalfStep ==
  ASSUME NEW x \in Nat, NEW n \in Nat
  PROVE  Halved(x, n) \in Nat /\ Halved(x, n + 1) = Halved(x, n) \div 2
<1> DEFINE v == Halvings(x, n + 1)
           w == Halvings(x, n)
<1>1. v[0] = x /\ \A k \in 1..(n + 1) : v[k] = v[k - 1] \div 2
  BY HalvingsIs
<1>2. w \in [0..n -> Nat] /\ w[0] = x /\ \A k \in 1..n : w[k] = w[k - 1] \div 2
  BY HalvingsIs
<1>3. Halved(x, n + 1) = v[n + 1] /\ Halved(x, n) = w[n]
  BY DEF Halved
<1> HIDE DEF v, w
<1>4. InStep(v, w, n)
  BY <1>1, <1>2 DEF InStep
<1>5. v[n] = w[n]
  <2>1. SameTo(v, w, n)
    BY <1>4, StepsAgree
  <2> QED BY <2>1 DEF SameTo
<1>6. v[n + 1] = v[n] \div 2
  <2>1. n + 1 \in 1..(n + 1) /\ (n + 1) - 1 = n
    OBVIOUS
  <2> QED BY <1>1, <2>1
<1>7. w[n] \in Nat
  <2>1. n \in 0..n
    OBVIOUS
  <2> QED BY <1>2, <2>1
<1> QED BY <1>3, <1>5, <1>6, <1>7

(* What is cut off by halving k times is the remainder by 1 << k.          *)
Low(x, k) == x - Power(2, k) * Halved(x, k)

LEMMA LowStep ==
  ASSUME NEW x \in Nat, NEW k \in Nat
  PROVE  /\ Low(x, k) \in Int /\ IndexBit(x, k) \in {0, 1}
         /\ Low(x, k + 1) = Low(x, k) + Power(2, k) * IndexBit(x, k)
<1> DEFINE p == Power(2, k)
           h == Halved(x, k)
           b == IndexBit(x, k)
           d == Halved(x, k + 1)
<1>1. p \in Nat /\ Power(2, k + 1) = 2 * p
  BY PowerStep
<1>2. h \in Nat /\ d = h \div 2
  BY HalfStep
<1>3. b = h % 2
  BY DEF IndexBit, Halved
<1> HIDE DEF p, h, b, d
<1>4. b \in {0, 1} /\ h = 2 * d + b /\ d \in Nat
  BY <1>2, <1>3
<1>5. Low(x, k) = x - p * h /\ Low(x, k + 1) = x - (2 * p) * d
  BY <1>1 DEF Low, p, h, d
<1>6. p * h = (2 * p) * d + p * b /\ p * h \in Nat /\ (2 * p) * d \in Nat /\ p * b \in Nat
  BY <1>1, <1>4
<1>7. Low(x, k) \in Int /\ b \in {0, 1} /\ Low(x, k + 1) = Low(x, k) + p * b
  BY <1>4, <1>5, <1>6
<1> QED BY <1>7 DEF p, b

LEMMA LowRange ==
  ASSUME NEW x \in Nat, NEW n \in Nat
  PROVE  Low(x, n) \in 0..(Power(2, n) - 1)
<1> DEFINE S == {k \in Nat : Low(x, k) \in 0..(Power(2, k) - 1)}
<1>1. 0 \in S
  <2>1. Power(2, 0) = 1 /\ Halved(x, 0) = x
    BY PowerZero, HalfIs
  <2> QED BY <2>1 DEF Low
<1>2. ASSUME NEW k \in Nat, k \in S PROVE k + 1 \in S
  <2>1. Power(2, k) \in Nat /\ Power(2, k + 1) = 2 * Power(2, k)
    BY PowerStep
  <2>2. IndexBit(x, k) \in {0, 1} /\ Low(x, k + 1) = Low(x, k) + Power(2, k) * IndexBit(x, k)
    BY LowStep
  <2>3. Power(2, k) * IndexBit(x, k) \in {0, Power(2, k)}
    BY <2>1, <2>2
  <2>4. Low(x, k) \in 0..(Power(2, k) - 1)
    BY <1>2
  <2>5. Low(x, k + 1) \in 0..(2 * Power(2, k) - 1)
    BY <2>1, <2>2, <2>3, <2>4
  <2> QED BY <2>1, <2>5
<1>3. n \in S
  <2> HIDE DEF S
  <2> QED BY <1>1, <1>2, SetInduction
<1> QED BY <1>3

LEMMA LowIsMod ==
  ASSUME NEW x \in Nat, NEW n \in Nat
  PROVE  x % Power(2, n) = Low(x, n)
<1> DEFINE p == Power(2, n)
           q == Halved(x, n)
           r == Low(x, n)
<1>1. p \in Nat \ {0}
  <2>1. 2 \in Nat \ {0}
    OBVIOUS
  <2> QED BY <2>1, PowerPositive
<1>2. q \in Nat /\ r \in 0..(p - 1)
  BY HalfStep, LowRange
<1>3. r = x - p * q
  BY DEF Low
<1> HIDE DEF p, q, r
<1>4. x = p * q + r
  BY <1>1, <1>2, <1>3
<1>5. (p * q + r) % p = r
  BY <1>1, <1>2, ModIs
<1> QED BY <1>4, <1>5 DEF p, r

(* Numbers agree in their low bits as far as their remainders do.          *)
SameBits(x, y, n) == \A i \in 0..(n - 1) : IndexBit(x, i) = IndexBit(y, i)

LEMMA BitsAreMod ==
  ASSUME NEW x \in Nat, NEW y \in Nat, NEW n \in Nat
  PROVE  SameBits(x, y, n) <=> x % Power(2, n) = y % Power(2, n)
<1> DEFINE S == {k \in Nat : SameBits(x, y, k) <=> Low(x, k) = Low(y, k)}
<1>1. 0 \in S
  <2>1. Power(2, 0) = 1 /\ Halved(x, 0) = x /\ Halved(y, 0) = y
    BY PowerZero, HalfIs
  <2> QED BY <2>1 DEF Low, SameBits
<1>2. ASSUME NEW k \in Nat, k \in S PROVE k + 1 \in S
  <2> DEFINE p == Power(2, k)
  <2>1. p \in Nat
    BY PowerStep
  <2>2. /\ IndexBit(x, k) \in {0, 1} /\ Low(x, k + 1) = Low(x, k) + p * IndexBit(x, k)
        /\ IndexBit(y, k) \in {0, 1} /\ Low(y, k + 1) = Low(y, k) + p * IndexBit(y, k)
    BY LowStep
  <2>3. Low(x, k) \in 0..(p - 1) /\ Low(y, k) \in 0..(p - 1)
    BY LowRange
  <2>4. SameBits(x, y, k) <=> Low(x, k) = Low(y, k)
    BY <1>2
  <2>5. SameBits(x, y, k + 1) <=> SameBits(x, y, k) /\ IndexBit(x, k) = IndexBit(y, k)
    BY DEF SameBits
  <2> HIDE DEF p
  <2>6. /\ p * IndexBit(x, k) = IF IndexBit(x, k) = 0 THEN 0 ELSE p
        /\ p * IndexBit(y, k) = IF IndexBit(y, k) = 0 THEN 0 ELSE p
    BY <2>1, <2>2
  <2>7. Low(x, k + 1) = Low(y, k + 1) <=> Low(x, k) = Low(y, k) /\ IndexBit(x, k) = IndexBit(y, k)
    BY <2>1, <2>2, <2>3, <2>6
  <2> QED BY <2>4, <2>5, <2>7
<1>3. n \in S
  <2> HIDE DEF S
  <2> QED BY <1>1, <1>2, SetInduction
<1> QED BY <1>3, LowIsMod

-----------------------------------------------------------------------------
(* Hashes are equal only if the same went into them.  An atom is a hash    *)
(* that is not the hash of one hash: a chain of hashes starts from one.    *)
LEMMA DigestInjective ==
  ASSUME NEW a, NEW b, digest(a) = digest(b)
  PROVE  a = b
<1>1. digest(a).digest = a /\ digest(b).digest = b
  BY DEF digest
<1> QED BY <1>1

Atom(c) == \A x : c # digest(<<x>>)

LEMMA PairIsAtom == ASSUME NEW a, NEW b PROVE Atom(digest(<<a, b>>))
<1> SUFFICES ASSUME NEW x, digest(<<a, b>>) = digest(<<x>>) PROVE FALSE
  BY DEF Atom
<1>1. <<a, b>> = <<x>>
  BY DigestInjective
<1>2. Len(<<a, b>>) = 2 /\ Len(<<x>>) = 1
  OBVIOUS
<1> QED BY <1>1, <1>2

LEMMA ChainsMeet ==
  ASSUME NEW c, NEW e, Atom(c), Atom(e), NEW m \in Nat, NEW n \in Nat, Rehash(c, m) = Rehash(e, n)
  PROVE  c = e /\ m = n
<1> DEFINE S == {k \in Nat : \A j \in Nat : Rehash(c, k) = Rehash(e, j) => c = e /\ k = j}
<1>1. ASSUME NEW a, Atom(a), NEW b, NEW j \in Nat, a = Rehash(b, j) PROVE j = 0
  <2> SUFFICES ASSUME j # 0 PROVE FALSE
    OBVIOUS
  <2>1. j - 1 \in Nat /\ (j - 1) + 1 = j
    OBVIOUS
  <2>2. Rehash(b, (j - 1) + 1) = digest(<<Rehash(b, j - 1)>>)
    BY <2>1, RehashStep
  <2> QED BY <1>1, <2>1, <2>2 DEF Atom
<1>2. 0 \in S
  <2> SUFFICES ASSUME NEW j \in Nat, Rehash(c, 0) = Rehash(e, j) PROVE c = e /\ 0 = j
    OBVIOUS
  <2>1. Rehash(c, 0) = c /\ Rehash(e, 0) = e
    BY RehashZero
  <2>2. j = 0
    BY <1>1, <2>1
  <2> QED BY <2>1, <2>2
<1>3. ASSUME NEW k \in Nat, k \in S PROVE k + 1 \in S
  <2> SUFFICES ASSUME NEW j \in Nat, Rehash(c, k + 1) = Rehash(e, j) PROVE c = e /\ k + 1 = j
    OBVIOUS
  <2>0. j # 0
    <3> SUFFICES ASSUME j = 0 PROVE FALSE
      OBVIOUS
    <3>1. Rehash(e, 0) = e
      BY RehashZero
    <3>2. e = Rehash(c, k + 1) /\ k + 1 \in Nat
      BY <3>1
    <3>3. k + 1 = 0
      BY <1>1, <3>2
    <3> QED BY <3>3
  <2>1. j - 1 \in Nat /\ (j - 1) + 1 = j
    BY <2>0
  <2>2. Rehash(e, (j - 1) + 1) = digest(<<Rehash(e, j - 1)>>) /\ Rehash(c, k + 1) = digest(<<Rehash(c, k)>>)
    BY <2>1, RehashStep
  <2>3. <<Rehash(e, j - 1)>> = <<Rehash(c, k)>>
    BY <2>1, <2>2, DigestInjective
  <2>4. Rehash(c, k) = Rehash(e, j - 1)
    BY <2>3
  <2>5. c = e /\ k = j - 1
    BY <1>3, <2>1, <2>4
  <2> QED BY <2>1, <2>5
<1>4. m \in S
  <2> HIDE DEF S
  <2> QED BY <1>2, <1>3, SetInduction
<1> QED BY <1>4

(* An address is that of its chunks, and of no others.                     *)
Chunks(a, n) == n \in Nat \ {0} /\ Len(a) = n * FragmentLen /\ a = [i \in 1..(n * FragmentLen) |-> a[i]]

LEMMA CountFragments ==
  ASSUME NEW n \in Nat
  PROVE  (n * FragmentLen) \div FragmentLen = n
<1> DEFINE L == FragmentLen
           y == n * L
           q == y \div L
           r == y % L
<1>1. L \in Nat \ {0}
  BY SigningAssumption
<1>2. y \in Int /\ y = L * n + 0 /\ 0 \in 0..(L - 1) /\ n \in Int
  BY <1>1
<1>3. (L * n + 0) % L = 0
  <2> HIDE DEF L
  <2>1. 0 \in 0..(L - 1) /\ n \in Int
    BY <1>1
  <2> QED BY <1>1, <2>1, ModIs
<1>4. q \in Int /\ y = L * q + r
  <2> HIDE DEF L, y
  <2> QED BY <1>1, <1>2, DivModIs
<1>5. r = 0
  <2> HIDE DEF L
  <2> QED BY <1>2, <1>3
<1> HIDE DEF q, r, L
<1>6. L * q = L * n
  BY <1>1, <1>2, <1>4, <1>5
<1>7. q = n
  BY <1>1, <1>4, <1>6
<1> QED BY <1>7 DEF q, L

LEMMA AddressIs ==
  ASSUME NEW a, NEW n, Chunks(a, n)
  PROVE  AddressOf(a) = digest([f \in 1..n |-> digest(Fragment(a, f))])
<1>1. Len(a) \div FragmentLen = n
  BY CountFragments DEF Chunks
<1> QED BY <1>1 DEF AddressOf

LEMMA AddressInjective ==
  ASSUME NEW a, NEW b, NEW n, Chunks(a, n), Chunks(b, n), AddressOf(a) = AddressOf(b)
  PROVE  a = b
<1> DEFINE A == [f \in 1..n |-> digest(Fragment(a, f))]
           B == [f \in 1..n |-> digest(Fragment(b, f))]
<1>1. A = B
  <2>1. AddressOf(a) = digest(A) /\ AddressOf(b) = digest(B)
    BY AddressIs
  <2> HIDE DEF A, B
  <2> QED BY <2>1, DigestInjective
<1>2. ASSUME NEW f \in 1..n PROVE Fragment(a, f) = Fragment(b, f)
  <2>1. A[f] = digest(Fragment(a, f)) /\ B[f] = digest(Fragment(b, f))
    OBVIOUS
  <2> HIDE DEF A, B
  <2> QED BY <1>1, <2>1, DigestInjective
<1> HIDE DEF A, B
<1>3. ASSUME NEW i \in 1..(n * FragmentLen) PROVE a[i] = b[i]
  <2> DEFINE f == FragmentOf(i)
             m == PlaceIn(i)
             at == (f - 1) * FragmentLen + m
  <2>1. n \in Nat
    BY DEF Chunks
  <2>2. f \in 1..n /\ m \in 1..FragmentLen /\ at = i
    BY <2>1, FragmentHas DEF InFragment
  <2>3. f \in Nat \ {0}
    BY <2>1, <2>2
  <2> HIDE DEF f, m
  <2>4. /\ Fragment(a, f) = [k \in 1..FragmentLen |-> a[(f - 1) * FragmentLen + k]]
        /\ Fragment(b, f) = [k \in 1..FragmentLen |-> b[(f - 1) * FragmentLen + k]]
    BY <2>3, FragmentIs
  <2>5. Fragment(a, f)[m] = a[at] /\ Fragment(b, f)[m] = b[at]
    BY <2>2, <2>4
  <2>6. Fragment(a, f) = Fragment(b, f)
    BY <1>2, <2>2
  <2> HIDE DEF at
  <2> QED BY <2>2, <2>5, <2>6
<1>4. a = [i \in 1..(n * FragmentLen) |-> a[i]] /\ b = [i \in 1..(n * FragmentLen) |-> b[i]]
  BY DEF Chunks
<1> QED BY <1>3, <1>4

-----------------------------------------------------------------------------
(* Adding one, trit by trit, counts through all sequences of trits.        *)
TritsOf(n) == [1..n -> {-1, 0, 1}]
Weighted(t) == [i \in DOMAIN t |-> (t[i] + 1) * Power(3, i - 1)]
Ordinal(t, k) == SumTo(Weighted(t), k)

LEMMA OrdinalIs ==
  ASSUME NEW n \in Nat, NEW t \in TritsOf(n)
  PROVE  /\ Ordinal(t, 0) = 0
         /\ \A k \in 0..n : Ordinal(t, k) \in Int
         /\ \A k \in Nat : k + 1 <= n => Ordinal(t, k + 1) = Ordinal(t, k) + (t[k + 1] + 1) * Power(3, k)
<1> DEFINE w == Weighted(t)
<1>1. DOMAIN t = 1..n /\ \A i \in 1..n : t[i] \in {-1, 0, 1}
  BY DEF TritsOf
<1>2. \A i \in 1..n : w[i] = (t[i] + 1) * Power(3, i - 1)
  BY <1>1 DEF Weighted
<1>3. IntsTo(w, n)
  <2> SUFFICES ASSUME NEW i \in 1..n PROVE w[i] \in Int
    BY DEF IntsTo
  <2>1. i - 1 \in Nat
    OBVIOUS
  <2>2. Power(3, i - 1) \in Nat
    BY <2>1, PowerStep
  <2> HIDE DEF w
  <2> QED BY <1>1, <1>2, <2>2
<1> HIDE DEF w
<1>4. SumsUp(w, n)
  BY <1>3, SumToIs
<1>5. ASSUME NEW k \in Nat, k + 1 <= n
      PROVE  SumTo(w, k + 1) = SumTo(w, k) + (t[k + 1] + 1) * Power(3, k)
  <2>1. k + 1 \in 1..n /\ (k + 1) - 1 = k
    BY <1>5
  <2> QED BY <1>2, <1>4, <2>1 DEF SumsUp
<1> QED BY <1>4, <1>5 DEF Ordinal, SumsUp, w

Carried(t, stop, n) ==
  /\ stop \in 1..(n + 1)
  /\ \A i \in 1..n : i < stop => t[i] = 1 /\ Increment(t)[i] = -1
  /\ \A i \in 1..n : i = stop => t[i] \in {-1, 0} /\ Increment(t)[i] = t[i] + 1
  /\ \A i \in 1..n : i > stop => Increment(t)[i] = t[i]

LEMMA IncrementCarries ==
  ASSUME NEW n \in Nat, NEW t \in TritsOf(n)
  PROVE  Increment(t) \in TritsOf(n) /\ \E stop : Carried(t, stop, n)
<1> DEFINE free == {i \in DOMAIN t : checked_increment(t[i]) = "Some"}
           stop == IF free = {} THEN Len(t) + 1 ELSE Min(free)
<1>1. DOMAIN t = 1..n /\ Len(t) = n /\ \A i \in 1..n : t[i] \in {-1, 0, 1}
  BY DEF TritsOf
<1>2. free = {i \in 1..n : t[i] # 1}
  BY <1>1 DEF checked_increment
<1>3. Increment(t) = [i \in 1..n |-> IF i < stop THEN -1 ELSE IF i = stop THEN t[i] + 1 ELSE t[i]]
  BY <1>1 DEF Increment
<1>4. stop \in 1..(n + 1) /\ \A i \in 1..n : (i < stop => t[i] = 1) /\ (i = stop => t[i] # 1)
  <2>1. CASE free = {}
    <3>1. stop = n + 1
      BY <1>1, <2>1
    <3>2. \A i \in 1..n : t[i] = 1
      BY <1>2, <2>1
    <3> HIDE DEF stop, free
    <3> QED BY <3>1, <3>2
  <2>2. CASE free # {}
    <3>1. stop = Min(free)
      BY <2>2
    <3>2. free \subseteq Nat
      BY <1>2
    <3> HIDE DEF stop, free
    <3>3. stop \in free /\ \A y \in free : stop <= y
      BY <2>2, <3>1, <3>2, MinIn
    <3>4. stop \in 1..n /\ t[stop] # 1
      BY <1>2, <3>3
    <3>5. \A i \in 1..n : i < stop => t[i] = 1
      BY <1>2, <3>3, <3>4
    <3> QED BY <3>4, <3>5
  <2> QED BY <2>1, <2>2
<1> HIDE DEF stop, free
<1>5. Carried(t, stop, n)
  BY <1>1, <1>3, <1>4 DEF Carried
<1>6. Increment(t) \in TritsOf(n)
  BY <1>1, <1>3, <1>4 DEF TritsOf
<1> QED BY <1>5, <1>6

Counts(t, u, k, stop) ==
  /\ Ordinal(t, k) \in 0..(Power(3, k) - 1)
  /\ IF k < stop THEN Ordinal(t, k) = Power(3, k) - 1 /\ Ordinal(u, k) = 0
     ELSE Ordinal(u, k) = Ordinal(t, k) + 1

LEMMA IncrementCounts ==
  ASSUME NEW n \in Nat, NEW t \in TritsOf(n), NEW stop, Carried(t, stop, n)
  PROVE  Counts(t, Increment(t), n, stop)
<1> DEFINE u == Increment(t)
           S == {k \in Nat : k <= n => Counts(t, u, k, stop)}
<1>0. u \in TritsOf(n)
  BY IncrementCarries
<1>1. stop \in 1..(n + 1) /\ \A i \in 1..n : t[i] \in {-1, 0, 1}
  BY DEF Carried, TritsOf
<1>2. /\ \A i \in 1..n : i < stop => t[i] = 1 /\ u[i] = -1
      /\ \A i \in 1..n : i = stop => t[i] \in {-1, 0} /\ u[i] = t[i] + 1
      /\ \A i \in 1..n : i > stop => u[i] = t[i]
  BY DEF Carried
<1> HIDE DEF u
<1>3. 0 \in S
  <2>1. Ordinal(t, 0) = 0 /\ Ordinal(u, 0) = 0 /\ Power(3, 0) = 1
    BY <1>0, OrdinalIs, PowerZero
  <2> QED BY <1>1, <2>1 DEF Counts
<1>4. ASSUME NEW k \in Nat, k \in S PROVE k + 1 \in S
  <2> SUFFICES ASSUME k + 1 <= n PROVE Counts(t, u, k + 1, stop)
    OBVIOUS
  <2> DEFINE p == Power(3, k)
             j == k + 1
             a == Ordinal(t, k)
             b == Ordinal(u, k)
  <2>1. Counts(t, u, k, stop)
    BY <1>4
  <2>2. p \in Nat /\ Power(3, j) = 3 * p
    BY PowerStep
  <2>3. Ordinal(t, j) = a + (t[j] + 1) * p /\ Ordinal(u, j) = b + (u[j] + 1) * p
    BY <1>0, OrdinalIs
  <2>4. j \in 1..n
    OBVIOUS
  <2>5. a \in 0..(p - 1) /\ IF k < stop THEN a = p - 1 /\ b = 0 ELSE b = a + 1
    BY <2>1 DEF Counts
  <2>6. k < stop <=> j <= stop
    BY <1>1
  <2>7. t[j] \in {-1, 0, 1} /\ (t[j] + 1) * p = (IF t[j] = -1 THEN 0 ELSE IF t[j] = 0 THEN p ELSE 2 * p)
    BY <1>1, <2>2, <2>4
  <2> HIDE DEF p, j, a, b
  <2>8. CASE j < stop
    <3>1. t[j] = 1 /\ u[j] = -1
      BY <1>2, <2>4, <2>8
    <3>2. (u[j] + 1) * p = 0
      BY <2>2, <3>1
    <3>3. a = p - 1 /\ b = 0
      BY <1>1, <2>4, <2>5, <2>6, <2>8
    <3>4. Ordinal(t, j) = 3 * p - 1 /\ Ordinal(u, j) = 0
      BY <2>2, <2>3, <2>7, <3>1, <3>2, <3>3
    <3>5. Counts(t, u, j, stop)
      BY <2>2, <2>5, <2>8, <3>4 DEF Counts
    <3> QED BY <3>5 DEF j
  <2>9. CASE j = stop
    <3>1. t[j] \in {-1, 0} /\ u[j] = t[j] + 1
      BY <1>2, <2>4, <2>9
    <3>2. (u[j] + 1) * p = (t[j] + 1) * p + p
      <4>1. \A x \in {-1, 0} : (x + 1 + 1) * p = (x + 1) * p + p
        BY <2>2
      <4> QED BY <3>1, <4>1
    <3>3. a = p - 1 /\ b = 0
      BY <1>1, <2>4, <2>5, <2>6, <2>9
    <3>4. Ordinal(u, j) = Ordinal(t, j) + 1 /\ Ordinal(t, j) \in 0..(3 * p - 1)
      <4> DEFINE x == (t[j] + 1) * p
      <4>1. x \in {0, p}
        BY <2>2, <2>7, <3>1
      <4>2. Ordinal(t, j) = a + x /\ Ordinal(u, j) = b + (x + p)
        BY <2>3, <3>2
      <4> HIDE DEF x
      <4> QED BY <2>2, <2>5, <3>3, <4>1, <4>2
    <3>5. Counts(t, u, j, stop)
      BY <1>1, <2>2, <2>9, <3>4 DEF Counts
    <3> QED BY <3>5 DEF j
  <2>10. CASE j > stop
    <3>1. u[j] = t[j]
      BY <1>2, <2>4, <2>10
    <3>2. b = a + 1
      BY <1>1, <2>4, <2>5, <2>6, <2>10
    <3>3. (u[j] + 1) * p = (t[j] + 1) * p
      BY <3>1
    <3>4. Ordinal(u, j) = Ordinal(t, j) + 1 /\ Ordinal(t, j) \in 0..(3 * p - 1)
      BY <2>2, <2>3, <2>5, <2>7, <3>2, <3>3
    <3>5. Counts(t, u, j, stop)
      BY <1>1, <2>2, <2>4, <2>10, <3>4 DEF Counts
    <3> QED BY <3>5 DEF j
  <2> QED BY <1>1, <2>4, <2>8, <2>9, <2>10 DEF j
<1>5. n \in S
  <2> HIDE DEF S
  <2> QED BY <1>3, <1>4, SetInduction
<1> QED BY <1>5 DEF u

Closed(D) == \A x \in D : Increment(x) \in D
Advances(t, N, D) ==
  /\ Incremented(t, N) \in [0..N -> D] /\ Incremented(t, N)[0] = t
  /\ \A k \in 1..N : Incremented(t, N)[k] = Increment(Incremented(t, N)[k - 1])

LEMMA IncrementsFrom ==
  ASSUME NEW N \in Nat, NEW D, NEW t \in D, Closed(D)
  PROVE  Advances(t, N, D)
<1>1. \A x \in D : Increment(x) \in D
  BY DEF Closed
<1> QED BY <1>1, IncrementedIs DEF Advances

LEMMA AdvanceCounts ==
  ASSUME NEW n \in Nat, NEW seed \in TritsOf(n), NEW i \in Nat, i < Power(3, n)
  PROVE  /\ Ordinal(seed, n) \in 0..(Power(3, n) - 1)
         /\ Ordinal(Incremented(seed, i)[i], n)
              = IF Ordinal(seed, n) + i < Power(3, n) THEN Ordinal(seed, n) + i
                ELSE Ordinal(seed, n) + i - Power(3, n)
<1> DEFINE D == TritsOf(n)
           M == Power(3, n)
           W == Incremented(seed, i)
           v == Ordinal(seed, n)
           after(k) == IF v + k < M THEN v + k ELSE v + k - M
           S == {k \in Nat : k <= i => Ordinal(W[k], n) = after(k)}
<1>1. M \in Nat
  BY PowerStep
<1>2. ASSUME NEW t \in D
      PROVE  /\ Increment(t) \in D
             /\ Ordinal(t, n) \in 0..(M - 1)
             /\ Ordinal(Increment(t), n) = IF Ordinal(t, n) = M - 1 THEN 0 ELSE Ordinal(t, n) + 1
  <2>1. PICK stop : Carried(t, stop, n)
    BY IncrementCarries
  <2>2. Increment(t) \in D
    BY IncrementCarries
  <2>3. Counts(t, Increment(t), n, stop)
    BY <2>1, IncrementCounts
  <2>4. PICK next : Carried(Increment(t), next, n)
    BY <2>2, IncrementCarries
  <2>5. Counts(Increment(t), Increment(Increment(t)), n, next)
    BY <2>2, <2>4, IncrementCounts
  <2>6. Ordinal(Increment(t), n) \in 0..(M - 1)
    BY <2>5 DEF Counts
  <2>7. stop \in 1..(n + 1)
    BY <2>1 DEF Carried
  <2> QED BY <1>1, <2>2, <2>3, <2>6, <2>7 DEF Counts
<1>3. seed \in D /\ \A x \in D : Increment(x) \in D
  BY <1>2
<1> HIDE DEF D
<1>4. W \in [0..i -> D] /\ W[0] = seed /\ \A k \in 1..i : W[k] = Increment(W[k - 1])
  <2>1. /\ Incremented(seed, i) \in [0..i -> D] /\ Incremented(seed, i)[0] = seed
        /\ \A k \in 1..i : Incremented(seed, i)[k] = Increment(Incremented(seed, i)[k - 1])
    <3> HIDE DEF W, M, v, S
    <3>1. seed \in D
      BY <1>3
    <3>2. \A x \in D : Increment(x) \in D
      BY <1>3
    <3>3. Closed(D) /\ Advances(seed, i, D)
      BY <3>1, <3>2, IncrementsFrom DEF Closed
    <3> QED BY <3>3 DEF Advances
  <2> QED BY <2>1
<1> HIDE DEF W, M
<1>5. v \in 0..(M - 1) /\ v = Ordinal(seed, n)
  BY <1>2, <1>3
<1> HIDE DEF v
<1>6. 0 \in S
  <2>1. Ordinal(W[0], n) = v /\ after(0) = v
    BY <1>1, <1>4, <1>5
  <2> QED BY <2>1
<1>7. ASSUME NEW k \in Nat, k \in S PROVE k + 1 \in S
  <2> SUFFICES ASSUME k + 1 <= i PROVE Ordinal(W[k + 1], n) = after(k + 1)
    OBVIOUS
  <2>1. k \in 0..i /\ k + 1 \in 1..i /\ (k + 1) - 1 = k
    OBVIOUS
  <2>2. W[k] \in D /\ W[k + 1] = Increment(W[k])
    BY <1>4, <2>1
  <2>3. Ordinal(W[k + 1], n) = IF Ordinal(W[k], n) = M - 1 THEN 0 ELSE Ordinal(W[k], n) + 1
    BY <1>2, <2>2
  <2>4. Ordinal(W[k], n) = after(k)
    BY <1>7
  <2>5. k + 1 < M
    BY <1>1 DEF M
  <2> QED BY <1>1, <1>5, <2>3, <2>4, <2>5
<1>8. i \in S
  <2> HIDE DEF S
  <2> QED BY <1>6, <1>7, SetInduction
<1> QED BY <1>5, <1>8 DEF v, M, W

SeedCount == Power(3, Len(IssuerSeed))

LEMMA SubseedsDiffer ==
  ASSUME NEW i \in 0..(SeedCount - 1), NEW j \in 0..(SeedCount - 1), subseed(IssuerSeed, i) = subseed(IssuerSeed, j)
  PROVE  i = j
<1> DEFINE n == Len(IssuerSeed)
           v == Ordinal(IssuerSeed, n)
           a == Incremented(IssuerSeed, i)[i]
           b == Incremented(IssuerSeed, j)[j]
<1>1. n \in Nat /\ IssuerSeed \in TritsOf(n)
  BY MilestoneAssumption DEF TritsOf
<1>2. a = b
  <2>1. digest(a) = digest(b)
    BY DEF subseed
  <2> HIDE DEF a, b
  <2> QED BY <2>1, DigestInjective
<1>3. SeedCount \in Nat /\ SeedCount = Power(3, n)
  BY <1>1, PowerStep DEF SeedCount
<1>4. i \in Nat /\ j \in Nat /\ i < Power(3, n) /\ j < Power(3, n)
  BY <1>3
<1> HIDE DEF n
<1>5. /\ v \in 0..(SeedCount - 1)
      /\ Ordinal(a, n) = (IF v + i < SeedCount THEN v + i ELSE v + i - SeedCount)
      /\ Ordinal(b, n) = (IF v + j < SeedCount THEN v + j ELSE v + j - SeedCount)
  BY <1>1, <1>3, <1>4, AdvanceCounts
<1> HIDE DEF v, a, b
<1> QED BY <1>2, <1>3, <1>5

(* The chunks of all one-time keys differ, and chains start from them.     *)
KeyAt(lv, i) == wots_generate(lv, IssuerSeed, i)

LEMMA KeyIs ==
  ASSUME NEW lv \in Nat \ {0}, NEW i
  PROVE  /\ KeyAt(lv, i) = [k \in 1..(lv * FragmentLen) |-> KeyAt(lv, i)[k]]
         /\ \A k \in 1..(lv * FragmentLen) :
              KeyAt(lv, i)[k] = digest(<<subseed(IssuerSeed, i), [squeeze |-> k]>>) /\ Atom(KeyAt(lv, i)[k])
<1>1. KeyAt(lv, i) = [k \in 1..(lv * FragmentLen) |-> digest(<<subseed(IssuerSeed, i), [squeeze |-> k]>>)]
  BY DEF KeyAt, wots_generate
<1>2. ASSUME NEW k \in 1..(lv * FragmentLen)
      PROVE  KeyAt(lv, i)[k] = digest(<<subseed(IssuerSeed, i), [squeeze |-> k]>>) /\ Atom(KeyAt(lv, i)[k])
  <2>1. KeyAt(lv, i)[k] = digest(<<subseed(IssuerSeed, i), [squeeze |-> k]>>)
    BY <1>1
  <2>2. Atom(digest(<<subseed(IssuerSeed, i), [squeeze |-> k]>>))
    BY PairIsAtom
  <2> QED BY <2>1, <2>2
<1>3. KeyAt(lv, i) = [k \in 1..(lv * FragmentLen) |-> KeyAt(lv, i)[k]]
  BY <1>1
<1> QED BY <1>2, <1>3

LEMMA ChunksDiffer ==
  ASSUME NEW lv \in Nat \ {0}, NEW k \in 1..(lv * FragmentLen), NEW m \in 1..(lv * FragmentLen),
         NEW i \in 0..(SeedCount - 1), NEW j \in 0..(SeedCount - 1), KeyAt(lv, i)[k] = KeyAt(lv, j)[m]
  PROVE  i = j /\ k = m
<1> DEFINE a == subseed(IssuerSeed, i)
           b == subseed(IssuerSeed, j)
           r == [squeeze |-> k]
           s == [squeeze |-> m]
<1>1. digest(<<a, r>>) = digest(<<b, s>>)
  BY KeyIs
<1>2. r.squeeze = k /\ s.squeeze = m
  OBVIOUS
<1> HIDE DEF a, b, r, s
<1>3. <<a, r>> = <<b, s>>
  BY <1>1, DigestInjective
<1>4. a = b /\ r = s
  BY <1>3
<1>5. i = j
  BY <1>4, SubseedsDiffer DEF a, b
<1> QED BY <1>2, <1>4, <1>5

(* Chunks hashed on from a key, and their address.                         *)
HashedOn(lv, i, times) == [k \in 1..(lv * FragmentLen) |-> Rehash(KeyAt(lv, i)[k], times[k])]
PkAt(lv, i) == wots_generate_public_key(KeyAt(lv, i))
Full == [k \in Nat |-> 2 * MaxTryte]

LEMMA HashedChunks ==
  ASSUME NEW lv \in Nat \ {0}, NEW a, a = [k \in 1..(lv * FragmentLen) |-> a[k]]
  PROVE  Chunks(a, lv)
<1>1. lv * FragmentLen \in Nat
  BY SigningAssumption
<1>2. Len(a) = lv * FragmentLen
  BY <1>1
<1> QED BY <1>2 DEF Chunks

LEMMA PkIs ==
  ASSUME NEW lv \in Nat \ {0}, NEW i
  PROVE  PkAt(lv, i) = AddressOf(HashedOn(lv, i, Full))
<1>1. DOMAIN KeyAt(lv, i) = 1..(lv * FragmentLen)
  BY KeyIs
<1>2. lv * FragmentLen \in Nat
  BY SigningAssumption
<1>3. [k \in DOMAIN KeyAt(lv, i) |-> Rehash(KeyAt(lv, i)[k], 2 * MaxTryte)] = HashedOn(lv, i, Full)
  BY <1>1, <1>2 DEF HashedOn, Full
<1> QED BY <1>3 DEF PkAt, wots_generate_public_key

(* The address is that of the chunks just when every chain has its full    *)
(* length.                                                                 *)
LEMMA AddressMeets ==
  ASSUME NEW lv \in Nat \ {0}, NEW i \in 0..(SeedCount - 1), NEW a, a = [k \in 1..(lv * FragmentLen) |-> a[k]]
  PROVE  AddressOf(a) = PkAt(lv, i)
           <=> \A k \in 1..(lv * FragmentLen) : a[k] = Rehash(KeyAt(lv, i)[k], 2 * MaxTryte)
<1> DEFINE N == lv * FragmentLen
           b == HashedOn(lv, i, Full)
<1>1. N \in Nat
  BY SigningAssumption
<1>2. b = [k \in 1..N |-> b[k]] /\ \A k \in 1..N : b[k] = Rehash(KeyAt(lv, i)[k], 2 * MaxTryte)
  BY <1>1 DEF HashedOn, Full
<1>3. PkAt(lv, i) = AddressOf(b)
  BY PkIs
<1> HIDE DEF b
<1>4. Chunks(a, lv) /\ Chunks(b, lv)
  BY <1>2, HashedChunks
<1>5. ASSUME AddressOf(a) = AddressOf(b) PROVE a = b
  BY <1>4, <1>5, AddressInjective
<1>6. ASSUME \A k \in 1..N : a[k] = b[k] PROVE a = b
  <2>1. a = [k \in 1..N |-> a[k]]
    OBVIOUS
  <2> HIDE DEF N
  <2> QED BY <1>2, <1>6, <2>1
<1> HIDE DEF N
<1>7. AddressOf(a) = AddressOf(b) <=> \A k \in 1..N : a[k] = b[k]
  BY <1>5, <1>6
<1> QED BY <1>2, <1>3, <1>7 DEF N

LEMMA PksDiffer ==
  ASSUME NEW lv \in Nat \ {0}, NEW i \in 0..(SeedCount - 1), NEW j \in 0..(SeedCount - 1), PkAt(lv, i) = PkAt(lv, j)
  PROVE  i = j
<1> DEFINE a == HashedOn(lv, i, Full)
           N == lv * FragmentLen
<1>0. N \in Nat /\ 1 \in 1..N /\ 2 * MaxTryte \in Nat
  BY SigningAssumption
<1>1. a = [k \in 1..N |-> a[k]] /\ a[1] = Rehash(KeyAt(lv, i)[1], 2 * MaxTryte)
  BY <1>0 DEF HashedOn, Full
<1>2. AddressOf(a) = PkAt(lv, j)
  BY PkIs
<1> HIDE DEF a
<1>3. a[1] = Rehash(KeyAt(lv, j)[1], 2 * MaxTryte)
  BY <1>0, <1>1, <1>2, AddressMeets
<1>4. Atom(KeyAt(lv, i)[1]) /\ Atom(KeyAt(lv, j)[1])
  BY <1>0, KeyIs
<1>5. KeyAt(lv, i)[1] = KeyAt(lv, j)[1]
  BY <1>0, <1>1, <1>3, <1>4, ChainsMeet
<1> QED BY <1>0, <1>5, ChunksDiffer

-----------------------------------------------------------------------------
(* The Merkle tree.  Over n, the hashes of the nodes from n on.            *)
NodeHash(w, n, lv, L) ==
  IF n >= L - 1 THEN PkAt(lv, n - L + 1) ELSE digest(<<w[2 * n + 1], w[2 * n + 2]>>)

HashedFrom(w, n, lv, L) ==
  /\ w = [i \in 0..(2 * L - 2) |-> w[i]]
  /\ \A i \in 0..(2 * L - 2) : i >= n => w[i] = NodeHash(w, i, lv, L)

LEMMA TreeExists ==
  ASSUME NEW lv, NEW L \in Nat \ {0}
  PROVE  \E w : HashedFrom(w, 0, lv, L)
<1> DEFINE K == 2 * L - 2
           S == {m \in Nat : \E w : HashedFrom(w, K + 1 - m, lv, L)}
<1>1. K \in Nat
  OBVIOUS
<1>2. 0 \in S
  <2>1. HashedFrom([i \in 0..K |-> 0], K + 1 - 0, lv, L)
    BY <1>1 DEF HashedFrom
  <2> QED BY <2>1
<1>3. ASSUME NEW m \in Nat, m \in S PROVE m + 1 \in S
  <2> DEFINE at == K - m
  <2>1. PICK w : HashedFrom(w, K + 1 - m, lv, L)
    BY <1>3
  <2> DEFINE x == NodeHash(w, at, lv, L)
             v == [i \in 0..K |-> IF i = at THEN x ELSE w[i]]
  <2>2. at \in Int /\ K + 1 - m = at + 1 /\ K + 1 - (m + 1) = at
    BY <1>1
  <2>3. \A i \in 0..K : i >= at + 1 => w[i] = NodeHash(w, i, lv, L)
    BY <2>1, <2>2 DEF HashedFrom
  <2>4. \A i \in 0..K : v[i] = IF i = at THEN x ELSE w[i]
    OBVIOUS
  <2>5. v = [i \in 0..K |-> v[i]]
    OBVIOUS
  <2> HIDE DEF v, at
  <2>6. ASSUME NEW i \in 0..K, i >= at PROVE NodeHash(v, i, lv, L) = NodeHash(w, i, lv, L)
    <3>1. CASE i >= L - 1
      BY <3>1 DEF NodeHash
    <3>2. CASE ~(i >= L - 1)
      <4>1. 2 * i + 1 \in 0..K /\ 2 * i + 2 \in 0..K /\ 2 * i + 1 # at /\ 2 * i + 2 # at
        BY <2>2, <2>6, <3>2
      <4> HIDE DEF K, x
      <4>2. v[2 * i + 1] = w[2 * i + 1] /\ v[2 * i + 2] = w[2 * i + 2]
        BY <2>4, <4>1
      <4> QED BY <4>2 DEF NodeHash
    <3> QED BY <3>1, <3>2
  <2>7. ASSUME NEW i \in 0..K, i >= at PROVE v[i] = NodeHash(v, i, lv, L)
    <3>1. CASE i = at
      BY <2>4, <2>6, <2>7, <3>1
    <3>2. CASE i # at
      <4>1. i >= at + 1
        BY <2>2, <2>7, <3>2
      <4> QED BY <2>3, <2>4, <2>6, <2>7, <3>2, <4>1
    <3> QED BY <3>1, <3>2
  <2>8. HashedFrom(v, at, lv, L)
    BY <2>5, <2>7 DEF HashedFrom
  <2> QED BY <2>2, <2>8
<1>4. K + 1 \in S
  <2>1. K + 1 \in Nat
    BY <1>1
  <2> HIDE DEF S, K
  <2> QED BY <1>2, <1>3, <2>1, SetInduction
<1>5. K + 1 - (K + 1) = 0
  BY <1>1
<1> QED BY <1>4, <1>5

LEMMA LeavesIs ==
  ASSUME NEW d \in Depths
  PROVE  d \in Nat \ {0} /\ d - 1 \in Nat /\ Leaves(d) \in Nat \ {0} /\ Leaves(d) <= SeedCount /\ Leaves(d) = Power(2, d - 1)
<1>1. d \in Nat \ {0} /\ d - 1 \in Nat /\ DepthMax \in Nat /\ d <= DepthMax /\ DepthMax - 1 \in Nat /\ d - 1 <= DepthMax - 1
  BY MilestoneAssumption
<1>2. 2 \in Nat \ {0}
  OBVIOUS
<1>3. Leaves(d) = Power(2, d - 1) /\ Leaves(DepthMax) = Power(2, DepthMax - 1)
  BY DEF Leaves
<1>4. Power(2, d - 1) \in Nat /\ Power(2, d - 1) > 0 /\ Power(2, DepthMax - 1) \in Nat
  BY <1>1, <1>2, PowerPositive
<1>5. Power(2, d - 1) <= Power(2, DepthMax - 1)
  BY <1>1, PowerGrows
<1>6. Leaves(DepthMax) <= SeedCount
  BY MilestoneAssumption DEF SeedCount
<1>7. SeedCount \in Nat
  <2>1. Len(IssuerSeed) \in Nat
    BY MilestoneAssumption
  <2> QED BY <2>1, PowerStep DEF SeedCount
<1> QED BY <1>1, <1>3, <1>4, <1>5, <1>6, <1>7

Tree(lv, d) == TreeOf(lv, d, IssuerSeed)

LEMMA TreeIs ==
  ASSUME NEW lv, NEW d \in Depths
  PROVE  HashedFrom(Tree(lv, d), 0, lv, Leaves(d))
<1> DEFINE L == Leaves(d)
           F(g) == [n \in 0..(2 * L - 2) |-> NodeHash(g, n, lv, L)]
<1>1. L \in Nat \ {0}
  BY LeavesIs
<1>2. PICK w : HashedFrom(w, 0, lv, L)
  BY <1>1, TreeExists
<1>3. w = F(w)
  <2>1. w = [i \in 0..(2 * L - 2) |-> w[i]]
    BY <1>2 DEF HashedFrom
  <2>2. \A i \in 0..(2 * L - 2) : w[i] = NodeHash(w, i, lv, L)
    <3>1. \A i \in 0..(2 * L - 2) : i >= 0
      OBVIOUS
    <3> QED BY <1>2, <3>1 DEF HashedFrom
  <2> HIDE DEF L
  <2> QED BY <2>1, <2>2
<1>4. Tree(lv, d) = CHOOSE g : g = F(g)
  BY DEF Tree, TreeOf, NodeHash, PkAt, KeyAt
<1>5. Tree(lv, d) = F(Tree(lv, d))
  <2> HIDE DEF F
  <2> QED BY <1>3, <1>4
<1> HIDE DEF L
<1>6. /\ Tree(lv, d) = [i \in 0..(2 * L - 2) |-> Tree(lv, d)[i]]
      /\ \A i \in 0..(2 * L - 2) : Tree(lv, d)[i] = NodeHash(Tree(lv, d), i, lv, L)
  <2> DEFINE T == Tree(lv, d)
  <2>1. T = [i \in 0..(2 * L - 2) |-> NodeHash(T, i, lv, L)]
    BY <1>5
  <2> HIDE DEF T
  <2>2. T = [i \in 0..(2 * L - 2) |-> T[i]]
    BY <2>1
  <2>3. \A i \in 0..(2 * L - 2) : T[i] = NodeHash(T, i, lv, L)
    BY <2>1
  <2> QED BY <2>2, <2>3 DEF T
<1> QED BY <1>6 DEF HashedFrom, L

(* No two nodes of a level have the same hash.                             *)
OnLevel(n, k) == n \in Nat /\ Power(2, k) - 1 <= n /\ n <= 2 * Power(2, k) - 2

LEMMA NodeIs ==
  ASSUME NEW lv, NEW d \in Depths, NEW n \in 0..(2 * Leaves(d) - 2)
  PROVE  Tree(lv, d)[n] = IF n >= Leaves(d) - 1 THEN PkAt(lv, n - Leaves(d) + 1)
                          ELSE digest(<<Tree(lv, d)[2 * n + 1], Tree(lv, d)[2 * n + 2]>>)
<1>1. HashedFrom(Tree(lv, d), 0, lv, Leaves(d)) /\ n >= 0
  BY TreeIs
<1> QED BY <1>1 DEF HashedFrom, NodeHash

Different(lv, d, k) ==
  \A n, m \in Nat : OnLevel(n, k) /\ OnLevel(m, k) /\ Tree(lv, d)[n] = Tree(lv, d)[m] => n = m

LEMMA NodesDiffer ==
  ASSUME NEW lv \in Nat \ {0}, NEW d \in Depths, NEW k \in 0..(d - 1)
  PROVE  Different(lv, d, k)
<1> DEFINE L == Leaves(d)
           T == Tree(lv, d)
           top == d - 1
           S == {h \in Nat : h <= top => Different(lv, d, top - h)}
<1>1. top \in Nat /\ L \in Nat \ {0} /\ L <= SeedCount /\ L = Power(2, top) /\ SeedCount \in Nat
  <2>1. Len(IssuerSeed) \in Nat
    BY MilestoneAssumption
  <2> QED BY <2>1, LeavesIs, PowerStep DEF SeedCount
<1>2. \A n \in 0..(2 * L - 2) : T[n] = IF n >= L - 1 THEN PkAt(lv, n - L + 1) ELSE digest(<<T[2 * n + 1], T[2 * n + 2]>>)
  BY NodeIs
<1> HIDE DEF L, T, top
<1>3. 0 \in S
  <2> SUFFICES ASSUME NEW n \in Nat, NEW m \in Nat, OnLevel(n, top), OnLevel(m, top), T[n] = T[m] PROVE n = m
    <3>1. top - 0 = top
      BY <1>1
    <3> QED BY <3>1 DEF Different, T
  <2>1. n \in 0..(2 * L - 2) /\ m \in 0..(2 * L - 2) /\ n >= L - 1 /\ m >= L - 1
    BY <1>1 DEF OnLevel
  <2>2. PkAt(lv, n - L + 1) = PkAt(lv, m - L + 1)
    BY <1>2, <2>1
  <2>3. n - L + 1 \in 0..(SeedCount - 1) /\ m - L + 1 \in 0..(SeedCount - 1)
    BY <1>1, <2>1
  <2>4. n - L + 1 = m - L + 1
    BY <2>2, <2>3, PksDiffer
  <2> QED BY <1>1, <2>4
<1>4. ASSUME NEW h \in Nat, h \in S PROVE h + 1 \in S
  <2> SUFFICES ASSUME h + 1 <= top PROVE Different(lv, d, top - (h + 1))
    OBVIOUS
  <2> DEFINE j == top - (h + 1)
  <2>1. j \in Nat /\ j + 1 = top - h /\ j + 1 <= top
    BY <1>1
  <2> HIDE DEF j
  <2>2. Different(lv, d, j + 1)
    BY <1>1, <1>4, <2>1
  <2> DEFINE B == Power(2, j)
  <2>3. B \in Nat /\ Power(2, j + 1) = 2 * B
    BY <2>1, PowerStep
  <2>4. 2 * B <= L
    <3>1. j + 1 \in Nat
      BY <2>1
    <3>2. Power(2, j + 1) <= Power(2, top)
      BY <1>1, <2>1, <3>1, PowerGrows
    <3> QED BY <1>1, <2>3, <3>2
  <2> SUFFICES ASSUME NEW n \in Nat, NEW m \in Nat, OnLevel(n, j), OnLevel(m, j), T[n] = T[m] PROVE n = m
    BY DEF Different, T, j
  <2>5. B - 1 <= n /\ n <= 2 * B - 2 /\ B - 1 <= m /\ m <= 2 * B - 2
    BY DEF OnLevel
  <2> HIDE DEF B
  <2>6. n \in 0..(2 * L - 2) /\ m \in 0..(2 * L - 2) /\ ~(n >= L - 1) /\ ~(m >= L - 1)
    BY <1>1, <2>3, <2>4, <2>5
  <2>7. digest(<<T[2 * n + 1], T[2 * n + 2]>>) = digest(<<T[2 * m + 1], T[2 * m + 2]>>)
    BY <1>2, <2>6
  <2>8. <<T[2 * n + 1], T[2 * n + 2]>> = <<T[2 * m + 1], T[2 * m + 2]>>
    BY <2>7, DigestInjective
  <2>9. T[2 * n + 1] = T[2 * m + 1]
    BY <2>8
  <2>10. 2 * n + 1 \in Nat /\ 2 * m + 1 \in Nat /\ OnLevel(2 * n + 1, j + 1) /\ OnLevel(2 * m + 1, j + 1)
    BY <2>3, <2>5 DEF OnLevel
  <2>11. 2 * n + 1 = 2 * m + 1
    BY <2>2, <2>9, <2>10 DEF Different, T
  <2> QED BY <2>11
<1>5. top - k \in Nat /\ top - k <= top /\ top - (top - k) = k
  BY <1>1 DEF top
<1>6. top - k \in S
  <2> HIDE DEF S
  <2> QED BY <1>3, <1>4, <1>5, SetInduction
<1> QED BY <1>5, <1>6

-----------------------------------------------------------------------------
(* The path of a leaf: at height i it is the node number Halved(leaf, i) of *)
(* its level.                                                              *)
Node(d, leaf, i) == PathFrom(Leaves(d) + leaf - 1, d - 1)[i]

Placed(d, leaf, i) ==
  /\ Halved(leaf, i) \in Nat /\ Halved(leaf, i) < Power(2, d - 1 - i)
  /\ Node(d, leaf, i) = Power(2, d - 1 - i) + Halved(leaf, i) - 1

LEMMA ParentIs ==
  ASSUME NEW P \in Nat, NEW h \in Nat, h < 2 * P
  PROVE  /\ h \div 2 \in Nat /\ h \div 2 < P /\ h % 2 \in {0, 1}
         /\ Parent(2 * P + h - 1) = P + (h \div 2) - 1
         /\ 2 * P + h - 1 = 2 * (P + (h \div 2) - 1) + 1 + (h % 2)
         /\ Beside(2 * P + h - 1) = 2 * (P + (h \div 2) - 1) + 2 - (h % 2)
<1> DEFINE q == h \div 2
           b == h % 2
           n == 2 * P + h - 1
<1>1. q \in Int /\ b \in {0, 1} /\ h = 2 * q + b
  OBVIOUS
<1> HIDE DEF q, b
<1>2. q \in Nat /\ q < P
  BY <1>1
<1>3. n = 2 * (P + q - 1) + 1 + b
  BY <1>1, <1>2
<1>4. Parent(n) = P + q - 1 /\ Beside(n) = 2 * (P + q - 1) + 2 - b
  <2> DEFINE p == P + q - 1
  <2>1. p \in Nat
    BY <1>2
  <2> HIDE DEF n, p
  <2>2. CASE b = 0
    BY <1>3, <2>1, <2>2 DEF Parent, Beside, p
  <2>3. CASE b = 1
    BY <1>3, <2>1, <2>3 DEF Parent, Beside, p
  <2> QED BY <1>1, <2>2, <2>3 DEF n
<1> QED BY <1>1, <1>2, <1>3, <1>4 DEF q, b

LEMMA NodesPlaced ==
  ASSUME NEW d \in Depths, NEW leaf \in 0..(Leaves(d) - 1), NEW i \in 0..(d - 1)
  PROVE  Placed(d, leaf, i)
<1> DEFINE top == d - 1
           from == Leaves(d) + leaf - 1
           S == {k \in Nat : k <= top => Placed(d, leaf, k)}
<1>1. top \in Nat /\ Leaves(d) \in Nat \ {0} /\ Leaves(d) = Power(2, top) /\ leaf \in Nat /\ from \in Int
  BY LeavesIs
<1>2. /\ Node(d, leaf, 0) = from
      /\ \A k \in 1..top : Node(d, leaf, k) = Parent(Node(d, leaf, k - 1))
  <2> HIDE DEF top, from
  <2>1. PathFrom(from, top)[0] = from /\ \A k \in 1..top : PathFrom(from, top)[k] = Parent(PathFrom(from, top)[k - 1])
    BY <1>1, PathIs
  <2> QED BY <2>1 DEF Node, top, from
<1>3. 0 \in S
  <2>1. Halved(leaf, 0) = leaf /\ d - 1 - 0 = top
    BY <1>1, HalfIs
  <2> QED BY <1>1, <1>2, <2>1 DEF Placed
<1>4. ASSUME NEW k \in Nat, k \in S PROVE k + 1 \in S
  <2> SUFFICES ASSUME k + 1 <= top PROVE Placed(d, leaf, k + 1)
    OBVIOUS
  <2> DEFINE j == top - (k + 1)
             P == Power(2, j)
             h == Halved(leaf, k)
  <2>1. j \in Nat /\ j + 1 = d - 1 - k /\ j = d - 1 - (k + 1)
    BY <1>1
  <2>2. P \in Nat /\ Power(2, d - 1 - k) = 2 * P
    <3> HIDE DEF j
    <3> QED BY <2>1, PowerStep
  <2>3. h \in Nat /\ Halved(leaf, k + 1) = h \div 2
    BY <1>1, HalfStep
  <2>4. h < 2 * P /\ Node(d, leaf, k) = 2 * P + h - 1
    <3>1. k <= top
      BY <1>1
    <3>2. Placed(d, leaf, k)
      BY <1>4, <3>1
    <3> QED BY <2>2, <3>2 DEF Placed
  <2>5. Node(d, leaf, k + 1) = Parent(Node(d, leaf, k))
    <3>1. k + 1 \in 1..top /\ (k + 1) - 1 = k
      BY <1>1
    <3> HIDE DEF top
    <3> QED BY <1>2, <3>1
  <2> HIDE DEF P, h, j
  <2>6. h \div 2 \in Nat /\ h \div 2 < P /\ Parent(2 * P + h - 1) = P + (h \div 2) - 1
    BY <2>2, <2>3, <2>4, ParentIs
  <2>7. Power(2, d - 1 - (k + 1)) = P
    BY <2>1 DEF P
  <2> QED BY <2>3, <2>4, <2>5, <2>6, <2>7 DEF Placed
<1>5. i \in S
  <2>1. i \in Nat
    OBVIOUS
  <2> HIDE DEF S
  <2> QED BY <1>3, <1>4, <2>1, SetInduction
<1> QED BY <1>5

(* One step up the path: the node and the one beside it are the children   *)
(* of the next, on the side that the bit of the leaf says.                 *)
Up(lv, d, leaf, i) ==
  LET T == Tree(lv, d)
      n == Node(d, leaf, i)
  IN  /\ T[Node(d, leaf, i + 1)] = IF IndexBit(leaf, i) # 0 THEN digest(<<T[Beside(n)], T[n]>>)
                                   ELSE digest(<<T[n], T[Beside(n)]>>)
      /\ T[Beside(n)] # T[n]

LEMMA GoesUp ==
  ASSUME NEW lv \in Nat \ {0}, NEW d \in Depths, NEW leaf \in 0..(Leaves(d) - 1), NEW i \in 0..(d - 2)
  PROVE  Up(lv, d, leaf, i)
<1> DEFINE T == Tree(lv, d)
           L == Leaves(d)
           j == d - 2 - i
           P == Power(2, j)
           h == Halved(leaf, i)
           n == Node(d, leaf, i)
           p == Node(d, leaf, i + 1)
<1>1. d \in Nat /\ d - 1 \in Nat /\ L \in Nat \ {0} /\ L = Power(2, d - 1) /\ leaf \in Nat
  BY LeavesIs
<1>2. j \in Nat /\ j + 1 = d - 1 - i /\ j = d - 1 - (i + 1) /\ i \in Nat /\ i \in 0..(d - 1) /\ i + 1 \in 0..(d - 1)
      /\ j + 1 <= d - 1 /\ j + 1 \in 0..(d - 1)
  BY <1>1
<1> HIDE DEF j
<1>3. P \in Nat /\ Power(2, j + 1) = 2 * P
  BY <1>2, PowerStep
<1>4. Placed(d, leaf, i) /\ Placed(d, leaf, i + 1)
  BY <1>2, NodesPlaced
<1>5. h \in Nat /\ h < 2 * P /\ n = 2 * P + h - 1
  BY <1>2, <1>3, <1>4 DEF Placed
<1>6. Halved(leaf, i + 1) = h \div 2 /\ p = P + (h \div 2) - 1
  <2>1. Halved(leaf, i + 1) = h \div 2
    BY <1>1, <1>2, HalfStep
  <2>2. p = P + Halved(leaf, i + 1) - 1
    BY <1>2, <1>4 DEF Placed
  <2> QED BY <2>1, <2>2
<1>7. IndexBit(leaf, i) = h % 2
  BY DEF IndexBit, Halved
<1>8. 2 * P <= L
  <2>1. Power(2, j + 1) <= Power(2, d - 1)
    <3>1. j + 1 \in Nat
      BY <1>2
    <3> QED BY <1>1, <1>2, <3>1, PowerGrows
  <2> QED BY <1>1, <1>3, <2>1
<1> HIDE DEF L, P, h, n, p, T
<1> DEFINE b == h % 2
<1>9. /\ h \div 2 \in Nat /\ h \div 2 < P /\ b \in {0, 1}
      /\ n = 2 * p + 1 + b /\ Beside(n) = 2 * p + 2 - b
  BY <1>3, <1>5, <1>6, ParentIs
<1> HIDE DEF b
<1>10. p \in 0..(2 * L - 2) /\ ~(p >= L - 1)
  BY <1>1, <1>3, <1>6, <1>8, <1>9
<1>11. T[p] = digest(<<T[2 * p + 1], T[2 * p + 2]>>)
  BY <1>10, NodeIs DEF T, L
<1>12. T[p] = IF b # 0 THEN digest(<<T[Beside(n)], T[n]>>) ELSE digest(<<T[n], T[Beside(n)]>>)
  <2>1. CASE b = 0
    <3>1. n = 2 * p + 1 /\ Beside(n) = 2 * p + 2
      BY <1>9, <1>10, <2>1
    <3> QED BY <1>11, <2>1, <3>1
  <2>2. CASE b = 1
    <3>1. n = 2 * p + 2 /\ Beside(n) = 2 * p + 1
      BY <1>9, <1>10, <2>2
    <3> QED BY <1>11, <2>2, <3>1
  <2> QED BY <1>9, <2>1, <2>2
<1>13. OnLevel(n, j + 1) /\ OnLevel(Beside(n), j + 1) /\ Beside(n) # n
  BY <1>3, <1>5, <1>6, <1>9 DEF OnLevel
<1>14. T[Beside(n)] # T[n]
  <2>1. Different(lv, d, j + 1)
    BY <1>2, NodesDiffer
  <2> QED BY <1>13, <2>1 DEF Different, OnLevel, T
<1> QED BY <1>7, <1>12, <1>14 DEF Up, T, n, p, b

-----------------------------------------------------------------------------
(* What Climb computes, for siblings and leaves of any kind.               *)
Joined(hash, sibling, bit) == IF bit # 0 THEN digest(<<sibling, hash>>) ELSE digest(<<hash, sibling>>)

Climbs(C, h0, sib, idx, H) ==
  /\ C[0] = h0 /\ C = [i \in 0..H |-> C[i]]
  /\ \A i \in 1..H : C[i] = Joined(C[i - 1], sib[i], IndexBit(idx, i - 1))

LEMMA ClimbExists ==
  ASSUME NEW h0, NEW sib, NEW idx, NEW H \in Nat
  PROVE  \E C : Climbs(C, h0, sib, idx, H)
<1> DEFINE S == {n \in Nat : \E C : Climbs(C, h0, sib, idx, n)}
<1>1. 0 \in S
  <2>1. Climbs([k \in 0..0 |-> h0], h0, sib, idx, 0)
    BY DEF Climbs
  <2> QED BY <2>1
<1>2. ASSUME NEW n \in Nat, n \in S PROVE n + 1 \in S
  <2>1. PICK w : Climbs(w, h0, sib, idx, n)
    BY <1>2
  <2> DEFINE x == Joined(w[n], sib[n + 1], IndexBit(idx, n))
  <2> HIDE DEF x
  <2> DEFINE v == [k \in 0..(n + 1) |-> IF k <= n THEN w[k] ELSE x]
  <2>2. v[0] = h0 /\ v = [k \in 0..(n + 1) |-> v[k]]
    BY <2>1 DEF Climbs
  <2>3. (\A k \in 0..n : v[k] = w[k]) /\ v[n + 1] = x
    OBVIOUS
  <2> HIDE DEF v
  <2>4. ASSUME NEW k \in 1..(n + 1) PROVE v[k] = Joined(v[k - 1], sib[k], IndexBit(idx, k - 1))
    <3>1. CASE k <= n
      <4>1. k \in 1..n /\ k \in 0..n /\ k - 1 \in 0..n
        BY <3>1
      <4>2. w[k] = Joined(w[k - 1], sib[k], IndexBit(idx, k - 1))
        BY <2>1, <4>1 DEF Climbs
      <4>3. v[k] = w[k] /\ v[k - 1] = w[k - 1]
        BY <2>3, <4>1
      <4> QED BY <4>2, <4>3
    <3>2. CASE k = n + 1
      <4>1. (n + 1) - 1 = n /\ n \in 0..n
        OBVIOUS
      <4>2. v[n] = w[n]
        BY <2>3, <4>1
      <4> QED BY <2>3, <3>2, <4>1, <4>2 DEF x
    <3> QED BY <3>1, <3>2
  <2>5. Climbs(v, h0, sib, idx, n + 1)
    BY <2>2, <2>4 DEF Climbs
  <2> QED BY <2>5
<1>3. H \in S
  <2> HIDE DEF S
  <2> QED BY <1>1, <1>2, SetInduction
<1> QED BY <1>3

LEMMA ClimbIs ==
  ASSUME NEW h0, NEW sib, NEW idx, NEW H \in Nat
  PROVE  Climbs(Climb(h0, sib, idx, H), h0, sib, idx, H)
<1> DEFINE F(g) == [i \in 0..H |-> IF i = 0 THEN h0
                      ELSE IF IndexBit(idx, i - 1) # 0 THEN digest(<<sib[i], g[i - 1]>>)
                      ELSE digest(<<g[i - 1], sib[i]>>)]
           C == Climb(h0, sib, idx, H)
<1>1. PICK w : Climbs(w, h0, sib, idx, H)
  BY ClimbExists
<1>2. w = F(w)
  <2>1. w = [i \in 0..H |-> w[i]]
    BY <1>1 DEF Climbs
  <2>2. \A i \in 0..H : w[i] = F(w)[i]
    <3> SUFFICES ASSUME NEW i \in 0..H PROVE w[i] = F(w)[i]
      OBVIOUS
    <3>1. CASE i = 0
      BY <1>1, <3>1 DEF Climbs
    <3>2. CASE i # 0
      <4>1. i \in 1..H
        BY <3>2
      <4>2. w[i] = Joined(w[i - 1], sib[i], IndexBit(idx, i - 1))
        BY <1>1, <4>1 DEF Climbs
      <4> QED BY <3>2, <4>2 DEF Joined
    <3> QED BY <3>1, <3>2
  <2>3. F(w) = [i \in 0..H |-> F(w)[i]]
    OBVIOUS
  <2> HIDE DEF F
  <2> QED BY <2>1, <2>2, <2>3
<1>3. C = CHOOSE g : g = F(g)
  BY DEF Climb
<1>4. C = F(C)
  <2> HIDE DEF F, C
  <2> QED BY <1>2, <1>3
<1> HIDE DEF C
<1>5. C[0] = h0 /\ C = [i \in 0..H |-> C[i]]
  BY <1>4
<1>6. ASSUME NEW i \in 1..H PROVE C[i] = Joined(C[i - 1], sib[i], IndexBit(idx, i - 1))
  <2>1. i \in 0..H /\ i # 0
    OBVIOUS
  <2>2. C[i] = F(C)[i]
    BY <1>4
  <2>3. F(C)[i] = IF IndexBit(idx, i - 1) # 0 THEN digest(<<sib[i], C[i - 1]>>) ELSE digest(<<C[i - 1], sib[i]>>)
    BY <2>1
  <2> QED BY <2>2, <2>3 DEF Joined
<1> QED BY <1>5, <1>6 DEF Climbs, C

LEMMA JoinedSame ==
  ASSUME NEW a, NEW b, NEW s, NEW t, NEW bit, Joined(a, s, bit) = Joined(b, t, bit)
  PROVE  a = b /\ s = t
<1>1. CASE bit # 0
  <2>1. <<s, a>> = <<t, b>>
    BY <1>1, DigestInjective DEF Joined
  <2> QED BY <2>1
<1>2. CASE bit = 0
  <2>1. <<a, s>> = <<b, t>>
    BY <1>2, DigestInjective DEF Joined
  <2> QED BY <2>1
<1> QED BY <1>1, <1>2

LEMMA JoinedSides ==
  ASSUME NEW a, NEW b, NEW s, NEW t, NEW i \in {0, 1}, NEW j \in {0, 1}, i # j, Joined(a, s, i) = Joined(b, t, j)
  PROVE  a = t /\ s = b
<1>1. CASE i = 1
  <2>1. <<s, a>> = <<b, t>>
    BY <1>1, DigestInjective DEF Joined
  <2> QED BY <2>1
<1>2. CASE i = 0
  <2>1. <<a, s>> = <<t, b>>
    BY <1>2, DigestInjective DEF Joined
  <2> QED BY <2>1
<1> QED BY <1>1, <1>2

LEMMA UpJoins ==
  ASSUME NEW lv \in Nat \ {0}, NEW d \in Depths, NEW leaf \in 0..(Leaves(d) - 1), NEW i \in 0..(d - 2)
  PROVE  /\ Tree(lv, d)[Node(d, leaf, i + 1)]
              = Joined(Tree(lv, d)[Node(d, leaf, i)], Tree(lv, d)[Beside(Node(d, leaf, i))], IndexBit(leaf, i))
         /\ Tree(lv, d)[Beside(Node(d, leaf, i))] # Tree(lv, d)[Node(d, leaf, i)]
BY GoesUp DEF Up, Joined

LEMMA PathEnds ==
  ASSUME NEW lv, NEW d \in Depths, NEW leaf \in 0..(Leaves(d) - 1)
  PROVE  Tree(lv, d)[Node(d, leaf, 0)] = PkAt(lv, leaf) /\ Node(d, leaf, d - 1) = 0
<1>1. d - 1 \in Nat /\ d \in Nat \ {0} /\ Leaves(d) \in Nat \ {0} /\ Leaves(d) = Power(2, d - 1) /\ leaf \in Nat
  BY LeavesIs
<1>2. 0 \in 0..(d - 1) /\ d - 1 \in 0..(d - 1) /\ d - 1 - 0 = d - 1 /\ d - 1 - (d - 1) = 0
  BY <1>1
<1>3. Placed(d, leaf, 0) /\ Placed(d, leaf, d - 1)
  BY <1>2, NodesPlaced
<1>4. Node(d, leaf, 0) = Leaves(d) + leaf - 1
  <2>1. Halved(leaf, 0) = leaf
    BY <1>1, HalfIs
  <2> QED BY <1>1, <1>2, <1>3, <2>1 DEF Placed
<1>5. Node(d, leaf, d - 1) = 0
  <2>1. Power(2, 0) = 1
    BY PowerZero
  <2>2. /\ Halved(leaf, d - 1) \in Nat /\ Halved(leaf, d - 1) < Power(2, 0)
        /\ Node(d, leaf, d - 1) = Power(2, 0) + Halved(leaf, d - 1) - 1
    BY <1>2, <1>3 DEF Placed
  <2> QED BY <2>1, <2>2
<1>6. Tree(lv, d)[Leaves(d) + leaf - 1] = PkAt(lv, leaf)
  <2> DEFINE L == Leaves(d)
             n == L + leaf - 1
  <2>1. n \in 0..(2 * L - 2) /\ n >= L - 1 /\ n - L + 1 = leaf
    BY <1>1
  <2>2. Tree(lv, d)[n] = PkAt(lv, n - L + 1)
    <3> HIDE DEF n
    <3> QED BY <2>1, NodeIs
  <2> QED BY <2>1, <2>2
<1> QED BY <1>4, <1>5, <1>6

(* With the siblings of the leaf, the climb ends in the root exactly when  *)
(* it starts with the leaf's public key and turns where the leaf does.     *)
OwnSiblings(sib, lv, d, leaf) ==
  \A i \in 1..(d - 1) : sib[i] = Tree(lv, d)[Beside(Node(d, leaf, i - 1))]

LEMMA ClimbMeets ==
  ASSUME NEW lv \in Nat \ {0}, NEW d \in Depths, NEW leaf \in 0..(Leaves(d) - 1), NEW idx \in Nat,
         NEW h0, NEW sib, OwnSiblings(sib, lv, d, leaf)
  PROVE  Climb(h0, sib, idx, d - 1)[d - 1] = Tree(lv, d)[0]
           <=> h0 = PkAt(lv, leaf) /\ SameBits(idx, leaf, d - 1)
<1> DEFINE H == d - 1
           C == Climb(h0, sib, idx, H)
           T == Tree(lv, d)
           N(i) == Node(d, leaf, i)
           S == {k \in Nat : k <= H => (C[k] = T[N(k)] <=> h0 = PkAt(lv, leaf) /\ SameBits(idx, leaf, k))}
<1>1. H \in Nat /\ d \in Nat /\ leaf \in Nat
  BY LeavesIs
<1>2. Climbs(C, h0, sib, idx, H)
  <2> HIDE DEF H
  <2> QED BY <1>1, ClimbIs
<1>3. T[N(0)] = PkAt(lv, leaf) /\ N(H) = 0
  BY PathEnds
<1> HIDE DEF C, T, N
<1>4. 0 \in S
  <2>1. C[0] = h0 /\ SameBits(idx, leaf, 0)
    BY <1>2 DEF Climbs, SameBits
  <2> QED BY <1>3, <2>1
<1>5. ASSUME NEW k \in Nat, k \in S PROVE k + 1 \in S
  <2> SUFFICES ASSUME k + 1 <= H
      PROVE  C[k + 1] = T[N(k + 1)] <=> h0 = PkAt(lv, leaf) /\ SameBits(idx, leaf, k + 1)
    OBVIOUS
  <2>1. k + 1 \in 1..H /\ (k + 1) - 1 = k /\ k <= H /\ k \in 0..(d - 2)
    BY <1>1
  <2>2. C[k] = T[N(k)] <=> h0 = PkAt(lv, leaf) /\ SameBits(idx, leaf, k)
    BY <1>5, <2>1
  <2> DEFINE s == T[Beside(N(k))]
             x == IndexBit(idx, k)
             y == IndexBit(leaf, k)
  <2>3. sib[k + 1] = s
    <3>1. \A i \in 1..H : sib[i] = T[Beside(N(i - 1))]
      BY DEF OwnSiblings, T, N
    <3> HIDE DEF H
    <3> QED BY <2>1, <3>1
  <2>4. C[k + 1] = Joined(C[k], s, x)
    <3> HIDE DEF H, s
    <3> QED BY <1>2, <2>1, <2>3 DEF Climbs
  <2>5. T[N(k + 1)] = Joined(T[N(k)], s, y) /\ s # T[N(k)]
    BY <2>1, UpJoins DEF T, N
  <2>6. x \in {0, 1} /\ y \in {0, 1}
    BY <1>1, LowStep
  <2>7. SameBits(idx, leaf, k + 1) <=> SameBits(idx, leaf, k) /\ x = y
    BY DEF SameBits
  <2> HIDE DEF s, x, y
  <2>8. C[k + 1] = T[N(k + 1)] <=> C[k] = T[N(k)] /\ x = y
    <3>1. CASE x = y
      <4>1. ASSUME C[k + 1] = T[N(k + 1)] PROVE C[k] = T[N(k)]
        <5>1. Joined(C[k], s, x) = Joined(T[N(k)], s, x)
          BY <2>4, <2>5, <3>1, <4>1
        <5> QED BY <5>1, JoinedSame
      <4>2. ASSUME C[k] = T[N(k)] PROVE C[k + 1] = T[N(k + 1)]
        BY <2>4, <2>5, <3>1, <4>2
      <4> QED BY <3>1, <4>1, <4>2
    <3>2. CASE x # y
      <4>1. ASSUME C[k + 1] = T[N(k + 1)] PROVE FALSE
        <5>1. Joined(C[k], s, x) = Joined(T[N(k)], s, y)
          BY <2>4, <2>5, <4>1
        <5>2. s = T[N(k)]
          BY <2>6, <3>2, <5>1, JoinedSides
        <5> QED BY <2>5, <5>2
      <4> QED BY <3>2, <4>1
    <3> QED BY <3>1, <3>2
  <2> QED BY <2>2, <2>7, <2>8
<1>6. H \in S
  <2> HIDE DEF S, H
  <2> QED BY <1>1, <1>4, <1>5, SetInduction
<1>7. C[H] = T[0] <=> h0 = PkAt(lv, leaf) /\ SameBits(idx, leaf, H)
  BY <1>1, <1>3, <1>6
<1> QED BY <1>7 DEF C, T

(* Whatever the siblings, a climb that turns where the leaf does and ends  *)
(* in the root starts with the leaf's public key.                          *)
LEMMA ClimbStarts ==
  ASSUME NEW lv \in Nat \ {0}, NEW d \in Depths, NEW leaf \in 0..(Leaves(d) - 1), NEW h0, NEW sib,
         Climb(h0, sib, leaf, d - 1)[d - 1] = Tree(lv, d)[0]
  PROVE  h0 = PkAt(lv, leaf)
<1> DEFINE H == d - 1
           C == Climb(h0, sib, leaf, H)
           T == Tree(lv, d)
           N(i) == Node(d, leaf, i)
           S == {k \in Nat : k <= H => (C[k] = T[N(k)] => h0 = PkAt(lv, leaf))}
<1>1. H \in Nat /\ d \in Nat /\ leaf \in Nat
  BY LeavesIs
<1>2. Climbs(C, h0, sib, leaf, H)
  <2> HIDE DEF H
  <2> QED BY <1>1, ClimbIs
<1>3. T[N(0)] = PkAt(lv, leaf) /\ N(H) = 0
  BY PathEnds
<1> HIDE DEF C, T, N
<1>4. 0 \in S
  <2>1. C[0] = h0
    BY <1>2 DEF Climbs
  <2> QED BY <1>3, <2>1
<1>5. ASSUME NEW k \in Nat, k \in S PROVE k + 1 \in S
  <2> SUFFICES ASSUME k + 1 <= H, C[k + 1] = T[N(k + 1)] PROVE h0 = PkAt(lv, leaf)
    OBVIOUS
  <2>1. k + 1 \in 1..H /\ (k + 1) - 1 = k /\ k <= H /\ k \in 0..(d - 2)
    BY <1>1
  <2> DEFINE s == T[Beside(N(k))]
             y == IndexBit(leaf, k)
  <2>2. C[k + 1] = Joined(C[k], sib[k + 1], y)
    <3> HIDE DEF H
    <3> QED BY <1>2, <2>1 DEF Climbs
  <2>3. T[N(k + 1)] = Joined(T[N(k)], s, y)
    BY <2>1, UpJoins DEF T, N
  <2> HIDE DEF s, y
  <2>4. C[k] = T[N(k)]
    <3>1. Joined(C[k], sib[k + 1], y) = Joined(T[N(k)], s, y)
      BY <2>2, <2>3
    <3> QED BY <3>1, JoinedSame
  <2> QED BY <1>5, <2>1, <2>4
<1>6. H \in S
  <2> HIDE DEF S, H
  <2> QED BY <1>1, <1>4, <1>5, SetInduction
<1>7. C[H] = T[0]
  BY DEF C, T
<1> QED BY <1>1, <1>3, <1>6, <1>7

-----------------------------------------------------------------------------
(* Signatures: what sign writes, and what verify makes of any state of the *)
(* same length.                                                            *)
KeyOf(lv, d) == mss_generate(lv, d, IssuerSeed)
SignedBy(lv, d, leaf, m) == mss_sign(KeyOf(lv, d), leaf, m)

Holds(s, lv, d, leaf, m) ==
  /\ s = [k \in 1..((lv + 1) * FragmentLen) |-> s[k]]
  /\ \A k \in 1..(lv * FragmentLen) : s[k] = Rehash(KeyAt(lv, leaf)[k], MaxTryte - m[k])
  /\ \A k \in 1..(d - 1) : s[lv * FragmentLen + k] = Tree(lv, d)[Beside(Node(d, leaf, k - 1))]
  /\ \A k \in 1..FragmentLen : k > d - 1 => s[lv * FragmentLen + k] = ZeroHash

LEMMA OneMore ==
  ASSUME NEW n \in Nat
  PROVE  /\ n * FragmentLen \in Nat /\ FragmentLen \in Nat \ {0}
         /\ (n + 1) * FragmentLen = n * FragmentLen + FragmentLen
BY SigningAssumption

LEMMA KeyHas ==
  ASSUME NEW lv, NEW d \in Depths, NEW leaf \in 0..(Leaves(d) - 1)
  PROVE  KeyOf(lv, d).depth = d /\ KeyOf(lv, d).tree = Tree(lv, d) /\ KeyOf(lv, d).keys[leaf + 1] = KeyAt(lv, leaf)
<1>1. Leaves(d) \in Nat
  BY LeavesIs
<1>2. leaf + 1 \in 1..Leaves(d) /\ (leaf + 1) - 1 = leaf
  BY <1>1
<1> QED BY <1>2 DEF KeyOf, mss_generate, Tree, KeyAt

LEMMA SignatureHolds ==
  ASSUME NEW lv \in Nat \ {0}, NEW d \in Depths, NEW leaf \in 0..(Leaves(d) - 1), NEW m
  PROVE  Holds(SignedBy(lv, d, leaf, m), lv, d, leaf, m)
<1> DEFINE N == lv * FragmentLen
           F == FragmentLen
           H == d - 1
           K == KeyAt(lv, leaf)
           w == wots_sign(K, m)
           sib(k) == Tree(lv, d)[Beside(Node(d, leaf, k - 1))]
           s == SignedBy(lv, d, leaf, m)
<1>1. N \in Nat /\ F \in Nat \ {0} /\ (lv + 1) * F = N + F
  BY OneMore
<1>2. H \in Nat /\ H <= F
  BY LeavesIs, <1>1, MilestoneAssumption
<1>3. w = [k \in 1..N |-> Rehash(K[k], MaxTryte - m[k])]
  <2>1. DOMAIN K = 1..N
    BY KeyIs
  <2> QED BY <2>1 DEF wots_sign
<1>4. Len(w) = N
  <2> HIDE DEF N, K
  <2> QED BY <1>1, <1>3
<1>5. Siblings(KeyOf(lv, d), leaf) = [k \in 1..H |-> sib(k)]
  BY KeyHas DEF Siblings, Node
<1>6. s = [k \in 1..(N + F) |-> IF k <= N THEN w[k]
                               ELSE IF k - N <= H THEN [j \in 1..H |-> sib(j)][k - N] ELSE ZeroHash]
  <2> HIDE DEF sib, N, w
  <2>1. wots_sign(KeyOf(lv, d).keys[leaf + 1], m) = w /\ KeyOf(lv, d).depth - 1 = H
    BY KeyHas DEF w
  <2> HIDE DEF H
  <2> QED BY <1>4, <1>5, <2>1 DEF SignedBy, mss_sign
<1> HIDE DEF N, F, H, sib, s, K, w
<1>7. s = [k \in 1..(N + F) |-> s[k]]
  BY <1>6
<1>8. ASSUME NEW k \in 1..N PROVE s[k] = Rehash(K[k], MaxTryte - m[k])
  <2>1. k \in 1..(N + F) /\ k <= N
    BY <1>1
  <2> QED BY <1>3, <1>6, <2>1
<1>9. ASSUME NEW k \in 1..F
      PROVE  s[N + k] = IF k <= H THEN [j \in 1..H |-> sib(j)][k] ELSE ZeroHash
  <2>1. N + k \in 1..(N + F) /\ ~(N + k <= N) /\ (N + k) - N = k
    BY <1>1
  <2> QED BY <1>6, <2>1
<1>10. ASSUME NEW k \in 1..H PROVE s[N + k] = sib(k)
  <2>1. k \in 1..F /\ k <= H
    BY <1>1, <1>2
  <2> QED BY <1>9, <2>1
<1>11. ASSUME NEW k \in 1..F, k > H PROVE s[N + k] = ZeroHash
  <2>1. ~(k <= H)
    BY <1>2, <1>11
  <2> QED BY <1>9, <2>1
<1> QED BY <1>1, <1>7, <1>8, <1>10, <1>11 DEF Holds, N, F, H, sib, s, K

Chunked(s, lv) == s = [k \in 1..((lv + 1) * FragmentLen) |-> s[k]]
RecoveredFrom(s, m, lv) == [k \in 1..(lv * FragmentLen) |-> Rehash(s[k], m[k] + MaxTryte)]
SiblingsIn(s, lv) == [k \in 1..FragmentLen |-> s[lv * FragmentLen + k]]

LEMMA ChunkedLen ==
  ASSUME NEW lv \in Nat, NEW s, Chunked(s, lv)
  PROVE  Len(s) = (lv + 1) * FragmentLen /\ Len(s) \div FragmentLen = lv + 1
<1> DEFINE n == (lv + 1) * FragmentLen
<1>1. n \in Nat /\ n \div FragmentLen = lv + 1
  <2>1. lv + 1 \in Nat
    OBVIOUS
  <2> QED BY <2>1, OneMore, CountFragments
<1>2. s = [k \in 1..n |-> s[k]]
  BY DEF Chunked
<1> HIDE DEF n
<1>3. Len(s) = n
  BY <1>1, <1>2
<1> QED BY <1>1, <1>3 DEF n

LEMMA VerifyIs ==
  ASSUME NEW lv \in Nat \ {0}, NEW s, Chunked(s, lv), NEW pk, NEW d, NEW m, NEW idx
  PROVE  mss_verify(pk, d, m, s, idx)
           <=> Climb(AddressOf(RecoveredFrom(s, m, lv)), SiblingsIn(s, lv), idx, d - 1)[d - 1] = pk
<1>1. OtsSize(s) = lv * FragmentLen
  <2>1. Len(s) \div FragmentLen = lv + 1 /\ (lv + 1) - 1 = lv
    BY ChunkedLen
  <2> QED BY <2>1 DEF OtsSize
<1> DEFINE N == lv * FragmentLen
           part == [i \in 1..N |-> s[i]]
<1>2. wots_recover_public_key(part, m) = AddressOf(RecoveredFrom(s, m, lv))
  <2>1. [i \in DOMAIN part |-> Rehash(part[i], m[i] + MaxTryte)] = RecoveredFrom(s, m, lv)
    BY DEF RecoveredFrom
  <2> QED BY <2>1 DEF wots_recover_public_key
<1> QED BY <1>1, <1>2 DEF mss_verify, SiblingsIn

(* A signature verifies exactly for its own message, as far as the         *)
(* security level goes, and its own index, as far as the depth goes.       *)
Agree(m, m0, lv) == \A k \in 1..(lv * FragmentLen) : m[k] = m0[k]

LEMMA VerifiesOwn ==
  ASSUME NEW lv \in 1..SECURITY_LEVEL_MAX, NEW d \in Depths, NEW leaf \in 0..(Leaves(d) - 1), NEW idx \in Nat,
         NEW m \in HashTrytes, NEW m0 \in HashTrytes
  PROVE  mss_verify(Tree(lv, d)[0], d, m, SignedBy(lv, d, leaf, m0), idx)
           <=> Agree(m, m0, lv) /\ SameBits(idx, leaf, d - 1)
<1> DEFINE s == SignedBy(lv, d, leaf, m0)
           a == RecoveredFrom(s, m, lv)
           N == lv * FragmentLen
           M == MaxTryte
           K == KeyAt(lv, leaf)
<1>1. M \in Nat /\ lv \in Nat \ {0} /\ N \in Nat /\ N <= SECURITY_LEVEL_MAX * FragmentLen
      /\ SECURITY_LEVEL_MAX * FragmentLen \in Nat
  BY SigningAssumption, Grows
<1>2. Holds(s, lv, d, leaf, m0)
  BY <1>1, SignatureHolds
<1>3. leaf \in 0..(SeedCount - 1)
  <2>1. SeedCount \in Nat
    <3>1. Len(IssuerSeed) \in Nat
      BY MilestoneAssumption
    <3> QED BY <3>1, PowerStep DEF SeedCount
  <2> QED BY <2>1, LeavesIs
<1> HIDE DEF s
<1>4. ASSUME NEW k \in 1..N PROVE a[k] = Rehash(K[k], 2 * M) <=> m[k] = m0[k]
  <2>1. m[k] \in Tryte /\ m0[k] \in Tryte
    BY <1>1 DEF HashTrytes
  <2> DEFINE x == M - m0[k]
             y == m[k] + M
  <2>2. x \in Nat /\ y \in Nat /\ x + y \in Nat /\ (x + y = 2 * M <=> m[k] = m0[k]) /\ 2 * M \in Nat
    <3>1. M \in Nat /\ m[k] \in (-M)..M /\ m0[k] \in (-M)..M
      BY <1>1, <2>1 DEF Tryte
    <3> HIDE DEF M
    <3> QED BY <3>1
  <2>3. a[k] = Rehash(s[k], y)
    BY DEF RecoveredFrom
  <2>4. s[k] = Rehash(K[k], x)
    BY <1>2 DEF Holds
  <2> HIDE DEF a, x, y
  <2>5. a[k] = Rehash(K[k], x + y)
    BY <2>2, <2>3, <2>4, RehashAdds
  <2>6. Atom(K[k])
    BY <1>1, KeyIs
  <2>7. ASSUME Rehash(K[k], x + y) = Rehash(K[k], 2 * M) PROVE x + y = 2 * M
    BY <2>2, <2>6, <2>7, ChainsMeet
  <2> HIDE DEF K
  <2> QED BY <2>2, <2>5, <2>7
<1>5. AddressOf(a) = PkAt(lv, leaf) <=> Agree(m, m0, lv)
  <2>1. a = [k \in 1..N |-> a[k]]
    BY DEF RecoveredFrom
  <2> HIDE DEF a
  <2>2. AddressOf(a) = PkAt(lv, leaf) <=> \A k \in 1..N : a[k] = Rehash(K[k], 2 * M)
    BY <1>1, <1>3, <2>1, AddressMeets
  <2> QED BY <1>4, <2>2 DEF Agree
<1>6. OwnSiblings(SiblingsIn(s, lv), lv, d, leaf)
  <2> SUFFICES ASSUME NEW k \in 1..(d - 1) PROVE SiblingsIn(s, lv)[k] = Tree(lv, d)[Beside(Node(d, leaf, k - 1))]
    BY DEF OwnSiblings
  <2>1. k \in 1..FragmentLen
    <3>1. d - 1 \in Nat /\ d - 1 <= FragmentLen /\ FragmentLen \in Nat
      BY LeavesIs, MilestoneAssumption, SigningAssumption
    <3> QED BY <3>1
  <2>2. SiblingsIn(s, lv)[k] = s[lv * FragmentLen + k]
    BY <2>1 DEF SiblingsIn
  <2> QED BY <1>2, <2>2 DEF Holds
<1>7. Chunked(s, lv)
  BY <1>2 DEF Holds, Chunked
<1> HIDE DEF a
<1>8. mss_verify(Tree(lv, d)[0], d, m, s, idx) <=> Climb(AddressOf(a), SiblingsIn(s, lv), idx, d - 1)[d - 1] = Tree(lv, d)[0]
  BY <1>1, <1>7, VerifyIs DEF a
<1>9. Climb(AddressOf(a), SiblingsIn(s, lv), idx, d - 1)[d - 1] = Tree(lv, d)[0]
        <=> AddressOf(a) = PkAt(lv, leaf) /\ SameBits(idx, leaf, d - 1)
  BY <1>1, <1>6, ClimbMeets
<1> QED BY <1>5, <1>8, <1>9 DEF s

-----------------------------------------------------------------------------
(* The bundle of a signature, and what MilestoneBuilder makes of a bundle. *)
HoldsMilestone(tx, lv, s, pk, tag, hash) ==
  /\ Len(tx) = lv + 1 /\ tx # << >>
  /\ tx[1].address = pk /\ tx[1].obsolete_tag = tag /\ tx[lv].trunk = hash
  /\ SignatureBuf(tx) = s

LEMMA ValidateIs ==
  ASSUME NEW lv \in Nat \ {0}, NEW tx, NEW s, NEW pk, NEW tag, NEW hash, NEW d,
         HoldsMilestone(tx, lv, s, pk, tag, hash)
  PROVE  LET r == milestone_validate(tx, d)
         IN  IF ~FitsI64(tag) THEN r.err = "InvalidIndex"
             ELSE /\ r.err = IF mss_verify(pk, d, normalize_hash(hash), s, TagToIndex(tag)) THEN "none"
                             ELSE "InvalidSignature"
                  /\ milestone_build(r) = TagToIndex(tag)
<1> DEFINE r == milestone_validate(tx, d)
           v == validate_signatures(tx, d, TagToIndex(tag))
<1>1. tx # << >> /\ tx[1].obsolete_tag = tag
  BY DEF HoldsMilestone
<1>2. v = IF mss_verify(pk, d, normalize_hash(hash), s, TagToIndex(tag)) THEN "none" ELSE "InvalidSignature"
  <2>1. Len(tx) = lv + 1 /\ ~(lv + 1 < 2) /\ (lv + 1) - 1 = lv
    BY DEF HoldsMilestone
  <2>2. tx[1].address = pk /\ tx[lv].trunk = hash /\ SignatureBuf(tx) = s
    BY DEF HoldsMilestone
  <2> QED BY <2>1, <2>2 DEF validate_signatures
<1> HIDE DEF v
<1>3. r = IF ~FitsI64(tag) THEN [err |-> "InvalidIndex"] ELSE [err |-> v, index |-> TagToIndex(tag)]
  BY <1>1 DEF milestone_validate, v
<1> HIDE DEF r
<1>4. CASE ~FitsI64(tag)
  <2>1. r.err = "InvalidIndex"
    BY <1>3, <1>4
  <2> QED BY <1>4, <2>1 DEF r
<1>5. CASE FitsI64(tag)
  <2>1. r.err = v /\ r.index = TagToIndex(tag)
    BY <1>3, <1>5
  <2> QED BY <1>2, <1>5, <2>1 DEF r, milestone_build
<1> QED BY <1>4, <1>5

(* Fragments side by side, read one after another.                         *)
LEMMA BufIs ==
  ASSUME NEW lv \in Nat, NEW tx, Len(tx) = lv + 1, NEW s, Chunked(s, lv),
         \A t \in 1..(lv + 1) : tx[t].payload = Fragment(s, t)
  PROVE  SignatureBuf(tx) = s
<1> DEFINE n == lv + 1
<1>1. ASSUME NEW k \in 1..(n * FragmentLen) PROVE tx[FragmentOf(k)].payload[PlaceIn(k)] = s[k]
  <2>1. /\ FragmentOf(k) \in 1..n /\ PlaceIn(k) \in 1..FragmentLen
        /\ (FragmentOf(k) - 1) * FragmentLen + PlaceIn(k) = k
    <3>1. n \in Nat
      OBVIOUS
    <3> HIDE DEF n
    <3> QED BY <3>1, FragmentHas DEF InFragment
  <2>2. tx[FragmentOf(k)].payload = Fragment(s, FragmentOf(k))
    BY <2>1
  <2>3. Fragment(s, FragmentOf(k)) = [j \in 1..FragmentLen |-> s[(FragmentOf(k) - 1) * FragmentLen + j]]
    BY <2>1, FragmentIs
  <2> QED BY <2>1, <2>2, <2>3
<1>2. s = [k \in 1..(n * FragmentLen) |-> s[k]]
  BY DEF Chunked
<1>3. Len(tx) = n
  OBVIOUS
<1> HIDE DEF n
<1> QED BY <1>1, <1>2, <1>3 DEF SignatureBuf

LEMMA BundleOf ==
  ASSUME NEW lv \in Nat \ {0}, NEW s, Chunked(s, lv), NEW tag, NEW hash
  PROVE  LET b == MilestoneBundle(s, tag, hash)
         IN  /\ b = [t \in 1..(lv + 1) |-> b[t]] /\ Len(b) = lv + 1
             /\ \A t \in 1..(lv + 1) : /\ b[t].payload = Fragment(s, t) /\ b[t].address = key.tree[0]
                                       /\ b[t].obsolete_tag = tag /\ b[t].trunk = hash
<1> DEFINE b == MilestoneBundle(s, tag, hash)
           n == lv + 1
<1>1. n \in Nat
  OBVIOUS
<1>2. Len(s) \div FragmentLen = n
  BY ChunkedLen
<1>3. b = [t \in 1..n |-> [payload |-> Fragment(s, t), address |-> key.tree[0], obsolete_tag |-> tag, trunk |-> hash]]
  BY <1>2 DEF MilestoneBundle, mss_generate_public_key
<1> HIDE DEF n, b
<1>4. b = [t \in 1..n |-> b[t]] /\ Len(b) = n
  BY <1>1, <1>3
<1>5. \A t \in 1..n : /\ b[t].payload = Fragment(s, t) /\ b[t].address = key.tree[0]
                     /\ b[t].obsolete_tag = tag /\ b[t].trunk = hash
  BY <1>3
<1> QED BY <1>4, <1>5 DEF n, b

LEMMA BundleHolds ==
  ASSUME NEW lv \in Nat \ {0}, NEW s, Chunked(s, lv), NEW tag, NEW hash
  PROVE  HoldsMilestone(MilestoneBundle(s, tag, hash), lv, s, key.tree[0], tag, hash)
<1> DEFINE b == MilestoneBundle(s, tag, hash)
<1>1. Len(b) = lv + 1
  BY BundleOf
<1>2. \A t \in 1..(lv + 1) : /\ b[t].payload = Fragment(s, t) /\ b[t].address = key.tree[0]
                             /\ b[t].obsolete_tag = tag /\ b[t].trunk = hash
  BY BundleOf
<1> HIDE DEF b
<1>3. SignatureBuf(b) = s
  BY <1>1, <1>2, BufIs
<1>4. 1 \in 1..(lv + 1) /\ lv \in 1..(lv + 1)
  OBVIOUS
<1>5. b # << >>
  BY <1>1
<1> QED BY <1>1, <1>2, <1>3, <1>4, <1>5 DEF HoldsMilestone, b

-----------------------------------------------------------------------------
(* Of the message the part under the security level counts ...             *)
LEMMA PartIs ==
  ASSUME NEW m \in HashTrytes, NEW lv \in 1..SECURITY_LEVEL_MAX
  PROVE  /\ SubSeq(m, 1, lv * FragmentLen) = [k \in 1..(lv * FragmentLen) |-> m[k]]
<1> DEFINE N == lv * FragmentLen
           x == SubSeq(m, 1, N)
<1>1. N \in Nat /\ 1 \in Int /\ N \in Int /\ N <= SECURITY_LEVEL_MAX * FragmentLen /\ SECURITY_LEVEL_MAX * FragmentLen \in Nat
  BY SigningAssumption, Grows
<1>2. \A i \in 1..N : m[i] \in Tryte
  BY <1>1 DEF HashTrytes
<1> HIDE DEF N
<1>3. /\ x \in Seq(Tryte)
      /\ Len(x) = IF 1 <= N THEN N - 1 + 1 ELSE 0
      /\ \A i \in 1..(N - 1 + 1) : x[i] = m[1 + i - 1]
  BY <1>1, <1>2, SubSeqProperties
<1> HIDE DEF x
<1>4. N - 1 + 1 = N /\ (~(1 <= N) => N = 0) /\ \A i \in 1..N : 1 + i - 1 = i
  BY <1>1
<1>5. Len(x) = N /\ \A i \in 1..N : x[i] = m[i]
  BY <1>3, <1>4
<1>6. x = [k \in 1..N |-> x[k]]
  BY <1>3, <1>5
<1> QED BY <1>5, <1>6 DEF x, N

LEMMA PartsAgree ==
  ASSUME NEW m \in HashTrytes, NEW m0 \in HashTrytes, NEW lv \in 1..SECURITY_LEVEL_MAX
  PROVE  SubSeq(m, 1, lv * FragmentLen) = SubSeq(m0, 1, lv * FragmentLen) <=> Agree(m, m0, lv)
<1> DEFINE N == lv * FragmentLen
           x == SubSeq(m, 1, N)
           y == SubSeq(m0, 1, N)
<1>1. x = [k \in 1..N |-> m[k]] /\ y = [k \in 1..N |-> m0[k]]
  BY PartIs
<1> HIDE DEF x, y, N
<1>2. x = y <=> \A k \in 1..N : m[k] = m0[k]
  BY <1>1
<1> QED BY <1>2 DEF x, y, N, Agree

(* ... and of the index the bits under the depth.                          *)
LEMMA IndexCut ==
  ASSUME NEW d \in Depths, NEW tag \in Int, NEW leaf \in 0..(Leaves(d) - 1)
  PROVE  /\ TagToIndex(tag) \in Nat
         /\ SameBits(TagToIndex(tag), leaf, d - 1) <=> tag % Leaves(d) = leaf
<1> DEFINE p == Leaves(d)
           e == IndexBits - (d - 1)
           q == Power(2, e)
           i == TagToIndex(tag)
<1>1. d - 1 \in Nat /\ p \in Nat \ {0} /\ p = Power(2, d - 1) /\ leaf \in Nat
  BY LeavesIs
<1>2. e \in Nat /\ (d - 1) + e = IndexBits /\ IndexBits \in Nat
  <2>1. d \in 1..DepthMax /\ DepthMax \in Nat /\ IndexBits \in Nat /\ DepthMax - 1 <= IndexBits
    BY MilestoneAssumption
  <2> QED BY <2>1
<1>3. q \in Nat \ {0}
  <2>1. 2 \in Nat \ {0}
    OBVIOUS
  <2> HIDE DEF e
  <2>2. Power(2, e) \in Nat /\ Power(2, e) > 0
    BY <1>2, <2>1, PowerPositive
  <2> QED BY <2>2
<1>4. IndexRange = p * q
  <2>1. 2 \in Nat
    OBVIOUS
  <2> HIDE DEF e
  <2>2. Power(2, (d - 1) + e) = Power(2, d - 1) * Power(2, e)
    BY <1>1, <1>2, <2>1, PowerAdds
  <2> QED BY <1>1, <1>2, <2>2 DEF IndexRange
<1> HIDE DEF p, q, e
<1>5. p * q \in Nat \ {0}
  BY <1>1, <1>3
<1>6. i \in Nat
  <2> DEFINE R == p * q
  <2>1. i = tag % R /\ R \in Nat \ {0}
    BY <1>4, <1>5 DEF TagToIndex
  <2> HIDE DEF R, i
  <2> QED BY <2>1
<1>7. i % p = tag % p
  BY <1>1, <1>3, <1>4, ModOfMod DEF TagToIndex
<1>8. leaf % p = leaf
  <2>1. leaf \in 0..(p - 1) /\ 0 \in Int
    BY DEF p
  <2>2. (p * 0 + leaf) % p = leaf
    BY <1>1, <2>1, ModIs
  <2>3. p * 0 + leaf = leaf
    BY <1>1
  <2> QED BY <2>2, <2>3
<1> HIDE DEF i
<1>9. SameBits(i, leaf, d - 1) <=> i % p = leaf % p
  BY <1>1, <1>6, BitsAreMod
<1> QED BY <1>6, <1>7, <1>8, <1>9 DEF i, p

-----------------------------------------------------------------------------
(* What is signed with a leaf validates as it was signed.                  *)
KeyReady == level \in Levels /\ depth \in Depths /\ key = KeyOf(level, depth)

LEMMA LevelsAre == ASSUME NEW lv \in Levels PROVE lv \in 1..SECURITY_LEVEL_MAX /\ lv \in Nat \ {0}
BY MilestoneAssumption, SigningAssumption

LEMMA KeyRoot == ASSUME KeyReady PROVE key.tree[0] = Tree(level, depth)[0]
BY DEF KeyReady, KeyOf, mss_generate, Tree

LEMMA SignedIs ==
  ASSUME KeyReady, NEW hash, NEW leaf \in 0..(Leaves(depth) - 1)
  PROVE  LET it == SignedWith(hash, leaf)
         IN  /\ it.hash = hash /\ it.leaf = leaf
             /\ it.signature = SignedBy(level, depth, leaf, normalize_hash(hash))
             /\ Holds(it.signature, level, depth, leaf, normalize_hash(hash)) /\ Chunked(it.signature, level)
<1> DEFINE it == SignedWith(hash, leaf)
           s == SignedBy(level, depth, leaf, normalize_hash(hash))
<1>1. it.hash = hash /\ it.leaf = leaf /\ it.signature = s
  BY DEF SignedWith, SignedBy, KeyReady
<1>2. level \in Nat \ {0} /\ depth \in Depths
  BY LevelsAre DEF KeyReady
<1>3. Holds(s, level, depth, leaf, normalize_hash(hash))
  BY <1>2, SignatureHolds
<1>4. Chunked(s, level)
  BY <1>3 DEF Holds, Chunked
<1> QED BY <1>1, <1>3, <1>4

LEMMA OwnValidates ==
  ASSUME KeyReady, NEW hash0 \in Trunks, NEW leaf \in 0..(Leaves(depth) - 1)
  PROVE  ValidatesAsSigned(SignedWith(hash0, leaf))
<1> DEFINE it == SignedWith(hash0, leaf)
           m0 == normalize_hash(hash0)
           s == SignedBy(level, depth, leaf, m0)
<1>1. it.hash = hash0 /\ it.leaf = leaf /\ it.signature = s /\ Chunked(s, level)
  BY SignedIs
<1> HIDE DEF it, s
<1>2. level \in 1..SECURITY_LEVEL_MAX /\ level \in Nat \ {0} /\ depth \in Depths
  BY LevelsAre DEF KeyReady
<1>3. m0 \in HashTrytes
  BY HashNormalized, MilestoneAssumption
<1> HIDE DEF m0
<1> SUFFICES ASSUME NEW tag \in ObsoleteTags, NEW hash \in Trunks
    PROVE  LET r == milestone_validate(MilestoneBundle(it.signature, tag, hash), depth)
           IN  IF ~FitsI64(tag) THEN r.err = "InvalidIndex"
               ELSE IF SignedPart(hash) = SignedPart(it.hash) /\ tag % Leaves(depth) = it.leaf
               THEN r.err = "none" /\ milestone_build(r) = tag % IndexRange
               ELSE r.err = "InvalidSignature"
  BY DEF ValidatesAsSigned, it
<1> DEFINE m == normalize_hash(hash)
           r == milestone_validate(MilestoneBundle(s, tag, hash), depth)
           ok == mss_verify(key.tree[0], depth, m, s, TagToIndex(tag))
<1>4. tag \in Int
  BY MilestoneAssumption
<1>5. m \in HashTrytes
  BY HashNormalized, MilestoneAssumption
<1>6. HoldsMilestone(MilestoneBundle(s, tag, hash), level, s, key.tree[0], tag, hash)
  BY <1>1, <1>2, BundleHolds
<1>7. IF ~FitsI64(tag) THEN r.err = "InvalidIndex"
      ELSE /\ r.err = IF ok THEN "none" ELSE "InvalidSignature"
           /\ milestone_build(r) = TagToIndex(tag)
  BY <1>2, <1>6, ValidateIs
<1> HIDE DEF r, m, ok
<1>8. TagToIndex(tag) \in Nat /\ (SameBits(TagToIndex(tag), leaf, depth - 1) <=> tag % Leaves(depth) = leaf)
  BY <1>2, <1>4, IndexCut
<1>9. ok <=> Agree(m, m0, level) /\ SameBits(TagToIndex(tag), leaf, depth - 1)
  <2>1. mss_verify(Tree(level, depth)[0], depth, m, s, TagToIndex(tag))
          <=> Agree(m, m0, level) /\ SameBits(TagToIndex(tag), leaf, depth - 1)
    BY <1>2, <1>3, <1>5, <1>8, VerifiesOwn DEF s
  <2> QED BY <2>1, KeyRoot DEF ok
<1>10. SignedPart(hash) = SignedPart(hash0) <=> Agree(m, m0, level)
  BY <1>2, <1>3, <1>5, PartsAgree DEF SignedPart, m, m0
<1>11. ok <=> SignedPart(hash) = SignedPart(hash0) /\ tag % Leaves(depth) = leaf
  BY <1>8, <1>9, <1>10
<1>12. IF ~FitsI64(tag) THEN r.err = "InvalidIndex"
       ELSE IF SignedPart(hash) = SignedPart(hash0) /\ tag % Leaves(depth) = leaf
       THEN r.err = "none" /\ milestone_build(r) = tag % IndexRange
       ELSE r.err = "InvalidSignature"
  BY <1>7, <1>11 DEF TagToIndex
<1> QED BY <1>1, <1>12 DEF r

(* No one-time key is the key of two leaves.                               *)
LEMMA SeedsEnough ==
  ASSUME NEW d \in Depths, NEW leaf \in 0..(Leaves(d) - 1)
  PROVE  leaf \in 0..(SeedCount - 1)
<1>1. Len(IssuerSeed) \in Nat
  BY MilestoneAssumption
<1>2. SeedCount \in Nat
  BY <1>1, PowerStep DEF SeedCount
<1> QED BY <1>2, LeavesIs

LEMMA KeysDiffer ==
  ASSUME KeyReady, NEW i \in 0..(Leaves(depth) - 1), NEW j \in 0..(Leaves(depth) - 1), key.keys[i + 1] = key.keys[j + 1]
  PROVE  i = j
<1>1. level \in Nat \ {0} /\ depth \in Depths
  BY LevelsAre DEF KeyReady
<1>2. KeyAt(level, i) = KeyAt(level, j)
  <2>1. key.keys[i + 1] = KeyAt(level, i) /\ key.keys[j + 1] = KeyAt(level, j)
    BY <1>1, KeyHas DEF KeyReady
  <2> QED BY <2>1
<1>3. 1 \in 1..(level * FragmentLen)
  <2>1. level * FragmentLen \in Nat /\ level * FragmentLen >= 1
    BY <1>1, SigningAssumption
  <2> QED BY <2>1
<1>4. i \in 0..(SeedCount - 1) /\ j \in 0..(SeedCount - 1)
  BY <1>1, SeedsEnough
<1> QED BY <1>1, <1>2, <1>3, <1>4, ChunksDiffer

-----------------------------------------------------------------------------
(* Normalization.  A sum that is not zero has a tryte that can still move  *)
(* towards zero, so that every move counts.                                *)
LEMMA SumSign ==
  ASSUME NEW N \in Nat, NEW t, IntsTo(t, N)
  PROVE  /\ SumTo(t, N) > 0 => \E k \in 1..N : t[k] > 0
         /\ SumTo(t, N) < 0 => \E k \in 1..N : t[k] < 0
<1> DEFINE above == \E k \in 1..N : t[k] > 0
           below == \E k \in 1..N : t[k] < 0
           Shows(n) == (SumTo(t, n) > 0 => above) /\ (SumTo(t, n) < 0 => below)
           S == {n \in Nat : n <= N => Shows(n)}
<1>1. SumsUp(t, N)
  BY SumToIs
<1>2. 0 \in S
  <2>1. SumTo(t, 0) = 0
    BY <1>1 DEF SumsUp
  <2> QED BY <2>1
<1>3. ASSUME NEW n \in Nat, n \in S PROVE n + 1 \in S
  <2> SUFFICES ASSUME n + 1 <= N PROVE Shows(n + 1)
    OBVIOUS
  <2>1. n + 1 \in 1..N /\ (n + 1) - 1 = n /\ n \in 0..N /\ n <= N
    OBVIOUS
  <2>2. SumTo(t, n + 1) = SumTo(t, n) + t[n + 1] /\ SumTo(t, n) \in Int /\ t[n + 1] \in Int
    BY <1>1, <2>1 DEF SumsUp, IntsTo
  <2>3. /\ SumTo(t, n + 1) > 0 => SumTo(t, n) > 0 \/ t[n + 1] > 0
        /\ SumTo(t, n + 1) < 0 => SumTo(t, n) < 0 \/ t[n + 1] < 0
    BY <2>2
  <2>4. (t[n + 1] > 0 => above) /\ (t[n + 1] < 0 => below)
    BY <2>1
  <2> HIDE DEF above, below
  <2>5. Shows(n)
    BY <1>3, <2>1
  <2> QED BY <2>3, <2>4, <2>5
<1>4. N \in S
  <2> HIDE DEF S
  <2> QED BY <1>2, <1>3, SetInduction
<1>5. Shows(N)
  <2> HIDE DEF above, below
  <2> QED BY <1>4
<1> QED BY <1>5

TryteFragments == [1..FragmentLen -> Tryte]

LEMMA MoveCounts ==
  ASSUME NEW f \in TryteFragments, NEW dir \in {-1, 1},
         IF dir < 0 THEN SumTo(f, FragmentLen) > 0 ELSE SumTo(f, FragmentLen) < 0
  PROVE  SumTo(Moved(f, dir), FragmentLen) = SumTo(f, FragmentLen) + dir
<1> DEFINE L == FragmentLen
           free == {j \in DOMAIN f : IF dir < 0 THEN f[j] > -MaxTryte ELSE f[j] < MaxTryte}
           g == Moved(f, dir)
<1>1. L \in Nat /\ MaxTryte \in Nat /\ DOMAIN f = 1..L /\ \A k \in 1..L : f[k] \in Tryte
  BY SigningAssumption DEF TryteFragments
<1>2. IntsTo(f, L)
  BY <1>1, TryteIsInt DEF IntsTo
<1>3. \E k \in 1..L : IF dir < 0 THEN f[k] > 0 ELSE f[k] < 0
  <2>1. /\ SumTo(f, L) > 0 => \E k \in 1..L : f[k] > 0
        /\ SumTo(f, L) < 0 => \E k \in 1..L : f[k] < 0
    BY <1>1, <1>2, SumSign
  <2> QED BY <2>1
<1>4. free # {}
  <2>1. PICK k \in 1..L : IF dir < 0 THEN f[k] > 0 ELSE f[k] < 0
    BY <1>3
  <2>2. f[k] \in Int
    BY <1>2 DEF IntsTo
  <2>3. IF dir < 0 THEN f[k] > -MaxTryte ELSE f[k] < MaxTryte
    BY <1>1, <2>1, <2>2
  <2> QED BY <1>1, <2>3
<1> DEFINE j == Min(free)
<1>5. j \in 1..L
  <2>1. free \subseteq 1..L /\ free \subseteq Nat
    BY <1>1
  <2> HIDE DEF free
  <2> QED BY <1>4, <2>1, MinIn
<1>6. g = [f EXCEPT ![j] = @ + dir]
  BY <1>4 DEF Moved
<1> HIDE DEF j, free
<1>7. g[j] = f[j] + dir /\ \A k \in 1..L : k # j => g[k] = f[k]
  BY <1>1, <1>5, <1>6
<1>8. IntsTo(g, L)
  <2>1. g \in [1..L -> Tryte]
    BY MovedTyped DEF TryteFragments
  <2> QED BY <2>1, TryteIsInt DEF IntsTo
<1>9. dir \in Int
  OBVIOUS
<1> HIDE DEF g, L
<1>10. SumTo(g, L) = SumTo(f, L) + dir
  BY <1>1, <1>2, <1>5, <1>7, <1>8, <1>9, SumChanges
<1> QED BY <1>10 DEF g, L

LEMMA NormalizedSum ==
  ASSUME NEW t \in TryteFragments, Len(t) = FragmentLen
  PROVE  SumTo(NormalizeFragment(t), FragmentLen) = 0
<1> DEFINE D == TryteFragments
           L == FragmentLen
           sum == SumTrytes(t)
           dir == IF sum > 0 THEN -1 ELSE 1
           N == Magnitude(sum)
           w == Moves(t, dir, N)
           S == {k \in Nat : k <= N => SumTo(w[k], L) = sum + dir * k}
<1>1. L \in Nat
  BY SigningAssumption
<1>2. sum \in Int /\ sum = SumTo(t, L)
  <2>1. IntsTo(t, L)
    BY TryteIsInt DEF IntsTo, TryteFragments
  <2>2. SumsUp(t, L)
    BY <1>1, <2>1, SumToIs
  <2> QED BY <1>1, <2>2 DEF SumsUp, SumTrytes
<1> HIDE DEF sum
<1>3. N \in Nat /\ dir \in {-1, 1} /\ sum + dir * N = 0
  BY <1>2 DEF Magnitude
<1>4. \A k \in Nat : k < N => IF dir < 0 THEN sum + dir * k > 0 ELSE sum + dir * k < 0
  BY <1>2 DEF Magnitude
<1>5. NormalizeFragment(t) = w[N]
  BY DEF NormalizeFragment, sum
<1> HIDE DEF dir, N
<1>6. \A f \in D : Moved(f, dir) \in D
  BY <1>3, MovedTyped DEF TryteFragments
<1>7. w \in [0..N -> D] /\ w[0] = t /\ \A k \in 1..N : w[k] = Moved(w[k - 1], dir)
  <2> HIDE DEF D
  <2>1. t \in D
    BY DEF D
  <2> QED BY <1>3, <1>6, <2>1, MovesIs
<1> HIDE DEF w, L
<1>8. 0 \in S
  BY <1>2, <1>3, <1>7
<1>9. ASSUME NEW k \in Nat, k \in S PROVE k + 1 \in S
  <2> SUFFICES ASSUME k + 1 <= N PROVE SumTo(w[k + 1], L) = sum + dir * (k + 1)
    OBVIOUS
  <2>1. k + 1 \in 1..N /\ (k + 1) - 1 = k /\ k \in 0..N /\ k < N /\ k <= N
    BY <1>3
  <2>2. w[k] \in D /\ w[k + 1] = Moved(w[k], dir)
    BY <1>7, <2>1
  <2>3. SumTo(w[k], L) = sum + dir * k
    BY <1>9, <2>1
  <2>4. IF dir < 0 THEN SumTo(w[k], L) > 0 ELSE SumTo(w[k], L) < 0
    BY <1>4, <2>1, <2>3
  <2>5. SumTo(Moved(w[k], dir), L) = SumTo(w[k], L) + dir
    BY <1>3, <2>2, <2>4, MoveCounts DEF L
  <2>6. dir * (k + 1) = dir * k + dir /\ dir * k \in Int /\ dir \in Int
    BY <1>3
  <2> QED BY <1>2, <2>2, <2>3, <2>5, <2>6
<1>10. N \in S
  <2> HIDE DEF S
  <2> QED BY <1>3, <1>8, <1>9, SetInduction
<1>11. SumTo(w[N], L) = 0
  BY <1>3, <1>10
<1> QED BY <1>5, <1>11 DEF L

LEMMA NormalizedFragment ==
  ASSUME NEW hash \in HashTrytes, NEW f \in 1..SECURITY_LEVEL_MAX
  PROVE  /\ Fragment(hash, f) \in TryteFragments /\ Len(Fragment(hash, f)) = FragmentLen
         /\ \A m \in 1..FragmentLen :
              Fragment(normalize_hash(hash), f)[m] = NormalizeFragment(Fragment(hash, f))[m]
<1> DEFINE L == FragmentLen
           M == SECURITY_LEVEL_MAX
           part(g) == NormalizeFragment(Fragment(hash, g))
<1>1. L \in Nat \ {0} /\ M \in Nat /\ f \in Nat \ {0}
  BY SigningAssumption
<1>2. f - 1 \in Nat /\ f * L = (f - 1) * L + L /\ (f - 1) * L \in Nat /\ f * L <= M * L /\ M * L \in Nat
  <2>1. f - 1 \in Nat /\ ((f - 1) + 1) * L = (f - 1) * L + L /\ (f - 1) * L \in Nat
    BY <1>1
  <2>2. f * L <= M * L /\ M * L \in Nat
    BY <1>1, Grows
  <2> QED BY <2>1, <2>2
<1> DEFINE from == (f - 1) * L
<1> HIDE DEF from, L
<1>3. \A m \in 1..L : from + m \in 1..(M * L)
  BY <1>1, <1>2 DEF from
<1>4. /\ Len(Fragment(hash, f)) = L
      /\ Fragment(hash, f) = [m \in 1..L |-> hash[from + m]]
      /\ Fragment(normalize_hash(hash), f) = [m \in 1..L |-> normalize_hash(hash)[from + m]]
  BY <1>1, FragmentIs DEF L, from
<1>5. Fragment(hash, f) \in [1..L -> Tryte]
  BY <1>3, <1>4 DEF HashTrytes, L
<1>6. ASSUME NEW m \in 1..L PROVE FragmentOf(from + m) = f /\ PlaceIn(from + m) = m
  <2> DEFINE i == from + m
             r == m - 1
             g == f - 1
  <2>1. i - 1 = L * g + r /\ r \in 0..(L - 1) /\ g \in Int /\ L * g \in Int
    BY <1>1, <1>2 DEF from
  <2> HIDE DEF r, g
  <2>2. (L * g + r) % L = r
    BY <1>1, <2>1, ModIs
  <2>3. (L * g + r) \div L = g
    <3> DEFINE y == L * g + r
               q == y \div L
    <3>1. y \in Int
      BY <1>1, <2>1
    <3>2. q \in Int /\ y = L * q + (y % L)
      <4> HIDE DEF y
      <4> QED BY <1>1, <3>1, DivModIs
    <3>3. y = L * q + r
      BY <2>2, <3>2
    <3> HIDE DEF q
    <3>4. L * q = L * g
      BY <1>1, <2>1, <3>2, <3>3
    <3>5. q = g
      BY <1>1, <2>1, <3>2, <3>4
    <3> QED BY <3>5 DEF q
  <2>4. FragmentOf(i) = ((i - 1) \div L) + 1 /\ PlaceIn(i) = ((i - 1) % L) + 1
    BY DEF FragmentOf, PlaceIn, L
  <2>5. FragmentOf(i) = g + 1 /\ PlaceIn(i) = r + 1
    BY <2>1, <2>2, <2>3, <2>4
  <2> QED BY <1>1, <2>5 DEF r, g
<1>7. ASSUME NEW m \in 1..L PROVE normalize_hash(hash)[from + m] = part(f)[m]
  <2>1. from + m \in 1..(M * L) /\ FragmentOf(from + m) = f /\ PlaceIn(from + m) = m
    BY <1>3, <1>6
  <2> HIDE DEF part
  <2>2. normalize_hash(hash)[from + m] = [g \in 1..M |-> part(g)][FragmentOf(from + m)][PlaceIn(from + m)]
    BY <2>1 DEF normalize_hash, part, L
  <2> QED BY <2>1, <2>2
<1>8. \A m \in 1..L : Fragment(normalize_hash(hash), f)[m] = part(f)[m]
  <2> HIDE DEF part
  <2> QED BY <1>4, <1>7
<1> QED BY <1>4, <1>5, <1>8 DEF L, TryteFragments

LEMMA HashSums == ASSUME NEW hash \in HashTrytes PROVE SumsToZero(hash)
<1> SUFFICES ASSUME NEW f \in 1..SECURITY_LEVEL_MAX PROVE SumTrytes(Fragment(normalize_hash(hash), f)) = 0
  BY DEF SumsToZero
<1> DEFINE t == Fragment(hash, f)
           u == Fragment(normalize_hash(hash), f)
           v == NormalizeFragment(t)
<1>1. t \in TryteFragments /\ Len(t) = FragmentLen /\ \A m \in 1..FragmentLen : u[m] = v[m]
  BY NormalizedFragment
<1>2. f \in Nat \ {0} /\ FragmentLen \in Nat
  BY SigningAssumption
<1>3. Len(u) = FragmentLen
  BY <1>2, FragmentIs
<1> HIDE DEF t, u
<1>4. v \in TryteFragments
  BY <1>1, FragmentNormalized DEF TryteFragments
<1>5. IntsTo(v, FragmentLen)
  BY <1>4, TryteIsInt DEF IntsTo, TryteFragments
<1>6. SumTo(v, FragmentLen) = 0
  BY <1>1, NormalizedSum
<1> HIDE DEF v
<1>7. SumTo(u, FragmentLen) = SumTo(v, FragmentLen)
  BY <1>1, <1>2, <1>5, SumSame
<1> QED BY <1>3, <1>6, <1>7 DEF SumTrytes, u

-----------------------------------------------------------------------------
(* Exchanged fragments.  Hashed on, the first chunk of what came first     *)
(* would have to meet the first chain of the key.                          *)
LEMMA ZeroIsNoDigest == ASSUME NEW x PROVE ZeroHash # digest(x)
<1>1. DOMAIN ZeroHash = {"zero"} /\ DOMAIN digest(x) = {"digest"}
  BY DEF ZeroHash, digest
<1> QED BY <1>1

LEMMA SqueezeIsNoDigest == ASSUME NEW x, NEW k PROVE [squeeze |-> k] # digest(x)
<1>1. DOMAIN [squeeze |-> k] = {"squeeze"} /\ DOMAIN digest(x) = {"digest"}
  BY DEF digest
<1> QED BY <1>1

LEMMA RehashedDigest ==
  ASSUME NEW x, NEW n \in Nat
  PROVE  \E z : Rehash(digest(x), n) = digest(z)
<1>1. CASE n = 0
  <2>1. Rehash(digest(x), n) = digest(x)
    BY <1>1, RehashZero
  <2> QED BY <2>1
<1>2. CASE n # 0
  <2>1. n - 1 \in Nat /\ (n - 1) + 1 = n
    BY <1>2
  <2>2. Rehash(digest(x), (n - 1) + 1) = digest(<<Rehash(digest(x), n - 1)>>)
    BY <2>1, RehashStep
  <2> QED BY <2>1, <2>2
<1> QED BY <1>1, <1>2

(* At level 1 a public key is two hashes over more than one chunk, and     *)
(* never lies on a chain.                                                  *)
LEMMA PkOffChain ==
  ASSUME NEW i, NEW j, NEW m \in Nat, NEW n \in Nat, Rehash(PkAt(1, j), m) = Rehash(KeyAt(1, i)[1], n)
  PROVE  FALSE
<1> DEFINE a == HashedOn(1, j, Full)
           x == Fragment(a, 1)
           F == FragmentLen
           y == digest(x)
           K == KeyAt(1, i)[1]
<1>1. F \in Nat /\ F >= 2 /\ 1 \in Nat \ {0} /\ 1 * F = F /\ MaxTryte \in Nat
  BY SigningAssumption, MilestoneAssumption
<1>2. a = [k \in 1..F |-> a[k]] /\ \A k \in 1..F : a[k] = Rehash(KeyAt(1, j)[k], 2 * MaxTryte)
  BY <1>1 DEF HashedOn, Full
<1>3. PkAt(1, j) = AddressOf(a)
  BY <1>1, PkIs
<1> HIDE DEF a
<1>4. Chunks(a, 1)
  BY <1>1, <1>2, HashedChunks
<1>5. Len(x) = F /\ x = [k \in 1..F |-> a[(1 - 1) * F + k]]
  BY <1>1, FragmentIs
<1>6. x[2] = a[2]
  <2>1. 2 \in 1..F /\ (1 - 1) * F + 2 = 2
    BY <1>1
  <2> HIDE DEF x, F
  <2> QED BY <1>5, <2>1
<1>7. PkAt(1, j) = digest(<<y>>)
  <2>1. AddressOf(a) = digest([f \in 1..1 |-> digest(Fragment(a, f))])
    BY <1>4, AddressIs
  <2> DEFINE s == [f \in 1..1 |-> digest(Fragment(a, f))]
  <2>2. s[1] = y /\ Len(s) = 1 /\ s = [f \in 1..1 |-> s[f]]
    OBVIOUS
  <2> HIDE DEF s, y
  <2>3. s = <<y>>
    BY <2>2
  <2> QED BY <1>3, <2>1, <2>3 DEF s
<1> HIDE DEF x, F
<1>8. Atom(y)
  <2> SUFFICES ASSUME NEW z, y = digest(<<z>>) PROVE FALSE
    BY DEF Atom
  <2>1. x = <<z>>
    BY DigestInjective
  <2>2. Len(<<z>>) = 1
    OBVIOUS
  <2> QED BY <1>1, <1>5, <2>1, <2>2
<1>9. Rehash(PkAt(1, j), m) = Rehash(y, 1 + m)
  <2>1. Rehash(y, 0 + 1) = digest(<<Rehash(y, 0)>>) /\ Rehash(y, 0) = y
    BY RehashStep, RehashZero
  <2>2. Rehash(y, 1) = PkAt(1, j)
    BY <1>7, <2>1
  <2>3. Rehash(Rehash(y, 1), m) = Rehash(y, 1 + m)
    BY <1>1, RehashAdds
  <2> QED BY <2>2, <2>3
<1>10. K = digest(<<subseed(IssuerSeed, i), [squeeze |-> 1]>>) /\ Atom(K)
  <2>1. 1 \in 1..(1 * FragmentLen)
    BY <1>1 DEF F
  <2> QED BY <1>1, <2>1, KeyIs
<1>11. y = K
  <2>1. Rehash(y, 1 + m) = Rehash(K, n) /\ 1 + m \in Nat
    BY <1>9
  <2> HIDE DEF K, y
  <2> QED BY <1>8, <1>10, <2>1, ChainsMeet
<1> HIDE DEF K
<1>12. x = <<subseed(IssuerSeed, i), [squeeze |-> 1]>>
  BY <1>10, <1>11, DigestInjective
<1>13. x[2] = [squeeze |-> 1]
  BY <1>12
<1>14. \E z : a[2] = digest(z)
  <2>1. 2 \in 1..F /\ 2 \in 1..(1 * FragmentLen) /\ 2 * MaxTryte \in Nat
    BY <1>1 DEF F
  <2>2. KeyAt(1, j)[2] = digest(<<subseed(IssuerSeed, j), [squeeze |-> 2]>>)
    BY <1>1, <2>1, KeyIs
  <2> DEFINE c == <<subseed(IssuerSeed, j), [squeeze |-> 2]>>
  <2>3. a[2] = Rehash(digest(c), 2 * MaxTryte)
    BY <1>2, <2>1, <2>2
  <2> HIDE DEF c
  <2> QED BY <2>1, <2>3, RehashedDigest
<1> QED BY <1>6, <1>13, <1>14, SqueezeIsNoDigest

(* The first sibling is a public key.                                      *)
LEMMA BesideLeaf ==
  ASSUME NEW lv, NEW d \in Depths, d # 1, NEW leaf \in 0..(Leaves(d) - 1)
  PROVE  \E j : Tree(lv, d)[Beside(Node(d, leaf, 0))] = PkAt(lv, j)
<1> DEFINE L == Leaves(d)
           P == Power(2, d - 2)
           n == Node(d, leaf, 0)
           s == Beside(n)
<1>1. d - 1 \in Nat /\ d \in Nat /\ d - 2 \in Nat /\ (d - 2) + 1 = d - 1 /\ L \in Nat \ {0} /\ L = Power(2, d - 1)
      /\ leaf \in Nat /\ leaf < L
  BY LeavesIs
<1>2. P \in Nat /\ L = 2 * P
  BY <1>1, PowerStep
<1>3. n = L + leaf - 1
  <2>1. 0 \in 0..(d - 1) /\ d - 1 - 0 = d - 1 /\ Halved(leaf, 0) = leaf
    BY <1>1, HalfIs
  <2>2. Placed(d, leaf, 0)
    BY <2>1, NodesPlaced
  <2> QED BY <1>1, <2>1, <2>2 DEF Placed
<1> HIDE DEF L, P
<1>4. s = 2 * (P + (leaf \div 2) - 1) + 2 - (leaf % 2) /\ leaf \div 2 \in Nat /\ leaf \div 2 < P /\ leaf % 2 \in {0, 1}
  <2>1. leaf < 2 * P /\ n = 2 * P + leaf - 1
    BY <1>1, <1>2, <1>3
  <2> HIDE DEF n
  <2> QED BY <1>1, <1>2, <2>1, ParentIs
<1> HIDE DEF s
<1>5. s \in 0..(2 * L - 2) /\ s >= L - 1
  BY <1>2, <1>4
<1>6. Tree(lv, d)[s] = PkAt(lv, s - L + 1)
  BY <1>5, NodeIs DEF L
<1> QED BY <1>6 DEF s

(* The second fragment of a signature does not start a one-time signature. *)
LEMMA SecondNotFirst ==
  ASSUME NEW lv \in Nat \ {0}, NEW d \in Depths, NEW leaf \in 0..(Leaves(d) - 1), NEW m0 \in HashTrytes,
         lv <= SECURITY_LEVEL_MAX, NEW s, Holds(s, lv, d, leaf, m0), NEW n \in Nat
  PROVE  Rehash(s[FragmentLen + 1], n) # Rehash(KeyAt(lv, leaf)[1], 2 * MaxTryte)
<1> SUFFICES ASSUME Rehash(s[FragmentLen + 1], n) = Rehash(KeyAt(lv, leaf)[1], 2 * MaxTryte) PROVE FALSE
  OBVIOUS
<1> DEFINE F == FragmentLen
           K == KeyAt(lv, leaf)
           N == lv * F
           M == MaxTryte
<1>1. F \in Nat /\ F >= 2 /\ M \in Nat /\ 2 * M \in Nat /\ N \in Nat /\ F <= N /\ 1 \in 1..N
  <2>1. F \in Nat /\ F >= 2 /\ M \in Nat /\ 1 \in Nat /\ 1 <= lv
    BY SigningAssumption, MilestoneAssumption
  <2>2. 1 * F <= N /\ 1 * F = F /\ N \in Nat
    BY <2>1, Grows
  <2> QED BY <2>1, <2>2
<1>2. leaf \in 0..(SeedCount - 1)
  BY SeedsEnough
<1>3. Atom(K[1]) /\ K[1] = digest(<<subseed(IssuerSeed, leaf), [squeeze |-> 1]>>)
  BY <1>1, KeyIs
<1>4. CASE lv # 1
  <2>1. F + 1 \in 1..N
    <3>1. 2 * F <= N /\ N \in Nat
      <4>1. 2 <= lv /\ 2 \in Nat
        BY <1>4
      <4> QED BY <1>1, <4>1, Grows
    <3> QED BY <1>1, <3>1
  <2>2. m0[F + 1] \in Tryte
    <3>1. N <= SECURITY_LEVEL_MAX * F /\ SECURITY_LEVEL_MAX * F \in Nat
      BY <1>1, SigningAssumption, Grows
    <3>2. F + 1 \in 1..(SECURITY_LEVEL_MAX * F)
      BY <1>1, <2>1, <3>1
    <3> QED BY <3>2 DEF HashTrytes
  <2> DEFINE x == M - m0[F + 1]
  <2>3. x \in Nat /\ x + n \in Nat
    BY <1>1, <2>2 DEF Tryte
  <2>4. s[F + 1] = Rehash(K[F + 1], x)
    BY <2>1 DEF Holds
  <2> HIDE DEF x, F, M, N
  <2>5. Rehash(K[F + 1], x + n) = Rehash(K[1], 2 * M)
    <3>1. Rehash(Rehash(K[F + 1], x), n) = Rehash(K[F + 1], x + n)
      BY <2>3, RehashAdds
    <3> QED BY <2>4, <3>1 DEF F, M
  <2>6. Atom(K[F + 1])
    BY <2>1, KeyIs DEF N, F
  <2>7. K[F + 1] = K[1]
    <3> HIDE DEF K
    <3> QED BY <1>1, <1>3, <2>3, <2>5, <2>6, ChainsMeet
  <2>8. F + 1 = 1
    BY <1>1, <1>2, <2>1, <2>7, ChunksDiffer DEF N, F
  <2> QED BY <1>1, <2>8
<1>5. CASE lv = 1 /\ d = 1
  <2>1. s[F + 1] = ZeroHash
    <3>1. 1 \in 1..F /\ 1 > d - 1 /\ lv * F + 1 = F + 1
      BY <1>1, <1>5
    <3> HIDE DEF F
    <3>2. s[lv * F + 1] = ZeroHash
      BY <3>1 DEF Holds, F
    <3> QED BY <3>1, <3>2
  <2>2. Atom(ZeroHash)
    BY ZeroIsNoDigest DEF Atom
  <2>3. ZeroHash = K[1]
    <3>1. Rehash(ZeroHash, n) = Rehash(K[1], 2 * M)
      BY <2>1
    <3> HIDE DEF K, M
    <3> QED BY <1>1, <1>3, <2>2, <3>1, ChainsMeet
  <2> QED BY <1>3, <2>3, ZeroIsNoDigest
<1>6. CASE lv = 1 /\ d # 1
  <2>1. s[F + 1] = Tree(lv, d)[Beside(Node(d, leaf, 0))]
    <3>1. 1 \in 1..(d - 1) /\ lv * F + 1 = F + 1 /\ 1 - 1 = 0
      BY <1>1, <1>6, LeavesIs
    <3> HIDE DEF F
    <3>2. s[lv * F + 1] = Tree(lv, d)[Beside(Node(d, leaf, 1 - 1))]
      BY <3>1 DEF Holds, F
    <3> QED BY <3>1, <3>2
  <2>2. PICK j : Tree(lv, d)[Beside(Node(d, leaf, 0))] = PkAt(lv, j)
    BY <1>6, BesideLeaf
  <2>3. Rehash(PkAt(1, j), n) = Rehash(KeyAt(1, leaf)[1], 2 * M)
    BY <1>6, <2>1, <2>2
  <2> HIDE DEF M
  <2> QED BY <1>1, <2>3, PkOffChain
<1> QED BY <1>4, <1>5, <1>6

Exchanged(s, lv) ==
  [k \in 1..((lv + 1) * FragmentLen) |->
     IF k <= FragmentLen THEN s[FragmentLen + k]
     ELSE IF k <= 2 * FragmentLen THEN s[k - FragmentLen] ELSE s[k]]

LEMMA ExchangedFragment ==
  ASSUME NEW lv \in Nat \ {0}, NEW s, NEW t \in 1..(lv + 1)
  PROVE  Fragment(Exchanged(s, lv), t) = Fragment(s, IF t = 1 THEN 2 ELSE IF t = 2 THEN 1 ELSE t)
<1> DEFINE F == FragmentLen
           u == IF t = 1 THEN 2 ELSE IF t = 2 THEN 1 ELSE t
           x == Exchanged(s, lv)
           n == (lv + 1) * F
<1>1. F \in Nat \ {0} /\ t \in Nat \ {0} /\ u \in Nat \ {0} /\ t - 1 \in Nat
  BY SigningAssumption
<1>2. t * F = (t - 1) * F + F /\ (t - 1) * F \in Nat /\ t * F <= n /\ n \in Nat
  <2>1. ((t - 1) + 1) * F = (t - 1) * F + F /\ (t - 1) * F \in Nat
    BY <1>1
  <2>2. t * F <= n /\ n \in Nat
    <3>1. lv + 1 \in Nat /\ t <= lv + 1
      OBVIOUS
    <3> QED BY <1>1, <3>1, Grows
  <2> QED BY <2>1, <2>2
<1>3. /\ Fragment(x, t) = [m \in 1..F |-> x[(t - 1) * F + m]]
      /\ Fragment(s, u) = [m \in 1..F |-> s[(u - 1) * F + m]]
  <2> HIDE DEF u, x
  <2> QED BY <1>1, FragmentIs
<1>4. \A k \in 1..n : x[k] = IF k <= F THEN s[F + k] ELSE IF k <= 2 * F THEN s[k - F] ELSE s[k]
  BY DEF Exchanged
<1>5. ASSUME NEW m \in 1..F PROVE x[(t - 1) * F + m] = s[(u - 1) * F + m]
  <2> DEFINE k == (t - 1) * F + m
  <2>1. k \in 1..n
    BY <1>1, <1>2
  <2>2. CASE t = 1
    <3>1. k = m /\ (u - 1) * F + m = F + m /\ k <= F
      BY <1>1, <2>2
    <3> HIDE DEF k, u, x, n
    <3>2. x[k] = s[F + k]
      BY <1>4, <2>1, <3>1
    <3> QED BY <3>1, <3>2 DEF k
  <2>3. CASE t = 2
    <3>1. k = F + m /\ (u - 1) * F + m = m /\ ~(k <= F) /\ k <= 2 * F /\ k - F = m
      BY <1>1, <2>3
    <3> HIDE DEF k, u, x, n
    <3>2. x[k] = s[k - F]
      BY <1>4, <2>1, <3>1
    <3> QED BY <3>1, <3>2 DEF k
  <2>4. CASE t # 1 /\ t # 2
    <3>1. 2 * F <= (t - 1) * F
      <4>1. 2 <= t - 1 /\ 2 \in Nat
        BY <1>1, <2>4
      <4> QED BY <1>1, <4>1, Grows
    <3>2. u = t /\ ~(k <= F) /\ ~(k <= 2 * F)
      BY <1>1, <1>2, <2>4, <3>1
    <3> HIDE DEF k, u, x, n
    <3>3. x[k] = s[k]
      BY <1>4, <2>1, <3>2
    <3> QED BY <3>2, <3>3 DEF k
  <2> QED BY <2>2, <2>3, <2>4
<1> HIDE DEF x, u, F
<1>6. Fragment(x, t) = Fragment(s, u)
  BY <1>3, <1>5
<1> QED BY <1>6 DEF x, u

LEMMA SwappedHolds ==
  ASSUME NEW lv \in Nat \ {0}, NEW s, Chunked(s, lv), NEW tag, NEW hash
  PROVE  LET b == MilestoneBundle(s, tag, hash)
         IN  HoldsMilestone([b EXCEPT ![1] = b[2], ![2] = b[1]], lv, Exchanged(s, lv), key.tree[0], tag, hash)
<1> DEFINE b == MilestoneBundle(s, tag, hash)
           c == [b EXCEPT ![1] = b[2], ![2] = b[1]]
           n == lv + 1
           u(t) == IF t = 1 THEN 2 ELSE IF t = 2 THEN 1 ELSE t
<1>1. b = [t \in 1..n |-> b[t]] /\ Len(b) = n
  BY BundleOf
<1>2. \A t \in 1..n : /\ b[t].payload = Fragment(s, t) /\ b[t].address = key.tree[0]
                     /\ b[t].obsolete_tag = tag /\ b[t].trunk = hash
  BY BundleOf
<1> HIDE DEF b
<1>3. n \in Nat /\ 1 \in 1..n /\ 2 \in 1..n /\ lv \in 1..n
  OBVIOUS
<1>4. DOMAIN b = 1..n
  BY <1>1
<1> HIDE DEF n
<1>5. DOMAIN c = 1..n /\ c = [t \in 1..n |-> c[t]] /\ \A t \in 1..n : c[t] = b[u(t)] /\ u(t) \in 1..n
  BY <1>3, <1>4
<1> HIDE DEF c
<1>6. Len(c) = n
  BY <1>3, <1>5
<1>7. \A t \in 1..n : /\ c[t].payload = Fragment(s, u(t)) /\ c[t].address = key.tree[0]
                     /\ c[t].obsolete_tag = tag /\ c[t].trunk = hash
  <2> HIDE DEF u
  <2> QED BY <1>2, <1>5
<1>8. \A t \in 1..n : c[t].payload = Fragment(Exchanged(s, lv), t)
  BY <1>7, ExchangedFragment DEF n
<1>9. Chunked(Exchanged(s, lv), lv)
  BY DEF Chunked, Exchanged
<1>10. SignatureBuf(c) = Exchanged(s, lv)
  BY <1>6, <1>8, <1>9, BufIs DEF n
<1>11. c # << >>
  <2>1. Len(c) # 0
    BY <1>6 DEF n
  <2> QED BY <2>1
<1>12. HoldsMilestone(c, lv, Exchanged(s, lv), key.tree[0], tag, hash)
  BY <1>3, <1>6, <1>7, <1>10, <1>11 DEF HoldsMilestone, n
<1> QED BY <1>12 DEF c, b

LEMMA OwnIndex ==
  ASSUME NEW d \in Depths, NEW leaf \in 0..(Leaves(d) - 1)
  PROVE  FitsI64(leaf) /\ TagToIndex(leaf) = leaf
<1>1. d - 1 \in Nat /\ Leaves(d) \in Nat \ {0} /\ Leaves(d) = Power(2, d - 1) /\ leaf \in Nat
  BY LeavesIs
<1>2. IndexBits \in Nat /\ d - 1 <= IndexBits /\ TagHalf \in Nat /\ IndexRange <= TagHalf
  <2>1. d \in 1..DepthMax /\ DepthMax \in Nat /\ IndexBits \in Nat /\ DepthMax - 1 <= IndexBits
    BY MilestoneAssumption
  <2> QED BY <2>1, MilestoneAssumption
<1>3. IndexRange \in Nat /\ Leaves(d) <= IndexRange
  <2>1. Power(2, d - 1) <= Power(2, IndexBits)
    BY <1>1, <1>2, PowerGrows
  <2>2. Power(2, IndexBits) \in Nat
    BY <1>2, PowerStep
  <2> QED BY <1>1, <2>1, <2>2 DEF IndexRange
<1>4. FitsI64(leaf)
  BY <1>1, <1>2, <1>3 DEF FitsI64
<1> DEFINE R == IndexRange
<1>5. R \in Nat \ {0} /\ leaf \in 0..(R - 1) /\ 0 \in Int
  BY <1>1, <1>3
<1> HIDE DEF R
<1>6. (R * 0 + leaf) % R = leaf
  BY <1>5, ModIs
<1>7. R * 0 + leaf = leaf
  BY <1>5
<1> QED BY <1>4, <1>6, <1>7 DEF TagToIndex, R

LEMMA SwappedRefused ==
  ASSUME KeyReady, NEW hash0 \in Trunks, NEW leaf \in 0..(Leaves(depth) - 1)
  PROVE  RefusedSwapped(SignedWith(hash0, leaf))
<1> DEFINE it == SignedWith(hash0, leaf)
           m0 == normalize_hash(hash0)
           s == it.signature
           x == Exchanged(s, level)
           b == MilestoneBundle(s, leaf, hash0)
           c == [b EXCEPT ![1] = b[2], ![2] = b[1]]
           a == RecoveredFrom(x, m0, level)
<1>1. it.hash = hash0 /\ it.leaf = leaf /\ Chunked(s, level) /\ Holds(s, level, depth, leaf, m0)
  BY SignedIs
<1>2. level \in 1..SECURITY_LEVEL_MAX /\ level \in Nat \ {0} /\ level <= SECURITY_LEVEL_MAX /\ depth \in Depths
  BY LevelsAre, SigningAssumption DEF KeyReady
<1>3. m0 \in HashTrytes
  BY HashNormalized, MilestoneAssumption
<1> HIDE DEF it, s, m0
<1>4. HoldsMilestone(c, level, x, key.tree[0], leaf, hash0)
  BY <1>1, <1>2, SwappedHolds
<1>5. FitsI64(leaf) /\ TagToIndex(leaf) = leaf
  BY <1>2, OwnIndex
<1> HIDE DEF b, c
<1> DEFINE ok == mss_verify(key.tree[0], depth, m0, x, leaf)
<1>6. milestone_validate(c, depth).err = IF ok THEN "none" ELSE "InvalidSignature"
  <2> HIDE DEF x, ok
  <2>1. LET r == milestone_validate(c, depth)
        IN  IF ~FitsI64(leaf) THEN r.err = "InvalidIndex"
            ELSE /\ r.err = IF mss_verify(key.tree[0], depth, normalize_hash(hash0), x, TagToIndex(leaf)) THEN "none"
                            ELSE "InvalidSignature"
                 /\ milestone_build(r) = TagToIndex(leaf)
    BY <1>2, <1>4, ValidateIs
  <2> QED BY <1>5, <2>1 DEF ok, m0
<1>7. ASSUME ok PROVE FALSE
  <2>1. Chunked(x, level)
    BY DEF Chunked, Exchanged
  <2>2. ok <=> Climb(AddressOf(a), SiblingsIn(x, level), leaf, depth - 1)[depth - 1] = key.tree[0]
    <3> HIDE DEF x
    <3> QED BY <1>2, <2>1, VerifyIs
  <2>3. Climb(AddressOf(a), SiblingsIn(x, level), leaf, depth - 1)[depth - 1] = Tree(level, depth)[0]
    BY <1>7, <2>2, KeyRoot
  <2> DEFINE N == level * FragmentLen
  <2>4. a = [k \in 1..N |-> a[k]]
    BY DEF RecoveredFrom
  <2> HIDE DEF a, ok
  <2>5. AddressOf(a) = PkAt(level, leaf)
    <3> HIDE DEF x
    <3> QED BY <1>2, <2>3, ClimbStarts
  <2>6. \A k \in 1..N : a[k] = Rehash(KeyAt(level, leaf)[k], 2 * MaxTryte)
    <3>1. leaf \in 0..(SeedCount - 1)
      BY <1>2, SeedsEnough
    <3> QED BY <1>2, <2>4, <2>5, <3>1, AddressMeets
  <2>7. FragmentLen \in Nat \ {0} /\ N \in Nat /\ 1 \in 1..N /\ 1 \in 1..((level + 1) * FragmentLen)
        /\ N <= SECURITY_LEVEL_MAX * FragmentLen /\ SECURITY_LEVEL_MAX * FragmentLen \in Nat
    <3>1. FragmentLen \in Nat \ {0} /\ SECURITY_LEVEL_MAX \in Nat
      BY SigningAssumption
    <3>2. 1 * FragmentLen <= N /\ 1 * FragmentLen = FragmentLen /\ N \in Nat
      BY <1>2, <3>1, Grows
    <3>3. (level + 1) * FragmentLen = N + FragmentLen
      BY <1>2, OneMore
    <3>4. N <= SECURITY_LEVEL_MAX * FragmentLen /\ SECURITY_LEVEL_MAX * FragmentLen \in Nat
      BY <1>2, <3>1, Grows
    <3> QED BY <3>1, <3>2, <3>3, <3>4
  <2>8. a[1] = Rehash(s[FragmentLen + 1], m0[1] + MaxTryte)
    <3>1. a[1] = Rehash(x[1], m0[1] + MaxTryte)
      BY <2>7 DEF a, RecoveredFrom
    <3>2. x[1] = s[FragmentLen + 1]
      <4>1. 1 <= FragmentLen
        BY <2>7
      <4> QED BY <2>7, <4>1 DEF Exchanged
    <3> QED BY <3>1, <3>2
  <2>9. m0[1] + MaxTryte \in Nat
    <3>1. 1 \in 1..(SECURITY_LEVEL_MAX * FragmentLen) /\ MaxTryte \in Nat
      BY <2>7, SigningAssumption
    <3>2. m0[1] \in Tryte
      BY <1>3, <3>1 DEF HashTrytes
    <3> QED BY <3>1, <3>2 DEF Tryte
  <2>10. Rehash(s[FragmentLen + 1], m0[1] + MaxTryte) # Rehash(KeyAt(level, leaf)[1], 2 * MaxTryte)
    BY <1>1, <1>2, <1>3, <2>9, SecondNotFirst
  <2> QED BY <2>6, <2>7, <2>8, <2>10
<1>8. milestone_validate(c, depth).err = "InvalidSignature"
  <2> HIDE DEF ok
  <2> QED BY <1>6, <1>7
<1> QED BY <1>1, <1>8 DEF RefusedSwapped, c, b, s, it

-----------------------------------------------------------------------------
(* The key that signs milestones.                                          *)
LEMMA InvIsReady == ASSUME MilestoneInv PROVE KeyReady
BY DEF MilestoneInv, KeyReady, KeyOf

LEMMA MilestoneInitial == MilestoneInit => MilestoneInv
<1> SUFFICES ASSUME MilestoneInit PROVE MilestoneInv
  OBVIOUS
<1>1. level \in Levels /\ depth \in Depths /\ key = mss_generate(level, depth, IssuerSeed) /\ index = 0 /\ issued = << >>
  BY DEF MilestoneInit
<1>2. Leaves(depth) \in Nat \ {0}
  BY <1>1, LeavesIs
<1> QED BY <1>1, <1>2 DEF MilestoneInv

LEMMA IssueKeeps ==
  ASSUME MilestoneInv, NEW hash \in Trunks, issue(hash)
  PROVE  MilestoneInv'
<1> DEFINE it == SignedWith(hash, index)
           its == {SignedWith(h, leaf) : h \in Trunks, leaf \in 0..(Leaves(depth) - 1)}
<1>1. /\ UNCHANGED <<level, depth, key>> /\ index < Leaves(depth)
      /\ issued' = Append(issued, it) /\ index' = index + 1
  BY DEF issue
<1>2. depth \in Depths /\ index \in 0..Leaves(depth) /\ Len(issued) = index /\ issued \in Seq(its)
      /\ \A k \in 1..index : issued[k].leaf = k - 1
  BY DEF MilestoneInv
<1>3. Leaves(depth) \in Nat
  BY <1>2, LeavesIs
<1>4. index \in 0..(Leaves(depth) - 1)
  BY <1>1, <1>2, <1>3
<1>5. it \in its /\ it.leaf = index
  <2>1. it.leaf = index
    BY DEF SignedWith
  <2> QED BY <1>4, <2>1
<1>6. its' = its
  BY <1>1 DEF SignedWith
<1> HIDE DEF it, its
<1>7. issued' \in Seq(its) /\ Len(issued') = index + 1
  BY <1>1, <1>2, <1>5
<1>8. \A k \in 1..(index + 1) : issued'[k].leaf = k - 1
  <2> SUFFICES ASSUME NEW k \in 1..(index + 1) PROVE issued'[k].leaf = k - 1
    OBVIOUS
  <2>1. CASE k \in 1..index
    <3>1. issued'[k] = issued[k]
      BY <1>1, <1>2, <1>5, <2>1
    <3> QED BY <1>2, <2>1, <3>1
  <2>2. CASE k = index + 1
    <3>1. issued'[k] = it /\ k - 1 = index
      BY <1>1, <1>2, <1>5, <2>2
    <3> QED BY <1>5, <3>1
  <2> QED BY <1>2, <2>1, <2>2
<1>9. index' \in 0..Leaves(depth')
  BY <1>1, <1>3, <1>4
<1>10. issued' \in Seq(its')
  BY <1>6, <1>7
<1>11. level' \in Levels /\ depth' \in Depths /\ key' = mss_generate(level', depth', IssuerSeed)
  BY <1>1 DEF MilestoneInv
<1> QED BY <1>1, <1>7, <1>8, <1>9, <1>10, <1>11 DEF MilestoneInv, its

LEMMA MilestoneKeeps == MilestoneInv /\ [MilestoneNext]_milestoneVars => MilestoneInv'
<1> SUFFICES ASSUME MilestoneInv, [MilestoneNext]_milestoneVars PROVE MilestoneInv'
  OBVIOUS
<1>1. ASSUME NEW h \in Trunks, issue(h) PROVE MilestoneInv'
  BY <1>1, IssueKeeps
<1>2. CASE issue_exhausted
  BY <1>2 DEF issue_exhausted, MilestoneInv, SignedWith
<1>3. CASE UNCHANGED milestoneVars
  BY <1>3 DEF milestoneVars, MilestoneInv, SignedWith
<1> QED BY <1>1, <1>2, <1>3 DEF MilestoneNext

(* The key signs with its leaves in order, each once (mss.rs: sign).       *)
THEOREM MilestoneInductive == MilestoneSpec => []MilestoneInv
<1>1. MilestoneInit => MilestoneInv
  BY MilestoneInitial
<1>2. MilestoneInv /\ [MilestoneNext]_milestoneVars => MilestoneInv'
  BY MilestoneKeeps
<1> QED BY <1>1, <1>2, PTL DEF MilestoneSpec

LEMMA InvVerifies == MilestoneInv => SignedMilestonesVerify
<1> SUFFICES ASSUME MilestoneInv, issued # << >>
    PROVE  LET it == issued[Len(issued)]
           IN  /\ ValidatesAsSigned(it)
               /\ RefusedSwapped(it)
               /\ \A k \in 1..(Len(issued) - 1) : key.keys[issued[k].leaf + 1] # key.keys[it.leaf + 1]
               /\ SumsToZero(it.hash)
  BY DEF SignedMilestonesVerify
<1> DEFINE its == {SignedWith(hash, leaf) : hash \in Trunks, leaf \in 0..(Leaves(depth) - 1)}
           n == Len(issued)
           it == issued[n]
<1>1. KeyReady
  BY InvIsReady
<1>2. depth \in Depths /\ index \in 0..Leaves(depth) /\ n = index /\ issued \in Seq(its)
      /\ \A k \in 1..index : issued[k].leaf = k - 1
  BY DEF MilestoneInv
<1>3. Leaves(depth) \in Nat
  BY <1>2, LeavesIs
<1>4. n \in Nat /\ n # 0
  <2> HIDE DEF its
  <2> QED BY <1>2
<1>5. it \in its
  <2> HIDE DEF its
  <2> QED BY <1>2, <1>4
<1>6. PICK hash \in Trunks, leaf \in 0..(Leaves(depth) - 1) : it = SignedWith(hash, leaf)
  BY <1>5
<1>7. it.hash = hash
  BY <1>6 DEF SignedWith
<1>8. ValidatesAsSigned(it)
  BY <1>1, <1>6, OwnValidates
<1>9. RefusedSwapped(it)
  BY <1>1, <1>6, SwappedRefused
<1>10. SumsToZero(it.hash)
  <2>1. hash \in HashTrytes
    BY MilestoneAssumption
  <2> QED BY <1>7, <2>1, HashSums
<1>11. ASSUME NEW k \in 1..(n - 1), key.keys[issued[k].leaf + 1] = key.keys[it.leaf + 1] PROVE FALSE
  <2>1. issued[k].leaf = k - 1 /\ it.leaf = n - 1
    BY <1>2, <1>4
  <2>2. k - 1 \in 0..(Leaves(depth) - 1) /\ n - 1 \in 0..(Leaves(depth) - 1)
    BY <1>2, <1>3, <1>4
  <2>3. key.keys[(k - 1) + 1] = key.keys[(n - 1) + 1]
    BY <1>11, <2>1
  <2> HIDE DEF n
  <2>4. k - 1 = n - 1
    BY <1>1, <2>2, <2>3, KeysDiffer
  <2> QED BY <1>4, <2>4
<1> QED BY <1>8, <1>9, <1>10, <1>11

(* A milestone validates exactly with the hash it was signed for and its   *)
(* own index, as far as the security level and the depth go, and not with  *)
(* its first two fragments exchanged; no one-time key signs twice, and     *)
(* every fragment of a normalized hash sums to zero (mss.rs: sign, verify; *)
(* normalize.rs; milestone/builder.rs: validate).                          *)
THEOREM MilestonesVerify == MilestoneSpec => []SignedMilestonesVerify
<1>1. MilestoneInv => SignedMilestonesVerify
  BY InvVerifies
<1> QED BY <1>1, MilestoneInductive, PTL
=============================================================================
