----------------------------- MODULE DataLemmas -----------------------------
(***************************************************************************)
(* Facts the proof modules rest on: membership in a sequence and what the  *)
(* operations on queues and stacks do to it; induction over the numbers,   *)
(* stated with sets; and what a recursion over 0..N gives.                 *)
(***************************************************************************)
EXTENDS Integers, Sequences, SequenceTheorems, WellFoundedInduction, NaturalsInduction, TLAPS

InSeq(e, s) == \E i \in 1..Len(s) : s[i] = e

LEMMA EmptySeqHas == \A e : ~InSeq(e, <<>>)
BY DEF InSeq

LEMMA SingletonHas == ASSUME NEW S, NEW e \in S PROVE InSeq(e, <<e>>)
BY DEF InSeq

LEMMA AppendHas ==
  ASSUME NEW S, NEW s \in Seq(S), NEW x \in S
  PROVE  \A e : InSeq(e, Append(s, x)) <=> InSeq(e, s) \/ e = x
<1>1. /\ Len(Append(s, x)) = Len(s) + 1
      /\ \A i \in 1..Len(s) : Append(s, x)[i] = s[i]
      /\ Append(s, x)[Len(s) + 1] = x
      /\ Len(s) \in Nat
  OBVIOUS
<1> QED BY <1>1 DEF InSeq

LEMMA HeadTailHas ==
  ASSUME NEW S, NEW s \in Seq(S), s # <<>>
  PROVE  \A e : InSeq(e, s) <=> e = Head(s) \/ InSeq(e, Tail(s))
<1>1. /\ Len(s) \in Nat /\ Len(s) > 0
      /\ Head(s) = s[1]
      /\ Len(Tail(s)) = Len(s) - 1
      /\ \A i \in 1..(Len(s) - 1) : Tail(s)[i] = s[i + 1]
  OBVIOUS
<1> SUFFICES ASSUME NEW e PROVE InSeq(e, s) <=> e = Head(s) \/ InSeq(e, Tail(s))
  OBVIOUS
<1>2. ASSUME InSeq(e, s), e # Head(s) PROVE InSeq(e, Tail(s))
  <2>1. PICK i \in 1..Len(s) : s[i] = e
    BY <1>2 DEF InSeq
  <2>2. i - 1 \in 1..(Len(s) - 1) /\ (i - 1) + 1 = i
    BY <1>1, <1>2, <2>1
  <2>3. Tail(s)[i - 1] = e
    BY <1>1, <2>1, <2>2
  <2> QED BY <1>1, <2>2, <2>3 DEF InSeq
<1>3. ASSUME InSeq(e, Tail(s)) PROVE InSeq(e, s)
  <2>1. PICK i \in 1..(Len(s) - 1) : Tail(s)[i] = e
    BY <1>1, <1>3 DEF InSeq
  <2>2. i + 1 \in 1..Len(s) /\ s[i + 1] = e
    BY <1>1, <2>1
  <2> QED BY <2>2 DEF InSeq
<1>4. InSeq(Head(s), s)
  BY <1>1 DEF InSeq
<1> QED BY <1>2, <1>3, <1>4

LEMMA ConcatHas ==
  ASSUME NEW S, NEW s \in Seq(S), NEW t \in Seq(S)
  PROVE  \A e : InSeq(e, s \o t) <=> InSeq(e, s) \/ InSeq(e, t)
<1>1. /\ Len(s) \in Nat /\ Len(t) \in Nat
      /\ Len(s \o t) = Len(s) + Len(t)
      /\ \A i \in 1..Len(s) + Len(t) :
            (s \o t)[i] = IF i <= Len(s) THEN s[i] ELSE t[i - Len(s)]
  BY ConcatProperties
<1> SUFFICES ASSUME NEW e PROVE InSeq(e, s \o t) <=> InSeq(e, s) \/ InSeq(e, t)
  OBVIOUS
<1>2. ASSUME InSeq(e, s \o t), ~InSeq(e, s) PROVE InSeq(e, t)
  <2>1. PICK i \in 1..Len(s) + Len(t) : (s \o t)[i] = e
    BY <1>1, <1>2 DEF InSeq
  <2>2. ~(i <= Len(s))
    BY <1>1, <1>2, <2>1 DEF InSeq
  <2>3. i - Len(s) \in 1..Len(t) /\ t[i - Len(s)] = e
    BY <1>1, <2>1, <2>2
  <2> QED BY <2>3 DEF InSeq
<1>3. ASSUME InSeq(e, s) PROVE InSeq(e, s \o t)
  BY <1>1, <1>3 DEF InSeq
<1>4. ASSUME InSeq(e, t) PROVE InSeq(e, s \o t)
  <2>1. PICK i \in 1..Len(t) : t[i] = e
    BY <1>4 DEF InSeq
  <2>2. i + Len(s) \in 1..Len(s) + Len(t) /\ (i + Len(s)) - Len(s) = i
        /\ ~(i + Len(s) <= Len(s))
    BY <1>1, <2>1
  <2>3. (s \o t)[i + Len(s)] = e
    BY <1>1, <2>1, <2>2
  <2> QED BY <1>1, <2>2, <2>3 DEF InSeq
<1> QED BY <1>2, <1>3, <1>4

(* Popping the top of a stack. *)
LEMMA PopHas ==
  ASSUME NEW S, NEW s \in Seq(S), s # <<>>
  PROVE  /\ s[Len(s)] \in S
         /\ SubSeq(s, 1, Len(s) - 1) \in Seq(S)
         /\ \A e : InSeq(e, s) <=> e = s[Len(s)] \/ InSeq(e, SubSeq(s, 1, Len(s) - 1))
<1> DEFINE r == SubSeq(s, 1, Len(s) - 1)
<1>1. Len(s) \in Nat /\ Len(s) > 0 /\ \A i \in 1..Len(s) : s[i] \in S
  OBVIOUS
<1>2. \A i \in 1..(Len(s) - 1) : s[i] \in S
  BY <1>1
<1>3. /\ r \in Seq(S)
      /\ Len(r) = Len(s) - 1
      /\ \A i \in 1..(Len(s) - 1) : r[i] = s[i]
  <2>1. Len(s) - 1 \in Int /\ 1 \in Int
    BY <1>1
  <2>2. /\ r \in Seq(S)
        /\ Len(r) = IF 1 <= Len(s) - 1 THEN Len(s) - 1 - 1 + 1 ELSE 0
        /\ \A i \in 1..(Len(s) - 1 - 1 + 1) : r[i] = s[1 + i - 1]
    BY <1>2, <2>1, SubSeqProperties
  <2> HIDE DEF r
  <2>3. Len(r) = Len(s) - 1
    <3>1. Len(r) = IF 1 <= Len(s) - 1 THEN Len(s) - 1 - 1 + 1 ELSE 0
      BY <2>2
    <3>2. \A m, k : m \in Nat /\ m > 0 /\ k = (IF 1 <= m - 1 THEN m - 1 - 1 + 1 ELSE 0)
                   => k = m - 1
      OBVIOUS
    <3> QED BY <1>1, <3>1, <3>2
  <2>4. \A i \in 1..(Len(s) - 1) : i \in 1..(Len(s) - 1 - 1 + 1) /\ 1 + i - 1 = i
    BY <1>1
  <2> QED BY <2>2, <2>3, <2>4
<1> HIDE DEF r
<1>4. \A e : InSeq(e, s) <=> e = s[Len(s)] \/ InSeq(e, r)
  BY <1>1, <1>3 DEF InSeq
<1> QED BY <1>1, <1>3, <1>4 DEF r

-----------------------------------------------------------------------------
(* A set of numbers that is not empty has a least element.                 *)
LEMMA NatMin ==
  ASSUME NEW T, T \subseteq Nat, T # {}
  PROVE  \E x \in T : \A y \in T : x <= y
<1> DEFINE R == {p \in Nat \X Nat : p[1] < p[2]}
<1>1. IsWellFoundedOn(R, Nat)
  BY NatLessThanWellFounded, Zenon DEF OpToRel
<1> HIDE DEF R
<1>2. PICK x \in T : \A y \in T : <<y, x>> \notin R
  BY <1>1, WFMin
<1>3. \A y \in T : ~(y < x)
  BY <1>2 DEF R
<1> QED BY <1>3

(* Induction, for a set instead of a predicate.                            *)
LEMMA SetInduction ==
  ASSUME NEW S, 0 \in S, \A n \in Nat : n \in S => n + 1 \in S
  PROVE  Nat \subseteq S
<1> SUFFICES ASSUME Nat \ S # {} PROVE FALSE
  OBVIOUS
<1>1. PICK x \in Nat \ S : \A y \in Nat \ S : x <= y
  BY NatMin
<1>2. x # 0 /\ x - 1 \in Nat /\ x - 1 \in S
  BY <1>1
<1>3. (x - 1) + 1 = x
  BY <1>1
<1> QED BY <1>1, <1>2, <1>3

(* A recursion over 0..N, its step given as a function, has a solution.    *)
Solves(w, D, a, step, N) ==
  /\ w \in [0..N -> D]
  /\ w[0] = a
  /\ \A i \in 1..N : w[i] = step[<<i, w[i - 1]>>]

LEMMA RecursionExists ==
  ASSUME NEW D, NEW a \in D, NEW step \in [Nat \X D -> D], NEW N \in Nat
  PROVE  \E w : Solves(w, D, a, step, N)
<1> DEFINE S == {n \in Nat : \E w : Solves(w, D, a, step, n)}
<1>1. 0 \in S
  <2>1. Solves([i \in 0..0 |-> a], D, a, step, 0)
    BY DEF Solves
  <2> QED BY <2>1
<1>2. ASSUME NEW n \in Nat, n \in S PROVE n + 1 \in S
  <2>1. PICK w : Solves(w, D, a, step, n)
    BY <1>2
  <2> DEFINE v == [i \in 0..(n + 1) |-> IF i <= n THEN w[i] ELSE step[<<n + 1, w[n]>>]]
  <2>2. step[<<n + 1, w[n]>>] \in D
    BY <2>1 DEF Solves
  <2>3. v \in [0..(n + 1) -> D]
    BY <2>1, <2>2 DEF Solves
  <2>4. v[0] = a
    BY <2>1 DEF Solves
  <2>5. ASSUME NEW i \in 1..(n + 1) PROVE v[i] = step[<<i, v[i - 1]>>]
    <3>1. CASE i <= n
      BY <2>1, <3>1 DEF Solves
    <3>2. CASE i = n + 1
      <4>1. v[n + 1] = step[<<n + 1, w[n]>>] /\ v[n] = w[n] /\ (n + 1) - 1 = n
        OBVIOUS
      <4> HIDE DEF v
      <4> QED BY <3>2, <4>1
    <3> QED BY <3>1, <3>2
  <2>6. Solves(v, D, a, step, n + 1)
    BY <2>3, <2>4, <2>5 DEF Solves
  <2> QED BY <2>6
<1>3. N \in S
  <2> HIDE DEF S
  <2> QED BY <1>1, <1>2, SetInduction
<1> QED BY <1>3

(* Functions that start alike and go on alike are alike.                   *)
LEMMA SameAlong ==
  ASSUME NEW N \in Nat, NEW v, NEW w, v[0] = w[0],
         \A i \in 1..N : v[i - 1] = w[i - 1] => v[i] = w[i]
  PROVE  \A i \in 0..N : v[i] = w[i]
<1> DEFINE S == {n \in Nat : n <= N => v[n] = w[n]}
<1>1. 0 \in S
  OBVIOUS
<1>2. ASSUME NEW n \in Nat, n \in S PROVE n + 1 \in S
  <2>1. CASE n + 1 <= N
    <3>1. n + 1 \in 1..N /\ (n + 1) - 1 = n /\ v[n] = w[n]
      BY <1>2, <2>1
    <3> QED BY <3>1
  <2> QED BY <2>1
<1>3. Nat \subseteq S
  <2> HIDE DEF S
  <2> QED BY <1>1, <1>2, SetInduction
<1> QED BY <1>3

(* The same, for provers that are to see no more than they need.           *)
InStep(v, w, N) == v[0] = w[0] /\ \A i \in 1..N : v[i - 1] = w[i - 1] => v[i] = w[i]
SameTo(v, w, N) == \A i \in 0..N : v[i] = w[i]
LEMMA StepsAgree ==
  ASSUME NEW N \in Nat, NEW v, NEW w, InStep(v, w, N)
  PROVE  SameTo(v, w, N)
<1>1. v[0] = w[0] /\ \A i \in 1..N : v[i - 1] = w[i - 1] => v[i] = w[i]
  BY DEF InStep
<1>2. \A i \in 0..N : v[i] = w[i]
  BY <1>1, SameAlong
<1> QED BY <1>2 DEF SameTo
=============================================================================
