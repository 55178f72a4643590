------------------------------ MODULE PearlDiver ------------------------------
(***************************************************************************)
(* bee-pow: the bit-sliced Curl of the PearlDiver, which hashes one        *)
(* candidate per bit of a u64.  A u64 is the set of its bits that are 1:   *)
(* each of the BATCH_SIZE bits is a slot.  A trit is a pair of bits hi and *)
(* lo: 1 is (1, 0), -1 is (0, 1), 0 is (1, 1).  Places are numbered from   *)
(* 0.  The search by several threads is PearlSearch.                       *)
(***************************************************************************)
EXTENDS CurlReference, FiniteSets

CONSTANTS NONCE_LEN,     \* 81: trits of the nonce, the last ones of the last chunk
          LaneTrits,     \* 4: trits that differ from slot to slot (H0..H3, L0..L3)
          OuterTrits,    \* 27: trits that differ from thread to thread
          NUM_ROUNDS,    \* 81
          BATCH_SIZE,    \* 64
          NUM_FULL_CHUNKS_FOR_PRESTATE,   \* 32
          difficulty     \* zero trits a hash must end in

Slots == 0..(BATCH_SIZE - 1)
BITS_1 == Slots
BITS_0 == {}
Not(w) == Slots \ w
Xor(v, w) == (v \ w) \cup (w \ v)

CHUNK_NONCE_START == HASH_LEN - NONCE_LEN
OUTER_INCR_START == CHUNK_NONCE_START + LaneTrits
INNER_INCR_START == OUTER_INCR_START + OuterTrits

(* The table of places that the rounds walk through.                       *)
INDICES == [j \in 0..STATE_LEN |-> IF j % 2 = 0 THEN (STATE_LEN - (j \div 2)) % STATE_LEN
                                   ELSE HALF_STATE_LEN - (j \div 2)]

-----------------------------------------------------------------------------
(* PowCurlState.                                                           *)
new(word) == [hi |-> [i \in 0..(STATE_LEN - 1) |-> word], lo |-> [i \in 0..(STATE_LEN - 1) |-> word]]

set(s, i, hi, lo) == [s EXCEPT !.hi[i] = hi, !.lo[i] = lo]

bit_add(s, i) ==
  [state |-> set(s, i, s.lo[i], Xor(s.hi[i], s.lo[i])), with_carry |-> s.hi[i] \cap Not(s.lo[i]) # {}]

bit_equal(s, i) == Not(Xor(s.hi[i], s.lo[i]))

(* Mutant: gamma is not negated.                                           *)
RoundBitsUnnegated(s, j) ==
  LET alpha == s.lo[INDICES[j]]
      kappa == s.hi[INDICES[j]]
      sigma == s.lo[INDICES[j + 1]]
      gamma == s.hi[INDICES[j + 1]]
      delta == (alpha \cup gamma) \cap Xor(sigma, kappa)
  IN  [hi |-> Xor(alpha, gamma) \cup delta, lo |-> Not(delta)]

(* What a trit of the state becomes in a round.                            *)
RoundBits(s, j) ==
  LET alpha == s.lo[INDICES[j]]
      kappa == s.hi[INDICES[j]]
      sigma == s.lo[INDICES[j + 1]]
      gamma == s.hi[INDICES[j + 1]]
      delta == (alpha \cup Not(gamma)) \cap Xor(sigma, kappa)
  IN  [hi |-> Xor(alpha, gamma) \cup delta, lo |-> Not(delta)]

WriteBits(to, from, j) == set(to, j, RoundBits(from, j).hi, RoundBits(from, j).lo)

Steps(n) == [k \in 1..n |-> k - 1]

FullRounds == NUM_ROUNDS - 1

(* All rounds but the last write into the other buffer and the pointers    *)
(* change sides; the last one works in place, on the first HASH_LEN trits. *)
(* The caller's buffer is the one the pointers started with.               *)
transform(pre, tmp) ==
  LET round(p, k) == LET bits == [j \in 1..STATE_LEN |-> RoundBits(p.at, j - 1)] \o << >>
                     IN  [at |-> [hi |-> [j \in 0..(STATE_LEN - 1) |-> bits[j + 1].hi],
                                  lo |-> [j \in 0..(STATE_LEN - 1) |-> bits[j + 1].lo]],
                          other |-> p.at]
      walked == FoldLeft(round, [at |-> pre, other |-> tmp], Steps(FullRounds))
      last == FoldLeft(LAMBDA s, j : WriteBits(s, s, j), walked.at, Steps(HASH_LEN))
  IN  IF FullRounds % 2 = 0 THEN last ELSE walked.other

-----------------------------------------------------------------------------
(* The trit of the given slot, and the state of that slot as trits.        *)
TritAt(s, i, slot) ==
  CASE slot \in s.hi[i] /\ slot \notin s.lo[i] -> 1
    [] slot \notin s.hi[i] /\ slot \in s.lo[i] -> -1
    [] slot \in s.hi[i] /\ slot \in s.lo[i] -> 0

SlotState(s, slot) == [j \in 1..STATE_LEN |-> TritAt(s, j - 1, slot)] \o << >>

(* H0..H3 and L0..L3: the lane trits of a slot are its ternary digits.     *)
Lane(i) ==
  LET digit(slot) == (slot \div 3 ^ i) % 3
  IN  [hi |-> {s \in Slots : digit(s) # 2}, lo |-> {s \in Slots : digit(s) # 1}]

(* A zero leaves the bits that are there.                                  *)
AbsorbTrit(s, i, trit) ==
  CASE trit = 1 -> set(s, i, BITS_1, BITS_0)
    [] trit = -1 -> set(s, i, BITS_0, BITS_1)
    [] trit = 0 -> s

Absorb(s, trits) == FoldLeft(LAMBDA r, i : AbsorbTrit(r, i, trits[i + 1]), s, Steps(Len(trits)))

make_prestate(input) ==
  LET chunk(c) == SubSeq(input, c * HASH_LEN + 1, (c + 1) * HASH_LEN)
      full == FoldLeft(LAMBDA s, c : transform(Absorb(s, chunk(c)), new(BITS_1)),
                       new(BITS_1), Steps(NUM_FULL_CHUNKS_FOR_PRESTATE))
      rest == SubSeq(input, NUM_FULL_CHUNKS_FOR_PRESTATE * HASH_LEN + 1,
                     NUM_FULL_CHUNKS_FOR_PRESTATE * HASH_LEN + CHUNK_NONCE_START)
  IN  FoldLeft(LAMBDA s, i : set(s, CHUNK_NONCE_START + i, Lane(i).hi, Lane(i).lo),
               Absorb(full, rest), Steps(LaneTrits))

(* Adds one to the trits from first to last, up to the first without a     *)
(* carry; exhausted when there is none.                                    *)
Increment(s, first, last) ==
  FoldLeft(LAMBDA r, i : IF ~r.carry THEN r
                         ELSE [state |-> bit_add(r.state, first + i).state,
                               carry |-> bit_add(r.state, first + i).with_carry],
           [state |-> s, carry |-> TRUE], Steps(last - first + 1))

outer_increment(s) == Increment(s, OUTER_INCR_START, INNER_INCR_START - 1).state
inner_increment(s) == Increment(s, INNER_INCR_START, HASH_LEN - 1)

(* Only the bit of slot 0 can be the number 1 the masked words are         *)
(* compared with.                                                          *)
extract_nonce(s, slot) ==
  [k \in 1..NONCE_LEN |-> IF slot = 0 THEN TritAt(s, CHUNK_NONCE_START + k - 1, 0) ELSE 0]

find_nonce(s) ==
  LET passing == {slot \in Slots : \A i \in (HASH_LEN - difficulty)..(HASH_LEN - 1) : slot \in bit_equal(s, i)}
  IN  IF passing = {} THEN << >>
      ELSE <<extract_nonce(s, CHOOSE slot \in passing : \A k \in passing : slot <= k)>>

Weight(trits) == LET nonzero == {i \in DOMAIN trits : trits[i] # 0}
                 IN  IF nonzero = {} THEN Len(trits)
                     ELSE Len(trits) - (CHOOSE i \in nonzero : \A k \in nonzero : i >= k)

Value(trits) == FoldLeft(LAMBDA v, t : 3 * v + t, 0, Reverse(trits))

(* In every slot the bit-sliced transform of a prestate gives the first    *)
(* HASH_LEN trits, all that its last round writes, that Curl gives on the  *)
(* trits of that slot; the slots of a prestate differ, and in each of them *)
(* the two increments count; a nonce is found exactly when the hash of a   *)
(* slot has the weight, and if the first such slot is slot 0 it is what    *)
(* the state holds there.  The trits of the last chunk that are not zero   *)
(* stand before the nonce.  Nothing is said of the nonce of another slot,  *)
(* which extract_nonce does not read as its documentation says, nor of the *)
(* capacity of a prestate, which transform leaves one round behind.        *)
BitSlicesAgree(input) ==
  LET pre  == make_prestate(input)
      post == transform(pre, new(BITS_1))
      part(s, slot, from, to) == SubSeq(SlotState(s, slot), from + 1, to)
      hash(s, slot) == part(s, slot, 0, HASH_LEN)
      inner(s, slot) == Value(part(s, slot, INNER_INCR_START, HASH_LEN))
      outer(s, slot) == Value(part(s, slot, OUTER_INCR_START, INNER_INCR_START))
      up == inner_increment(pre)
      full == HASH_LEN * NUM_FULL_CHUNKS_FOR_PRESTATE
      heavy == {slot \in Slots : Weight(hash(post, slot)) >= difficulty}
      lowest == CHOOSE slot \in heavy : \A k \in heavy : slot <= k
  IN  /\ \A slot \in Slots :
           /\ hash(post, slot) = SubSeq(Curl(SlotState(pre, slot), NUM_ROUNDS), 1, HASH_LEN)
           /\ \A other \in Slots \ {slot} : hash(pre, slot) # hash(pre, other)
           /\ \A i \in 1..CHUNK_NONCE_START : input[full + i] # 0 => SlotState(pre, slot)[i] = input[full + i]
           /\ inner(up.state, slot) = IF up.carry THEN -inner(pre, slot) ELSE inner(pre, slot) + 1
           /\ outer(outer_increment(pre), slot) \in {outer(pre, slot) + 1, -outer(pre, slot)}
           /\ inner(outer_increment(pre), slot) = inner(pre, slot)
      /\ IF heavy = {} THEN find_nonce(post) = << >>
         ELSE /\ find_nonce(post) # << >>
              /\ lowest = 0 => find_nonce(post) = <<part(post, 0, CHUNK_NONCE_START, HASH_LEN)>>
=============================================================================
