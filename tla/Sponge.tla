-------------------------------- MODULE Sponge --------------------------------
(***************************************************************************)
(* bee-crypto/src/sponge: CurlP and Kerl, both fed with the same calls of  *)
(* absorb, squeeze_into and reset in any order.  HASH_LEN is TritLen.      *)
(* Keccak is external: a function of the blocks it was updated with.       *)
(***************************************************************************)
EXTENDS BigInt

CONSTANTS RoundNumbers,   \* numbers of rounds of CurlP under test (27 and 81 in the code)
          Messages,       \* what absorb may be called with
          Lengths,        \* lengths of the buffers squeeze_into may be called with
          MaxCalls,       \* bound: calls after a reset
          Keccak(_)       \* Keccak384: sequences of blocks of bytes to bytes

VARIABLES rounds, curl, kerl,
          out,    \* what each sponge wrote into the last buffer
          calls   \* history: the calls since the last reset

vars == <<rounds, curl, kerl, out, calls>>

HASH_LEN == TritLen
STATE_LEN == 3 * HASH_LEN
HALF_STATE_LEN == STATE_LEN \div 2
TRUTH_TABLE == <<1, 0, -1, 2, 1, -1, 0, 2, -1, 1, 0>>

Min2(a, b) == IF a < b THEN a ELSE b

(* Trits::chunks; the last one may be shorter.                             *)
chunks(s) ==
  [c \in 1..((Len(s) + HASH_LEN - 1) \div HASH_LEN) |->
     SubSeq(s, (c - 1) * HASH_LEN + 1, Min2(c * HASH_LEN, Len(s)))]

-----------------------------------------------------------------------------
(* CurlP.  Trits of the state are numbered from 0 in the code, from 1      *)
(* here.                                                                   *)
TruthTable(xs, p, q) == TRUTH_TABLE[xs[p + 1] + 4 * xs[q + 1] + 5 + 1]

apply_substitution_box(input) ==
  Array([j \in 1..STATE_LEN |->
     LET i == (j - 2) \div 2
         left == HALF_STATE_LEN - i
         right == STATE_LEN - i - 1
     IN  IF j = 1 THEN TruthTable(input, 0, HALF_STATE_LEN)
         ELSE IF j % 2 = 0 THEN TruthTable(input, left, right)
         ELSE TruthTable(input, right, left - 1)])

Swap(c) == [state |-> c.work_state, work_state |-> c.state]

(* Every round swaps the buffers, so the state is the transformed one; the *)
(* last swap, for an even number of rounds, undoes that.                   *)
transform(c) ==
  LET rounded == FoldLeft(LAMBDA r, k : Swap([r EXCEPT !.work_state = apply_substitution_box(r.state)]),
                          c, [k \in 1..rounds |-> k])
  IN  IF rounds % 2 = 0 THEN Swap(rounded) ELSE rounded

curl_new == [state |-> filled(STATE_LEN, 0), work_state |-> filled(STATE_LEN, 0)]

curl_absorb(c, input) ==
  FoldLeft(LAMBDA r, chunk : transform([r EXCEPT !.state = chunk \o SubSeq(@, Len(chunk) + 1, STATE_LEN)]),
           c, chunks(input))

(* Mutant: a reset that only clears what was absorbed.                     *)
curl_reset_hash(c) ==
  [c EXCEPT !.state = filled(HASH_LEN, 0) \o SubSeq(@, HASH_LEN + 1, STATE_LEN)]

curl_reset(c) == [c EXCEPT !.state = filled(STATE_LEN, 0)]

curl_squeeze_into(c, n) ==
  FoldLeft(LAMBDA r, chunk : [curl |-> transform(r.curl),
                              out |-> r.out \o SubSeq(r.curl.state, 1, Len(chunk))],
           [curl |-> c, out |-> << >>], chunks(filled(n, 0)))

-----------------------------------------------------------------------------
(* Kerl: the blocks given to Keccak, and the two buffers, which reset      *)
(* leaves as they are.                                                     *)
kerl_new ==
  [keccak |-> << >>, binary_buffer |-> filled(WordLen * BytesPerWord, 0),
   ternary_buffer |-> filled(TritLen, 0)]

(* NotMultipleOfHashLength: the sponge is left as it is.                   *)
kerl_absorb(k, input) ==
  LET update(r, block, chunk) ==
        [keccak |-> Append(r.keccak, block), binary_buffer |-> block, ternary_buffer |-> chunk]
      take(r, chunk) == update(r, I384_be_u8_from_t242(into_t242(chunk)), chunk)
  IN  IF Len(input) % HASH_LEN # 0 THEN k ELSE FoldLeft(take, k, chunks(input))

kerl_reset(k) == [k EXCEPT !.keccak = << >>]

(* Each hash is followed by a new Keccak that starts from its complement.  *)
kerl_squeeze_into(k, n) ==
  LET give(r, chunk) ==
        LET hash == Keccak(r.kerl.keccak)
            next == not_inplace(ByteBase, hash)
        IN  [kerl |-> [r.kerl EXCEPT !.keccak = <<next>>, !.binary_buffer = next],
             out |-> r.out \o into_t243(from_i384_ignoring_mst(hash))]
  IN  IF n % HASH_LEN # 0 THEN [kerl |-> k, out |-> << >>]
      ELSE FoldLeft(give, [kerl |-> k, out |-> << >>], chunks(filled(n, 0)))

-----------------------------------------------------------------------------
Init ==
  /\ rounds \in RoundNumbers
  /\ curl = curl_new
  /\ kerl = kerl_new
  /\ out = [curl |-> << >>, kerl |-> << >>]
  /\ calls = << >>

absorb(input) ==
  /\ Len(calls) < MaxCalls
  /\ curl' = curl_absorb(curl, input)
  /\ kerl' = kerl_absorb(kerl, input)
  /\ calls' = Append(calls, [absorb |-> input])
  /\ UNCHANGED <<rounds, out>>

squeeze_into(n) ==
  /\ Len(calls) < MaxCalls
  /\ \E c \in {curl_squeeze_into(curl, n)}, k \in {kerl_squeeze_into(kerl, n)} :
       /\ curl' = c.curl
       /\ kerl' = k.kerl
       /\ out' = [curl |-> c.out, kerl |-> k.out]
  /\ calls' = Append(calls, [squeeze |-> n])
  /\ UNCHANGED rounds

reset ==
  /\ calls # << >>
  /\ curl' = curl_reset(curl)
  /\ kerl' = kerl_reset(kerl)
  /\ calls' = << >>
  /\ UNCHANGED <<rounds, out>>

Next == (\E m \in Messages : absorb(m)) \/ (\E n \in Lengths : squeeze_into(n)) \/ reset

Spec == Init /\ [][Next]_vars

-----------------------------------------------------------------------------
C == INSTANCE CurlReference WITH HASH_LEN <- TritLen

(* The state after a call, and what the call wrote, with n rounds.         *)
CurlCall(r, call, n) ==
  LET step(x, chunk) ==
        IF "absorb" \in DOMAIN call
        THEN [x EXCEPT !.state = C!Curl(chunk \o SubSeq(@, Len(chunk) + 1, STATE_LEN), n)]
        ELSE [state |-> C!Curl(x.state, n), out |-> x.out \o SubSeq(x.state, 1, Len(chunk))]
      data == IF "absorb" \in DOMAIN call THEN call.absorb ELSE filled(call.squeeze, 0)
  IN  FoldLeft(step, [r EXCEPT !.out = << >>], chunks(data))

(* The bytes of an integer, big-endian, in two's complement.               *)
BytesOf(v) ==
  [k \in 1..(WordLen * BytesPerWord) |->
     ((v % Modulus) \div ByteBase ^ (WordLen * BytesPerWord - k)) % ByteBase]

(* After any calls and resets CurlP, with the odd numbers of rounds that   *)
(* the code uses, is where a new one would be after the calls since the    *)
(* last reset, and has written what that one writes.  Kerl, as long as it  *)
(* is fed with whole hash lengths, hashes the integers of the chunks'      *)
(* first 242 trits, or only the complement of its last hash once it was    *)
(* squeezed; what it writes ends in a zero trit, and equals the hash       *)
(* modulo 3^242 where from_i384_ignoring_mst does.  Of an even number of   *)
(* rounds, and of Kerl on other lengths, nothing is said: there the code   *)
(* does not do what its documentation says.                                *)
SpongesAgree ==
  LET ref == FoldLeft(LAMBDA r, c : CurlCall(r, c, rounds), [state |-> filled(STATE_LEN, 0), out |-> << >>], calls)
      good(c) == IF "absorb" \in DOMAIN c THEN Len(c.absorb) % HASH_LEN = 0 ELSE c.squeeze % HASH_LEN = 0
      squeezes == {i \in DOMAIN calls : "squeeze" \in DOMAIN calls[i]}
      from == IF squeezes = {} THEN 0 ELSE CHOOSE i \in squeezes : \A j \in squeezes : i >= j
      absorbed == FlattenSeq([i \in 1..(Len(calls) - from) |->
                    IF "absorb" \in DOMAIN calls[from + i]
                    THEN chunks(calls[from + i].absorb) ELSE << >>])
      blocks == [i \in DOMAIN absorbed |-> BytesOf(Ternary(into_t242(absorbed[i])))]
      last == calls[Len(calls)]
  IN  /\ rounds % 2 = 1 =>
           /\ curl.state = ref.state
           /\ calls # << >> /\ "squeeze" \in DOMAIN last => out.curl = ref.out
      /\ (\A i \in DOMAIN calls : good(calls[i])) =>
           /\ IF squeezes = {} THEN kerl.keccak = blocks
              ELSE Len(kerl.keccak) = Len(blocks) + 1 /\ Tail(kerl.keccak) = blocks
           /\ from # 0 /\ from = Len(calls) =>
                LET hash  == not_inplace(ByteBase, kerl.keccak[1])
                    words == Reverse(read_u32_into(BigEndian, hash))
                    trits == SubSeq(out.kerl, Len(out.kerl) - HASH_LEN + 1, Len(out.kerl))
                    missed == /\ Signed(words) < -((3 ^ (TritLen - 1) - 1) \div 2)
                              /\ words[WordLen] = LE_U32_NEG_HALF_MAX_T242[WordLen]
                IN  /\ Len(out.kerl) = last.squeeze
                    /\ trits[HASH_LEN] = 0
                    /\ ~missed => (Ternary(trits) - Signed(words)) % 3 ^ (TritLen - 1) = 0
=============================================================================
