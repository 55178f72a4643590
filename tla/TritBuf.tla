------------------------------- MODULE TritBuf -------------------------------
(***************************************************************************)
(* A TritBuf of bee-ternary that is filled, changed and emptied in any     *)
(* order; the history variable trits holds what it should contain.         *)
(***************************************************************************)
EXTENDS Trits

CONSTANTS Encodings,   \* the values of TPB under test
          Beyond       \* bound: trits a buffer may hold past its first byte

VARIABLES tpb, bytes, len, trits

vars == <<tpb, bytes, len, trits>>

MaxLen == tpb + Beyond

as_slice == make(tpb, 0, 0, len)

(* The five encodings have their own copies of the raw operations.         *)
T1B1_get(bs, s, i) == get_unchecked(1, bs, s, i)
T2B1_get(bs, s, i) == get_unchecked(2, bs, s, i)
T3B1_get(bs, s, i) == get_unchecked(3, bs, s, i)
T4B1_get(bs, s, i) == get_unchecked(4, bs, s, i)
T5B1_get(bs, s, i) == get_unchecked(5, bs, s, i)

T1B1_slice(s, from, to) == slice_unchecked(1, s, from, to)
T2B1_slice(s, from, to) == slice_unchecked(2, s, from, to)
T3B1_slice(s, from, to) == slice_unchecked(3, s, from, to)
T4B1_slice(s, from, to) == slice_unchecked(4, s, from, to)
T5B1_slice(s, from, to) == slice_unchecked(5, s, from, to)

get(s, i) ==
  CASE tpb = 1 -> T1B1_get(bytes, s, i) [] tpb = 2 -> T2B1_get(bytes, s, i)
    [] tpb = 3 -> T3B1_get(bytes, s, i) [] tpb = 4 -> T4B1_get(bytes, s, i)
    [] tpb = 5 -> T5B1_get(bytes, s, i)

slice(s, from, to) ==
  CASE tpb = 1 -> T1B1_slice(s, from, to) [] tpb = 2 -> T2B1_slice(s, from, to)
    [] tpb = 3 -> T3B1_slice(s, from, to) [] tpb = 4 -> T4B1_slice(s, from, to)
    [] tpb = 5 -> T5B1_slice(s, from, to)

chunks(s, n) ==
  [c \in 1..((slice_len(tpb, s) + n - 1) \div n) |->
     slice(s, (c - 1) * n, IF c * n < slice_len(tpb, s) THEN c * n ELSE slice_len(tpb, s))]

-----------------------------------------------------------------------------
push(trit) ==
  /\ len < MaxLen
  /\ bytes' = PushByte(tpb, bytes, len, trit)
  /\ len' = len + 1
  /\ trits' = Append(trits, trit)
  /\ UNCHANGED tpb

(* The trit stays in a byte that is not popped.                            *)
pop ==
  /\ len > 0
  /\ bytes' = PopByte(tpb, bytes, len).bytes
  /\ len' = len - 1
  /\ trits' = Front(trits)
  /\ UNCHANGED tpb

(* set and set_unchecked, and one round of fill or copy_from, through the  *)
(* slice that starts at from.                                              *)
set(from, index, trit) ==
  LET s == slice(as_slice, from, len)
      b == ptr(tpb, s, index) + 1
  IN  /\ index < slice_len(tpb, s)
      /\ bytes' = [bytes EXCEPT ![b] = insert(tpb, @, (len_offset(tpb, s)[2] + index) % tpb, trit)]
      /\ trits' = [trits EXCEPT ![from + index + 1] = trit]
      /\ UNCHANGED <<tpb, len>>

T1B1Buf_push(trit) == tpb = 1 /\ push(trit)
T2B1Buf_push(trit) == tpb = 2 /\ push(trit)
T3B1Buf_push(trit) == tpb = 3 /\ push(trit)
T4B1Buf_push(trit) == tpb = 4 /\ push(trit)
T5B1Buf_push(trit) == tpb = 5 /\ push(trit)

T1B1Buf_pop == tpb = 1 /\ pop
T2B1Buf_pop == tpb = 2 /\ pop
T3B1Buf_pop == tpb = 3 /\ pop
T4B1Buf_pop == tpb = 4 /\ pop
T5B1Buf_pop == tpb = 5 /\ pop

Init ==
  /\ tpb \in Encodings
  /\ bytes = << >>
  /\ len = 0
  /\ trits = << >>

Next ==
  \/ \E t \in Btrit : \/ T1B1Buf_push(t) \/ T2B1Buf_push(t) \/ T3B1Buf_push(t)
                        \/ T4B1Buf_push(t) \/ T5B1Buf_push(t)
  \/ T1B1Buf_pop \/ T2B1Buf_pop \/ T3B1Buf_pop \/ T4B1Buf_pop \/ T5B1Buf_pop
  \/ \E from \in 0..MaxLen, i \in 0..MaxLen, t \in Btrit : from <= len /\ set(from, i, t)

Spec == Init /\ [][Next]_vars

-----------------------------------------------------------------------------
(* The packed buffer reads as the trits that were put into it, directly,   *)
(* through any slice of a slice, in chunks and after re-encoding; every    *)
(* byte is valid; a pop would return the last trit; and the byte view of a *)
(* T1B1 or T5B1 buffer covers exactly its bytes.                           *)
PackedReadsBack ==
  /\ \A i \in 1..len : get(as_slice, i - 1) = trits[i]
  /\ \A i \in 1..Len(bytes) : is_valid(tpb, bytes[i])
  /\ len > 0 => PopByte(tpb, bytes, len).val = Last(trits)
  /\ \A a \in 0..len : \A b \in a..len : \A c \in 0..(b - a) : \A d \in c..(b - a) :
       Trits(tpb, bytes, slice(slice(as_slice, a, b), c, d)) = SubSeq(trits, a + c + 1, a + d)
  /\ \A n \in 1..MaxLen :
       FlattenSeq([c \in DOMAIN chunks(as_slice, n) |-> Trits(tpb, bytes, chunks(as_slice, n)[c])]) = trits
  /\ \A p \in Encodings :
       LET e == encode(p, Trits(tpb, bytes, as_slice))
       IN  Trits(p, e.bytes, make(p, 0, 0, e.len)) = trits
  /\ (as_i8_slice_len(tpb, as_slice) = Len(bytes)) = (tpb \in {1, 5} \/ len = 0)

-----------------------------------------------------------------------------
(* What the buffer holds, read as an integer: i64 to trits and back is the *)
(* identity; trits to i64 give their value when it fits and AbsValueTooBig *)
(* when it does not, except that i64::MIN - 1 becomes i64::MAX; three      *)
(* trits are the tryte with that value, which survives its letter; and a   *)
(* serialized buffer is read back as it was.                               *)
NumbersAgree ==
  LET v == Value(trits)
      r == try_from_trits(trits)
  IN  /\ r = (IF len = 0 THEN Err("EmptyTrits")
              ELSE IF v = I64Min - 1 THEN Ok(I64Max)
              ELSE IF v \in I64Min..I64Max THEN Ok(v) ELSE Err("AbsValueTooBig"))
      /\ v \in I64Min..I64Max =>
           LET ts == from_i64(v)
           IN  /\ try_from_trits(ts) = Ok(v)
               /\ \A i \in DOMAIN ts : i > Len(trits) => ts[i] = 0
      /\ len = 3 => /\ as_trits(TryteFromI8(v).value) = trits
                    /\ TryteFromChar(TryteToChar(v)) = Ok(v)
      /\ VisitSeq(trits) = Ok(trits)
      /\ \A i \in DOMAIN trits : VisitUtrit(trits[i] + 1) = Ok(trits[i] + 1)
=============================================================================
