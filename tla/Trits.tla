-------------------------------- MODULE Trits --------------------------------
(***************************************************************************)
(* bee-ternary: trits packed TPB to a byte (T1B1, T2B1, T3B1, T4B1, T5B1), *)
(* slices of them, and the conversions of trits to i64, trytes and         *)
(* serialized integers.                                                    *)
(***************************************************************************)
EXTENDS Integers, Sequences, SequencesExt

CONSTANT IntBits   \* 64: width of the i64 of num_conversions

Btrit == {-1, 0, 1}

(* The same sequence, as a tuple: TLC evaluates its elements once.         *)
Array(s) == s \o << >>

Ok(v) == [err |-> "none", value |-> v]
Err(e) == [err |-> e]

BAL(p) == (3 ^ p - 1) \div 2

(* Mutant: T5B1 in i8 as well.                                             *)
NarrowAlways(p, n) == ((n + 128) % 256) - 128

(* T5B1 computes in i16, the others in i8, where the result is wrapped.    *)
Narrow(p, n) == IF p = 5 THEN n ELSE ((n + 128) % 256) - 128

extract(p, x, elem) == ((Narrow(p, x + BAL(p)) \div 3 ^ elem) % 3) - 1

insert(p, x, elem, trit) ==
  LET ux == Narrow(p, x + BAL(p))
  IN  Narrow(p, ux + ((trit + 1) - ((ux \div 3 ^ elem) % 3)) * 3 ^ elem) - BAL(p)

is_valid(p, b) == b >= -BAL(p) /\ b <= BAL(p)

-----------------------------------------------------------------------------
(* A slice is a byte pointer and one word that packs its length and the    *)
(* offset of its first trit in the first byte.                             *)

OffsetRange(p) == IF p = 5 THEN 8 ELSE 4

make(p, ptr, offset, n) ==
  [ptr |-> ptr + (offset \div p), word |-> n * OffsetRange(p) + (offset % p)]

len_offset(p, s) == <<s.word \div OffsetRange(p), s.word % OffsetRange(p)>>

slice_len(p, s) == len_offset(p, s)[1]

ptr(p, s, index) == s.ptr + ((len_offset(p, s)[2] + index) \div p)

get_unchecked(p, bs, s, index) ==
  extract(p, bs[ptr(p, s, index) + 1], (len_offset(p, s)[2] + index) % p)

slice_unchecked(p, s, from, to) ==
  make(p, ptr(p, s, from), (len_offset(p, s)[2] + from) % p, to - from)

(* The bytes under a byte-aligned slice.  T2B1, T3B1 and T4B1 reuse the    *)
(* packed word of make as the length of the byte slice.                    *)
as_i8_slice_len(p, s) ==
  LET n == (slice_len(p, s) + p - 1) \div p
  IN  IF p \in {1, 5} THEN n ELSE make(p, s.ptr, 0, n).word

Trits(p, bs, s) == Array([i \in 1..slice_len(p, s) |-> get_unchecked(p, bs, s, i - 1)])

-----------------------------------------------------------------------------
(* Growing and shrinking a buffer, and collecting trits into one.          *)

PushByte(p, bs, n, trit) ==
  IF n % p = 0 THEN Append(bs, insert(p, 0, 0, trit))
  ELSE [bs EXCEPT ![Len(bs)] = insert(p, bs[Len(bs)], n % p, trit)]

PopByte(p, bs, n) ==
  IF n % p = 1 \/ p = 1 THEN [val |-> extract(p, Last(bs), 0), bytes |-> Front(bs)]
  ELSE [val |-> extract(p, Last(bs), (n + p - 1) % p), bytes |-> bs]

(* collect: encode, to_buf, to_owned and from_trits push one trit after    *)
(* another into an empty buffer of the other encoding.                     *)
encode(p, ts) ==
  FoldLeft(LAMBDA buf, t : [bytes |-> PushByte(p, buf.bytes, buf.len, t), len |-> buf.len + 1],
           [bytes |-> << >>, len |-> 0], ts)

-----------------------------------------------------------------------------
(* num_conversions: i64 to trits and back.                                 *)

I64Max == 2 ^ (IntBits - 1) - 1
I64Min == -(2 ^ (IntBits - 1))
MAX_TRITS_IN_I64 == ((63 * IntBits) \div 100) + 1

min_trits(value) ==
  LET vp[n \in 1..(MAX_TRITS_IN_I64 + 1)] == IF n = 1 THEN 1 ELSE vp[n - 1] * 3 + 1
  IN  CHOOSE n \in DOMAIN vp : value <= vp[n] /\ \A k \in DOMAIN vp : k < n => value > vp[k]

from_i64(value) ==
  LET size == min_trits(IF value < 0 THEN -value ELSE value)
      rest[pos \in 1..(size + 1)] ==
        IF pos = 1 THEN (IF value < 0 THEN -value ELSE value) ELSE (rest[pos - 1] + 1) \div 3
      trit(pos) == ((rest[pos] + 1) % 3) - 1
  IN  Array([pos \in 1..size |->
               IF rest[pos] = 0 THEN 0 ELSE IF value < 0 THEN -trit(pos) ELSE trit(pos)])

WrapI64(n) == ((n - I64Min) % 2 ^ IntBits) + I64Min

(* Short inputs are summed in i64; long ones in i128 with a range test     *)
(* after every trit, which lets i64::MIN - 1 through.                      *)
try_from_trits(ts) ==
  LET n == Len(ts)
      accum[i \in 1..(n + 1)] == IF i = n + 1 THEN 0 ELSE accum[i + 1] * 3 + ts[i]
      tooBig == \E i \in 1..n : accum[i] > I64Max \/ accum[i] < I64Min - 1
  IN  IF n = 0 THEN Err("EmptyTrits")
      ELSE IF \E i \in (MAX_TRITS_IN_I64 + 1)..n : ts[i] # 0 THEN Err("AbsValueTooBig")
      ELSE IF n >= MAX_TRITS_IN_I64 /\ tooBig THEN Err("AbsValueTooBig")
      ELSE Ok(WrapI64(accum[1]))

(* tryte.rs: a tryte is the byte of a T3B1; its letters are '9', 'A'..'M'  *)
(* for 1..13 and 'N'..'Z' for -13..-1 (the characters as ASCII codes).     *)
TryteToChar(x) ==
  IF x = 0 THEN 57 ELSE IF x < 0 THEN (x + 13) + 78 ELSE (x - 1) + 65

TryteFromChar(c) ==
  IF c = 57 THEN Ok(0) ELSE IF c \in 78..90 THEN Ok((c - 78) - 13)
  ELSE IF c \in 65..77 THEN Ok((c - 65) + 1) ELSE Err("InvalidRepr")

TryteFromI8(x) == IF x \in -13..13 THEN Ok(x) ELSE Err("InvalidRepr")

as_trits(tryte) == Trits(3, <<tryte>>, make(3, 0, 0, 3))

(* serde.rs: a trit travels as an i8; a sequence fails on its first bad    *)
(* element.                                                                *)
VisitBtrit(n) == IF n \in -1..1 THEN Ok(n) ELSE Err("invalid_value")
VisitUtrit(n) == IF n \in 0..2 THEN Ok(n) ELSE Err("invalid_value")
VisitSeq(ns) ==
  IF \E i \in DOMAIN ns : VisitBtrit(ns[i]) = Err("invalid_value") THEN Err("invalid_value")
  ELSE Ok(FoldLeft(LAMBDA buf, n : Append(buf, VisitBtrit(n).value), << >>, ns))

Value(ts) == LET v[i \in 1..(Len(ts) + 1)] == IF i > Len(ts) THEN 0 ELSE ts[i] + 3 * v[i + 1]
             IN  v[1]
=============================================================================
