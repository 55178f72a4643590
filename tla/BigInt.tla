------------------------------- MODULE BigInt -------------------------------
(***************************************************************************)
(* bee-ternary/src/bigint: 384-bit integers as arrays of u32 (or u8)       *)
(* digits, 243- and 242-trit integers, and the conversions between them.   *)
(* The widths are parameters; the algorithms are the ones of the code,     *)
(* digit by digit.  Digits of an array are numbered from 1.                *)
(***************************************************************************)
EXTENDS Integers, Sequences, SequencesExt

CONSTANTS ByteBase,       \* 2^8: values of a digit of a U8Repr
          BytesPerWord,   \* 4: bytes of a u32
          WordLen,        \* BINARY_LEN_IN_U32: digits of a U32Repr
          TritLen         \* 243: trits of a T243 (a T242 has one less)

LittleEndian == "little"
BigEndian == "big"
WordBase == ByteBase ^ BytesPerWord

Words == [1..WordLen -> 0..(WordBase - 1)]

(* Index of the i-th least significant of the n digits of an array.        *)
Digit(e, n, i) == IF e = LittleEndian THEN i ELSE n + 1 - i

(* The same sequence, as a tuple: TLC evaluates its elements once.         *)
Array(s) == s \o << >>

toggle_endianness(s) == Reverse(s)

-----------------------------------------------------------------------------
(* Sums: one digit at a time from the least significant one, with a carry. *)

overflowing_add(x, y) == [sum |-> (x + y) % WordBase, overflow |-> x + y >= WordBase]

overflowing_add_with_carry(x, y, carry) ==
  LET first  == overflowing_add(x, y)
      second == overflowing_add(first.sum, carry)
  IN  [sum |-> second.sum, overflow |-> first.overflow \/ second.overflow]

RippleAdd(e, s, o, carryIn) ==
  LET at(i) == Digit(e, WordLen, i)
      carry[i \in 1..WordLen] ==
        IF i = 1 THEN carryIn
        ELSE IF overflowing_add_with_carry(s[at(i - 1)], o[at(i - 1)], carry[i - 1]).overflow
             THEN 1 ELSE 0
  IN  Array([j \in 1..WordLen |->
               overflowing_add_with_carry(s[j], o[j], carry[Digit(e, WordLen, j)]).sum])

not_inplace(base, s) == [j \in DOMAIN s |-> base - 1 - s[j]]

(* Mutant: the complement without its carry.                               *)
RippleSubOnes(e, s, o) == RippleAdd(e, s, not_inplace(WordBase, o), 0)

RippleSub(e, s, o) == RippleAdd(e, s, not_inplace(WordBase, o), 1)

I384_be_add(s, o) == RippleAdd(BigEndian, s, o, 0)
I384_be_sub(s, o) == RippleSub(BigEndian, s, o)
I384_le_add(s, o) == RippleAdd(LittleEndian, s, o, 0)
I384_le_sub(s, o) == RippleSub(LittleEndian, s, o)
U384_be_add(s, o) == RippleAdd(BigEndian, s, o, 0)
U384_be_sub(s, o) == RippleSub(BigEndian, s, o)
U384_le_add(s, o) == RippleAdd(LittleEndian, s, o, 0)
U384_le_sub(s, o) == RippleSub(LittleEndian, s, o)

(* Adds a digit; the extent is the index one past the last digit touched.  *)
(* Carrying out of the top digit is an index panic.                        *)
AddDigit(s, x) ==
  LET over[i \in 1..WordLen] ==
        IF i = 1 THEN overflowing_add(s[1], x).overflow
        ELSE over[i - 1] /\ overflowing_add(s[i], 1).overflow
      untouched == {i \in 2..WordLen : ~over[i - 1]}
  IN  IF over[WordLen] THEN [panic |-> TRUE]
      ELSE [panic  |-> FALSE,
            extent |-> IF untouched = {} THEN WordLen
                       ELSE (CHOOSE i \in untouched : \A k \in untouched : i <= k) - 1,
            inner  |-> Array([i \in 1..WordLen |->
                                IF i = 1 THEN overflowing_add(s[1], x).sum
                                ELSE IF over[i - 1] THEN overflowing_add(s[i], 1).sum
                                ELSE s[i]])]

U384_le_add_digit(s, x) == AddDigit(s, x)
I384_le_add_digit(s, x) == AddDigit(s, x)

(* The big-endian copies step below index 0 as soon as the carry reaches   *)
(* the top digit, which panics where overflow is checked.                  *)
AddDigitDown(s, x, overflowChecks) ==
  LET r == AddDigit(Reverse(s), x)
  IN  IF r.panic \/ (overflowChecks /\ r.extent = WordLen) THEN [panic |-> TRUE]
      ELSE [panic |-> FALSE, inner |-> Reverse(r.inner)]

U384_be_add_digit(s, x, overflowChecks) == AddDigitDown(s, x, overflowChecks)
I384_be_add_digit(s, x, overflowChecks) == AddDigitDown(s, x, overflowChecks)

overflowing_sub(x, y) == [sum |-> (x - y) % WordBase, overflow |-> x < y]

(* The borrow goes through the digits in the order of the sequence at, and *)
(* stops with a panic if it is still there after the given number of them. *)
Borrow(s, at, last) ==
  LET over[k \in 0..Len(at)] == k = 0 \/ (over[k - 1] /\ s[at[k]] = 0)
  IN  [panic |-> over[last],
       inner |-> Array([i \in 1..WordLen |->
                          IF \E k \in DOMAIN at : at[k] = i /\ over[k - 1]
                          THEN overflowing_sub(s[i], 1).sum ELSE s[i]])]

(* Both copies subtract from inner[0], which in the big-endian one is the  *)
(* top digit; its borrow then starts at the other end and comes back to    *)
(* the top digit.  Stepping below index 0 after that one panics where      *)
(* overflow is checked.                                                    *)
SubInteger(s, x, at, last) ==
  LET first == [s EXCEPT ![1] = overflowing_sub(s[1], x).sum]
  IN  IF overflowing_sub(s[1], x).overflow THEN Borrow(first, at, last)
      ELSE [panic |-> FALSE, inner |-> first]

I384_le_sub_integer(s, x) == SubInteger(s, x, [k \in 1..(WordLen - 1) |-> k + 1], WordLen - 1)
I384_be_sub_integer(s, x, overflowChecks) ==
  SubInteger(s, x, [k \in 1..WordLen |-> WordLen + 1 - k],
             IF overflowChecks THEN WordLen - 1 ELSE WordLen)

U384_le_divide_by_two(s) ==
  [i \in 1..WordLen |->
     (s[i] \div 2) + (IF i < WordLen THEN (s[i + 1] % 2) * (WordBase \div 2) ELSE 0)]

(* The loop of the big-endian copy starts where it ends.                   *)
U384_be_divide_by_two(s) == [s EXCEPT ![1] = @ \div 2]

(* Both copies look at the last digit of the array.                        *)
I384_le_is_negative(s) == s[WordLen] >= WordBase \div 2
I384_be_is_negative(s) == s[WordLen] >= WordBase \div 2

(* The constants, by their digits: the least significant one, the most     *)
(* significant one, and the ones between.                                  *)
Constant(e, n, low, middle, top) ==
  Array([j \in 1..n |-> LET i == Digit(e, n, j)
                        IN  IF i = 1 THEN low ELSE IF i = n THEN top ELSE middle])

UnsignedConstants(e, n, base) ==
  [zero |-> Constant(e, n, 0, 0, 0), one |-> Constant(e, n, 1, 0, 0),
   two |-> Constant(e, n, 2, 0, 0), max |-> Constant(e, n, base - 1, base - 1, base - 1)]

SignedConstants(e, n, base) ==
  [zero |-> Constant(e, n, 0, 0, 0), one |-> Constant(e, n, 1, 0, 0),
   neg_one |-> Constant(e, n, base - 1, base - 1, base - 1), two |-> Constant(e, n, 2, 0, 0),
   neg_two |-> Constant(e, n, base - 2, base - 1, base - 1),
   max |-> Constant(e, n, base - 1, base - 1, (base \div 2) - 1),
   min |-> Constant(e, n, 0, 0, base \div 2)]

ByteLen == WordLen * BytesPerWord

I384_be_u8  == SignedConstants(BigEndian, ByteLen, ByteBase)
I384_be_u32 == SignedConstants(BigEndian, WordLen, WordBase)
I384_le_u8  == SignedConstants(LittleEndian, ByteLen, ByteBase)
I384_le_u32 == SignedConstants(LittleEndian, WordLen, WordBase)
U384_be_u8  == UnsignedConstants(BigEndian, ByteLen, ByteBase)
U384_be_u32 == UnsignedConstants(BigEndian, WordLen, WordBase)
U384_le_u8  == UnsignedConstants(LittleEndian, ByteLen, ByteBase)
U384_le_u32 == UnsignedConstants(LittleEndian, WordLen, WordBase)

-----------------------------------------------------------------------------
(* Comparisons, from the most significant digit down.                      *)

Compare(x, y) == IF x > y THEN "Greater" ELSE IF x < y THEN "Less" ELSE "Equal"
Opposite(c) == CASE c = "Greater" -> "Less" [] c = "Less" -> "Greater" [] c = "Equal" -> "Equal"

Lexicographic(e, s, o) ==
  LET n == Len(s)
      cmp[i \in 0..n] ==
        IF i = 0 THEN "Equal"
        ELSE LET c == Compare(s[Digit(e, n, i)], o[Digit(e, n, i)])
             IN  IF c # "Equal" THEN c ELSE cmp[i - 1]
  IN  cmp[n]

(* The signed comparison: when both numbers are negative and their most    *)
(* significant digits agree, the order of the other digits is reversed.    *)
SignedCompare(e, base, s, o) ==
  LET top  == Digit(e, Len(s), Len(s))
      neg(x) == x >= base \div 2
  IN  IF neg(s[top]) # neg(o[top])
      THEN IF neg(s[top]) THEN "Less" ELSE "Greater"
      ELSE IF s[top] # o[top] THEN Compare(s[top], o[top])
      ELSE IF neg(s[top]) THEN Opposite(Lexicographic(e, s, o))
      ELSE Lexicographic(e, s, o)

I384_be_u8_cmp(s, o)  == SignedCompare(BigEndian, ByteBase, s, o)
I384_be_u32_cmp(s, o) == SignedCompare(BigEndian, WordBase, s, o)
I384_le_u8_cmp(s, o)  == SignedCompare(LittleEndian, ByteBase, s, o)
I384_le_u32_cmp(s, o) == SignedCompare(LittleEndian, WordBase, s, o)
U384_le_cmp(s, o) == Lexicographic(LittleEndian, s, o)
trits_cmp(s, o) == Lexicographic(LittleEndian, s, o)

-----------------------------------------------------------------------------
(* u32 digits to u8 digits and back; within a u32 the bytes have the       *)
(* order of the array.                                                     *)

write_u32_into(e, s) ==
  [k \in 1..(WordLen * BytesPerWord) |->
     LET w == ((k - 1) \div BytesPerWord) + 1
         i == Digit(e, BytesPerWord, ((k - 1) % BytesPerWord) + 1)
     IN  (s[w] \div ByteBase ^ (i - 1)) % ByteBase]

read_u32_into(e, b) ==
  [w \in 1..WordLen |->
     LET word[i \in 0..BytesPerWord] ==
           IF i = 0 THEN 0
           ELSE word[i - 1] + ByteBase ^ (i - 1)
                  * b[(w - 1) * BytesPerWord + Digit(e, BytesPerWord, i)]
     IN  word[BytesPerWord]]

-----------------------------------------------------------------------------
(* Ternary integers, least significant trit first: balanced trits -1, 0, 1 *)
(* (Btrit) or unbalanced ones 0, 1, 2 (Utrit).                             *)

filled(n, t) == [i \in 1..n |-> t]
into_shifted_utrit(t) == [i \in DOMAIN t |-> t[i] + 1]
into_shifted_btrit(t) == [i \in DOMAIN t |-> t[i] - 1]
into_t243(t) == Append(t, 0)
into_t242(t) == Front(t)

(* Adds one; TRUE when every trit overflowed.                              *)
increment_inplace(t, lowest, highest) ==
  LET free == {i \in DOMAIN t : t[i] # highest}
      stop == IF free = {} THEN Len(t) + 1 ELSE CHOOSE i \in free : \A k \in free : i <= k
  IN  [overflow |-> free = {},
       trits |-> [i \in DOMAIN t |-> IF i < stop THEN lowest
                                     ELSE IF i = stop THEN t[i] + 1 ELSE t[i]]]

(* Repeated division of the big-endian digits by 3; leading zero digits    *)
(* are dropped from the slice, never the last one.                         *)
T243_from_u384(value) ==
  LET divide(st, k) ==
        LET nonzero == {i \in st.first..WordLen : st.d[i] # 0}
            first == IF nonzero = {} THEN WordLen
                     ELSE CHOOSE i \in nonzero : \A j \in nonzero : i <= j
            rem[i \in (first - 1)..WordLen] ==
              IF i < first THEN 0 ELSE (rem[i - 1] * WordBase + st.d[i]) % 3
        IN  [first |-> first,
             d |-> Array([i \in 1..WordLen |->
                            IF i < first THEN st.d[i]
                            ELSE (rem[i - 1] * WordBase + st.d[i]) \div 3]),
             trits |-> Append(st.trits, rem[WordLen])]
  IN  FoldLeft(divide, [first |-> 1, d |-> value, trits |-> << >>],
               [k \in 1..TritLen |-> k]).trits

T243_from_u384_le(value) == T243_from_u384(toggle_endianness(value))

UTRIT_U384_MAX == T243_from_u384_le(U384_le_u32.max)

TernaryExceedsBinaryRange == [err |-> "TernaryExceedsBinaryRange"]
BinaryExceedsTernaryRange == [err |-> "BinaryExceedsTernaryRange"]
Ok(v) == [err |-> "none", value |-> v]

(* The two halves of a u64.                                                *)
hi(x) == x \div WordBase
lo(x) == x % WordBase

(* Horner's rule on little-endian digits: only the first extent digits are *)
(* multiplied.  A carry is written without a bounds check, so a write      *)
(* behind the array is kept as the flag ub.                                *)
MultiplyAdd(acc, trit) ==
  LET carry[i \in 1..(acc.extent + 1)] ==
        IF i = 1 THEN 0 ELSE hi(acc.inner[i - 1] * 3 + carry[i - 1])
      out    == carry[acc.extent + 1]
      extent == IF out # 0 THEN acc.extent + 1 ELSE acc.extent
      times3 == Array([i \in 1..WordLen |->
                         IF i <= acc.extent THEN lo(acc.inner[i] * 3 + carry[i])
                         ELSE IF i = extent THEN out ELSE acc.inner[i]])
      after(plus) ==
        IF acc.ub \/ extent > WordLen \/ plus.panic THEN [acc EXCEPT !.ub = TRUE]
        ELSE [ub |-> FALSE, inner |-> plus.inner,
              extent |-> IF plus.extent > extent THEN plus.extent ELSE extent]
  IN  after(U384_le_add_digit(times3, trit))

U384_le_try_from_t243(t) ==
  IF trits_cmp(t, UTRIT_U384_MAX) = "Greater" THEN TernaryExceedsBinaryRange
  ELSE LET nonzero == {i \in 1..TritLen : t[i] # 0}
           top == IF nonzero = {} THEN 0 ELSE CHOOSE i \in nonzero : \A j \in nonzero : i >= j
           result(acc) == IF acc.ub THEN [err |-> "undefined"] ELSE Ok(acc.inner)
       IN  result(FoldLeft(MultiplyAdd, [ub |-> FALSE, extent |-> 1, inner |-> filled(WordLen, 0)],
                           Reverse(SubSeq(t, 1, top))))

U384_be_try_from_t243(t) ==
  LET turned(r) == IF r.err # "none" THEN r ELSE Ok(toggle_endianness(r.value))
  IN  turned(U384_le_try_from_t243(t))

U384_le_from_t242(t) == U384_le_try_from_t243(into_t243(t)).value
U384_be_from_t242(t) == toggle_endianness(U384_le_from_t242(t))

LE_U32_1 == U384_le_u32.one
LE_U32_HALF_MAX == U384_le_divide_by_two(U384_le_u32.max)
LE_U32_HALF_MAX_T242 == U384_le_from_t242(filled(TritLen - 1, 1))
LE_U32_NEG_HALF_MAX_T242 == U384_le_sub(U384_le_u32.zero, LE_U32_HALF_MAX_T242)
LE_U32_ONLY_T243_OCCUPIED ==
  U384_le_try_from_t243([i \in 1..TritLen |-> IF i = TritLen THEN 1 ELSE 0]).value
LE_U32_MAX_T242 == U384_le_from_t242(filled(TritLen - 1, 2))
BE_U32_1 == U384_be_u32.one
BE_U32_HALF_MAX == toggle_endianness(LE_U32_HALF_MAX)
BE_U32_HALF_MAX_T242 == toggle_endianness(LE_U32_HALF_MAX_T242)

(* The signed and the unsigned range, moved onto each other by 2^383.      *)
U384_le_shift_into_i384(s) == U384_le_sub(U384_le_sub(s, LE_U32_HALF_MAX), LE_U32_1)
U384_be_shift_into_i384(s) == U384_be_sub(U384_be_sub(s, BE_U32_HALF_MAX), BE_U32_1)
I384_le_shift_into_u384(s) == U384_le_sub(U384_le_sub(s, LE_U32_HALF_MAX), LE_U32_1)
I384_be_shift_into_u384(s) == U384_be_sub(U384_be_sub(s, BE_U32_HALF_MAX), BE_U32_1)

I384_le_from_t242(t) ==
  U384_le_sub(U384_le_try_from_t243(into_t243(into_shifted_utrit(t))).value, LE_U32_HALF_MAX_T242)
I384_be_from_t242(t) ==
  U384_be_sub(U384_be_try_from_t243(into_t243(into_shifted_utrit(t))).value, BE_U32_HALF_MAX_T242)

(* What Kerl absorbs: the big-endian bytes of 242 trits.                   *)
I384_be_u8_from_t242(t) == write_u32_into(BigEndian, I384_be_from_t242(t))

I384_le_try_from_t243(t) ==
  LET shifted(u) == IF u.err # "none" THEN u ELSE Ok(U384_le_shift_into_i384(u.value))
  IN  shifted(U384_le_try_from_t243(into_shifted_utrit(t)))
I384_be_try_from_t243(t) ==
  LET shifted(u) == IF u.err # "none" THEN u ELSE Ok(U384_be_shift_into_i384(u.value))
  IN  shifted(U384_be_try_from_t243(into_shifted_utrit(t)))

T243_from_i384_le(s) == into_shifted_btrit(T243_from_u384_le(I384_le_shift_into_u384(s)))

T242_try_from_i384(s) ==
  LET checked(u) == IF U384_le_cmp(u, LE_U32_MAX_T242) = "Greater" THEN BinaryExceedsTernaryRange
                    ELSE Ok(into_t242(into_shifted_btrit(T243_from_u384_le(u))))
  IN  checked(U384_le_add(s, LE_U32_HALF_MAX_T242))

zero_most_significant_trit(s) ==
  IF I384_le_u32_cmp(s, LE_U32_HALF_MAX_T242) = "Greater"
  THEN I384_le_sub(s, LE_U32_ONLY_T243_OCCUPIED)
  ELSE IF I384_le_u32_cmp(s, LE_U32_NEG_HALF_MAX_T242) = "Less"
  THEN I384_le_add(s, LE_U32_ONLY_T243_OCCUPIED)
  ELSE s

(* What Kerl squeezes: the big-endian bytes of an I384 as 242 trits.       *)
from_i384_ignoring_mst(b) ==
  LET s == read_u32_into(LittleEndian, toggle_endianness(b))
      u == U384_le_add(zero_most_significant_trit(s), LE_U32_HALF_MAX_T242)
  IN  into_t242(into_shifted_btrit(T243_from_u384_le(u)))

(* The other conversions go through the little-endian words.               *)
T242_try_from_be_u8(b) == T242_try_from_i384(read_u32_into(LittleEndian, toggle_endianness(b)))
T242_try_from_be_u32(s) == T242_try_from_i384(toggle_endianness(s))
T242_try_from_le_u8(b) == T242_try_from_i384(read_u32_into(LittleEndian, b))
T242_from_u384(s) == into_t242(T243_from_u384_le(s))
from_u384_ignoring_msd(b) == T242_from_u384(read_u32_into(LittleEndian, toggle_endianness(b)))
T243_from_be_u8(b) == T243_from_i384_le(toggle_endianness(read_u32_into(BigEndian, b)))
T243_from_be_u32(s) == T243_from_i384_le(toggle_endianness(s))

-----------------------------------------------------------------------------
(* What the arrays stand for.                                              *)

Modulus == WordBase ^ WordLen

RECURSIVE Positional(_, _)
Positional(base, s) == IF s = << >> THEN 0 ELSE Head(s) + base * Positional(base, Tail(s))

Unsigned(s) == Positional(WordBase, s)
Signed(s) == IF Unsigned(s) >= Modulus \div 2 THEN Unsigned(s) - Modulus ELSE Unsigned(s)
Ternary(t) == Positional(3, t)

(* Every named constant has the value of its name.                         *)
ConstantsAreRight ==
  LET value == [zero |-> 0, one |-> 1, two |-> 2, neg_one |-> -1, neg_two |-> -2]
      limits(c, lowest, highest, V(_)) ==
        /\ \A f \in DOMAIN c \ {"max", "min"} : V(c[f]) = value[f]
        /\ V(c.max) = highest
        /\ "min" \in DOMAIN c => V(c.min) = lowest
      half == Modulus \div 2
      asSigned(v) == IF v >= half THEN v - Modulus ELSE v
  IN  /\ limits(I384_le_u32, -half, half - 1, Signed)
      /\ limits(I384_be_u32, -half, half - 1, LAMBDA s : Signed(Reverse(s)))
      /\ limits(I384_le_u8, -half, half - 1, LAMBDA s : asSigned(Positional(ByteBase, s)))
      /\ limits(I384_be_u8, -half, half - 1, LAMBDA s : asSigned(Positional(ByteBase, Reverse(s))))
      /\ limits(U384_le_u32, 0, Modulus - 1, Unsigned)
      /\ limits(U384_be_u32, 0, Modulus - 1, LAMBDA s : Unsigned(Reverse(s)))
      /\ limits(U384_le_u8, 0, Modulus - 1, LAMBDA s : Positional(ByteBase, s))
      /\ limits(U384_be_u8, 0, Modulus - 1, LAMBDA s : Positional(ByteBase, Reverse(s)))

(* Add and subtract of all eight copies are integer arithmetic modulo the  *)
(* width, a digit may be added whenever the sum still fits, comparison is  *)
(* the integer order except for signed numbers that share a negative most  *)
(* significant digit; the named constants are what they are named for, in  *)
(* every representation.  Halving, subtracting a digit and the sign are    *)
(* right in the little-endian copies.  Of the big-endian ones this is said *)
(* only for numbers to which it does not matter which end they look at:    *)
(* for the others their documentation is wrong.                            *)
ArithmeticIsExact(a, b) ==
  LET ar == Reverse(a)
      br == Reverse(b)
      bytes(e, s) == write_u32_into(e, s)
      reversed == Signed(a) < 0 /\ a[WordLen] = b[WordLen]
      order == Compare(Signed(a), Signed(b))
      bytesReversed == Signed(a) < 0 /\ a[WordLen] \div ByteBase^(BytesPerWord - 1)
                                        = b[WordLen] \div ByteBase^(BytesPerWord - 1)
      even == \A i \in 1..(WordLen - 1) : a[i] = 0 /\ a[WordLen] % 2 = 0
  IN  /\ ConstantsAreRight
      /\ \A s \in {I384_le_add(a, b), U384_le_add(a, b),
                   Reverse(I384_be_add(ar, br)), Reverse(U384_be_add(ar, br))} :
           Unsigned(s) = (Unsigned(a) + Unsigned(b)) % Modulus
      /\ \A s \in {I384_le_sub(a, b), U384_le_sub(a, b),
                   Reverse(I384_be_sub(ar, br)), Reverse(U384_be_sub(ar, br))} :
           Unsigned(s) = (Unsigned(a) - Unsigned(b)) % Modulus
      /\ LET r == U384_le_add_digit(a, b[1])
         IN  IF Unsigned(a) + b[1] >= Modulus THEN r.panic
             ELSE ~r.panic /\ Unsigned(r.inner) = Unsigned(a) + b[1]
      /\ I384_le_add_digit(a, b[1]) = U384_le_add_digit(a, b[1])
      /\ \A checks \in BOOLEAN :
           LET r == U384_be_add_digit(ar, b[1], checks)
           IN  /\ r = I384_be_add_digit(ar, b[1], checks)
               /\ r.panic = \/ Unsigned(a) + b[1] >= Modulus
                            \/ checks /\ (Unsigned(a) % (Modulus \div WordBase)) + b[1] >= Modulus \div WordBase
               /\ ~r.panic => Unsigned(Reverse(r.inner)) = Unsigned(a) + b[1]
      /\ LET r == I384_le_sub_integer(a, b[1])
         IN  /\ r.panic = (Unsigned(a) < b[1])
             /\ ~r.panic => Unsigned(r.inner) = Unsigned(a) - b[1]
      /\ \A checks \in BOOLEAN :
           b[1] = 0 => I384_be_sub_integer(ar, b[1], checks) = [panic |-> FALSE, inner |-> ar]
      /\ Unsigned(U384_le_divide_by_two(a)) = Unsigned(a) \div 2
      /\ even => Unsigned(Reverse(U384_be_divide_by_two(ar))) = Unsigned(a) \div 2
      /\ I384_le_is_negative(a) = (Signed(a) < 0)
      /\ a = ar => I384_be_is_negative(ar) = (Signed(a) < 0)
      /\ U384_le_cmp(a, b) = Compare(Unsigned(a), Unsigned(b))
      /\ ~reversed => {I384_le_u32_cmp(a, b), I384_be_u32_cmp(ar, br)} = {order}
      /\ ~bytesReversed =>
           {I384_le_u8_cmp(bytes(LittleEndian, a), bytes(LittleEndian, b)),
            I384_be_u8_cmp(bytes(BigEndian, ar), bytes(BigEndian, br))} = {order}

(* Every 242-trit number converts to the binary number of the same value   *)
(* and back; a 243-trit number converts exactly when its unsigned form     *)
(* fits, and then converts back to itself; the unchecked write of a carry  *)
(* stays inside the array; increment_inplace adds one.                     *)
TernaryToBinary(t) ==
  LET u  == into_shifted_utrit(t)
      t2 == into_t242(t)
      whole(u3, i3, be) ==
        /\ IF Ternary(u) < Modulus THEN u3.err = "none" /\ Unsigned(u3.value) = Ternary(u)
           ELSE u3 = TernaryExceedsBinaryRange
        /\ i3.err = u3.err /\ be.err = u3.err
        /\ i3.err = "none" => T243_from_i384_le(i3.value) = t /\ be.value = Reverse(i3.value)
      short(i2) ==
        /\ Signed(i2) = Ternary(t2)
        /\ I384_be_from_t242(t2) = Reverse(i2)
        /\ T242_try_from_i384(i2) = Ok(t2)
      next(up) == Ternary(up.trits) = IF up.overflow THEN -Ternary(t) ELSE Ternary(t) + 1
  IN  /\ whole(U384_le_try_from_t243(u), I384_le_try_from_t243(t), I384_be_try_from_t243(t))
      /\ short(I384_le_from_t242(t2))
      /\ next(increment_inplace(t, -1, 1))

(* A binary number converts to the 242-trit number of the same value when  *)
(* there is one and is refused otherwise; ignoring the most significant    *)
(* trit keeps the value modulo 3^242, except perhaps for the numbers below *)
(* the 242-trit range that share their most significant word with its      *)
(* lower end -(3^242 - 1) / 2: there the comparison misses them.           *)
BinaryToTernary(s) ==
  LET v    == Signed(s)
      max  == (3 ^ (TritLen - 1) - 1) \div 2
      be_u8 == write_u32_into(BigEndian, Reverse(s))
      right(t) == IF v \in (-max)..max THEN t.err = "none" /\ Ternary(t.value) = v
                  ELSE t = BinaryExceedsTernaryRange
      missed == v < -max /\ s[WordLen] = LE_U32_NEG_HALF_MAX_T242[WordLen]
  IN  /\ \A t \in {T242_try_from_i384(s), T242_try_from_be_u32(Reverse(s)), T242_try_from_be_u8(be_u8),
                   T242_try_from_le_u8(write_u32_into(LittleEndian, s))} : right(t)
      /\ {T243_from_be_u32(Reverse(s)), T243_from_be_u8(be_u8)} = {T243_from_i384_le(s)}
      /\ Ternary(from_u384_ignoring_msd(be_u8)) = Unsigned(s) % 3 ^ (TritLen - 1)
      /\ read_u32_into(LittleEndian, write_u32_into(LittleEndian, s)) = s
      /\ read_u32_into(BigEndian, write_u32_into(BigEndian, s)) = s
      /\ ~missed => (Ternary(from_i384_ignoring_mst(be_u8)) - v) % 3 ^ (TritLen - 1) = 0
=============================================================================
