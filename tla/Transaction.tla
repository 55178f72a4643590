----------------------------- MODULE Transaction -----------------------------
(***************************************************************************)
(* bee-bundle/src/transaction: the fields of a transaction, their place in *)
(* the trits of a transaction, the builder, and the two conversions; with  *)
(* the bytes a transaction travels as (bee-protocol: compression.rs and    *)
(* the workers that encode and decode them).  A u64 or usize is a number   *)
(* below 2^IntBits, an i64 the same number as signed.                      *)
(***************************************************************************)
EXTENDS Trits

CONSTANTS PAYLOAD_TRIT_LEN, ADDRESS_TRIT_LEN, VALUE_TRIT_LEN, TAG_TRIT_LEN,
          TIMESTAMP_TRIT_LEN, INDEX_TRIT_LEN, HASH_TRIT_LEN, NONCE_TRIT_LEN,
          IOTA_SUPPLY

(* The fields in the order of their offsets, each with its length.         *)
Layout ==
  << <<"payload", PAYLOAD_TRIT_LEN>>, <<"address", ADDRESS_TRIT_LEN>>, <<"value", VALUE_TRIT_LEN>>,
     <<"obsolete_tag", TAG_TRIT_LEN>>, <<"timestamp", TIMESTAMP_TRIT_LEN>>, <<"index", INDEX_TRIT_LEN>>,
     <<"last_index", INDEX_TRIT_LEN>>, <<"bundle", HASH_TRIT_LEN>>, <<"trunk", HASH_TRIT_LEN>>,
     <<"branch", HASH_TRIT_LEN>>, <<"tag", TAG_TRIT_LEN>>, <<"attachment_ts", TIMESTAMP_TRIT_LEN>>,
     <<"attachment_lbts", TIMESTAMP_TRIT_LEN>>, <<"attachment_ubts", TIMESTAMP_TRIT_LEN>>,
     <<"nonce", NONCE_TRIT_LEN>> >>

Fields == {Layout[k][1] : k \in DOMAIN Layout}
Place(f) == CHOOSE k \in DOMAIN Layout : Layout[k][1] = f

(* offsets_from_previous_field.                                            *)
length(f) == Layout[Place(f)][2]
start(f) ==
  LET at[k \in DOMAIN Layout] == IF k = 1 THEN 0 ELSE at[k - 1] + Layout[k - 1][2]
  IN  at[Place(f)]

TRANSACTION_TRIT_LEN == start("nonce") + NONCE_TRIT_LEN
TRANSACTION_BYTE_LEN == (TRANSACTION_TRIT_LEN \div 5) + 1

is_trits_type(f) ==
  f \notin {"value", "timestamp", "index", "last_index",
            "attachment_ts", "attachment_lbts", "attachment_ubts"}

as_unsigned(n) == n % 2 ^ IntBits
as_i64(n) == WrapI64(n)
zeros(n) == [i \in 1..n |-> 0]

-----------------------------------------------------------------------------
(* The builder: a function on the fields that are Some.                    *)
new == << >>
with(builder, f, v) == (f :> v) @@ builder

(* abs of i64::MIN panics where overflow is checked (debug builds) and is  *)
(* i64::MIN where it is not.                                               *)
abs(v) == IF v < 0 THEN WrapI64(-v) ELSE v

build(builder, overflowChecks) ==
  LET v == builder["value"]
  IN  IF ~({"value", "address"} \subseteq DOMAIN builder) THEN Err("MissingField")
      ELSE IF v = I64Min /\ overflowChecks THEN Err("panic")
      ELSE IF abs(v) > IOTA_SUPPLY THEN Err("InvalidValue")
      ELSE IF v # 0 /\ builder["address"][ADDRESS_TRIT_LEN] # 0 THEN Err("InvalidAddress")
      ELSE IF DOMAIN builder # Fields THEN Err("MissingField")
      ELSE Ok(builder)

(* What copy_from and copy_raw_bytes write; behind the end is a panic.     *)
CopyTo(buf, at, ts) ==
  Array([i \in DOMAIN buf |-> IF i > at /\ i <= at + Len(ts) THEN ts[i - at] ELSE buf[i]])

(* A number is written with as many trits as it needs, which may be more   *)
(* than the field has: the rest is left to the following field.            *)
FieldTrits(transaction, f) ==
  IF is_trits_type(f) THEN transaction[f] ELSE from_i64(as_i64(transaction[f]))

EssenceFields == <<"address", "value", "obsolete_tag", "timestamp", "index", "last_index">>

essence(builder) ==
  LET base == start("address")
  IN  FoldLeft(LAMBDA buf, f : CopyTo(buf, start(f) - base, FieldTrits(builder, f)),
               zeros(start("bundle") - base), EssenceFields)

-----------------------------------------------------------------------------
FieldOf(trits, f) == SubSeq(trits, start(f) + 1, start(f) + length(f))

(* The numeric fields are read in this order; the first that does not fit  *)
(* an i64 is an error.                                                     *)
from_trits(trits, overflowChecks) ==
  LET number(f) == try_from_trits(FieldOf(trits, f))
      parse(r, k) ==
        LET f == Layout[k][1]
        IN  IF r.err # "none" THEN r
            ELSE IF is_trits_type(f) THEN Ok(with(r.value, f, FieldOf(trits, f)))
            ELSE IF number(f).err # "none" THEN Err("InvalidNumericField")
            ELSE Ok(with(r.value, f, IF f = "value" THEN number(f).value ELSE as_unsigned(number(f).value)))
      parsed == FoldLeft(parse, Ok(new), [k \in DOMAIN Layout |-> k])
  IN  IF parsed.err # "none" THEN parsed ELSE build(parsed.value, overflowChecks)

WriteOrder ==
  <<"payload", "address", "obsolete_tag", "bundle", "branch", "trunk", "tag", "nonce",
    "value", "index", "last_index", "timestamp", "attachment_ts", "attachment_lbts",
    "attachment_ubts">>

into_trits_allocated(transaction) ==
  FoldLeft(LAMBDA buf, f : CopyTo(buf, start(f), FieldTrits(transaction, f)),
           zeros(TRANSACTION_TRIT_LEN), WriteOrder)

is_tail(transaction) == transaction["index"] = 0
is_head(transaction) == transaction["index"] = transaction["last_index"]

get_timestamp(transaction) ==
  IF transaction["attachment_ts"] = 0 THEN transaction["timestamp"]
  ELSE transaction["attachment_ts"] \div 1000

-----------------------------------------------------------------------------
(* The wire.  The payload is not a whole number of bytes: its last byte    *)
(* holds the first trits of the address and is never trimmed.              *)
MAX_PAYLOAD_SIZE == PAYLOAD_TRIT_LEN \div 5
NON_PAYLOAD_SIZE == TRANSACTION_BYTE_LEN - MAX_PAYLOAD_SIZE

(* Mutant: the loop starts one byte too late.                              *)
compress_one_too_many(bs) ==
  LET used == {i \in 1..(MAX_PAYLOAD_SIZE + 1) : bs[i] # 0}
      size == IF used = {} THEN 0 ELSE CHOOSE i \in used : \A j \in used : i >= j
  IN  SubSeq(bs, 1, size) \o SubSeq(bs, MAX_PAYLOAD_SIZE + 2, Len(bs))

compress_transaction_bytes(bs) ==
  LET used == {i \in 1..MAX_PAYLOAD_SIZE : bs[i] # 0}
      size == IF used = {} THEN 0 ELSE CHOOSE i \in used : \A j \in used : i >= j
  IN  SubSeq(bs, 1, size) \o SubSeq(bs, MAX_PAYLOAD_SIZE + 1, Len(bs))

uncompress_transaction_bytes(bs) ==
  LET size == Len(bs) - NON_PAYLOAD_SIZE
  IN  SubSeq(bs, 1, size) \o zeros(MAX_PAYLOAD_SIZE - size) \o SubSeq(bs, size + 1, Len(bs))

(* TransactionResponderWorker and MilestoneResponderWorker: T5B1 bytes.    *)
Outgoing(transaction) ==
  compress_transaction_bytes(encode(5, into_trits_allocated(transaction)).bytes)

(* TransactionWorker: try_from_raw refuses a byte that is not five trits.  *)
Incoming(bs, overflowChecks) ==
  LET raw == uncompress_transaction_bytes(bs)
      n   == Len(raw) * 5 - 1
  IN  IF \E i \in DOMAIN raw : ~is_valid(5, raw[i]) THEN Err("InvalidRepr")
      ELSE from_trits(encode(1, Trits(5, raw, make(5, 0, 0, n))).bytes, overflowChecks)

-----------------------------------------------------------------------------
Fits(n) == as_i64(n) \in (-BAL(TIMESTAMP_TRIT_LEN))..BAL(TIMESTAMP_TRIT_LEN)

(* What is accepted from the network is written back trit for trit, alone  *)
(* and over the wire, and its essence is the part of those trits between   *)
(* payload and bundle hash: the hash a peer computes is the sender's.  Its *)
(* value is within the supply, except for i64::MIN where overflow is not   *)
(* checked.  A transaction of the builder comes back as it was unless a    *)
(* timestamp is too long for its field.                                    *)
TransactionRoundTrips(trits, overflowChecks) ==
  LET r == from_trits(trits, overflowChecks)
      tx == r.value
      value == Value(FieldOf(trits, "value"))
      built(f, n) == Ok(with(tx, f, as_unsigned(n)))
  IN  IF r.err # "none"
      THEN \/ value \notin (-IOTA_SUPPLY)..IOTA_SUPPLY
           \/ value # 0 /\ FieldOf(trits, "address")[ADDRESS_TRIT_LEN] # 0
      ELSE /\ into_trits_allocated(tx) = trits
           /\ Incoming(Outgoing(tx), overflowChecks) = r
           /\ essence(tx) = SubSeq(trits, start("address") + 1, start("bundle"))
           /\ value \in (-IOTA_SUPPLY)..IOTA_SUPPLY \/ (value = I64Min /\ ~overflowChecks)
           /\ is_tail(tx) = (FieldOf(trits, "index") = zeros(INDEX_TRIT_LEN))
           /\ is_head(tx) = (FieldOf(trits, "index") = FieldOf(trits, "last_index"))
           /\ get_timestamp(with(tx, "attachment_ts", 0)) = tx["timestamp"]
           /\ \A f \in {"timestamp", "attachment_ts", "attachment_lbts", "attachment_ubts"},
                 n \in {BAL(TIMESTAMP_TRIT_LEN), BAL(TIMESTAMP_TRIT_LEN) + 1, I64Max, I64Min, -1} :
                (Incoming(Outgoing(built(f, n).value), overflowChecks) = built(f, n)) = Fits(n)
=============================================================================
