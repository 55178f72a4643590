-------------------------------- MODULE Bundle --------------------------------
(***************************************************************************)
(* bee-bundle/src/bundle: the outgoing bundle builder with its stages raw, *)
(* sealed, signed and attached, the bundle it builds, and the incoming     *)
(* builder's validation.  A transaction builder is a function on the       *)
(* fields that are set; "branch" stands for all the fields only build and  *)
(* validate look at.  A stage is consumed by its step: an error or a panic *)
(* is final.                                                               *)
(***************************************************************************)
EXTENDS Signing, FiniteSets

CONSTANTS Pushes,        \* the transaction builders that may be pushed
          Inputs,        \* what sign may be called with: sequences of <<index, level>>
          BundleSeed,    \* the seed the inputs' addresses come from
          Addresses, Timestamps,
          TagLen,        \* 27 trytes: trits of a tag
          TagCount,      \* tags there are
          I64Half,       \* 2^63: a value is at least -I64Half and below I64Half
          IOTA_SUPPLY,
          MaxPush,       \* bound: transactions of a bundle
          SpongeStates, EmptySponge,
          AbsorbEssence(_, _), \* the sponge after one more essence
          SqueezeHash(_)       \* the hash it gives, in trytes

Values == (-I64Half)..(I64Half - 1)
Tags == [1..TagLen -> {-1, 0, 1}]
Essence == Addresses \X Values \X Tags \X Timestamps \X (0..(MaxPush - 1)) \X (0..(MaxPush - 1))

(* The supply is far from what an i64 holds; the sponge of the bundle hash *)
(* takes any essence and gives trytes.                                     *)
ASSUME BundleAssumption ==
  /\ I64Half \in Nat /\ IOTA_SUPPLY \in Nat /\ 2 * IOTA_SUPPLY < I64Half
  /\ TagLen \in Nat /\ TagCount \in Nat /\ TagCount = 3 ^ TagLen
  /\ MaxPush \in Nat
  /\ \A b \in Pushes : /\ "value" \in DOMAIN b => b["value"] \in Values
                       /\ "address" \in DOMAIN b => b["address"] \in Addresses
                       /\ "obsolete_tag" \in DOMAIN b => b["obsolete_tag"] \in Tags
                       /\ "timestamp" \in DOMAIN b => b["timestamp"] \in Timestamps
  /\ \A ins \in Inputs : ins \in Seq(Nat \X (1..SECURITY_LEVEL_MAX))
  /\ EmptySponge \in SpongeStates
  /\ \A s \in SpongeStates : SqueezeHash(s) \in HashTrytes /\ \A e \in Essence : AbsorbEssence(s, e) \in SpongeStates

VARIABLES checked,   \* the build panics on overflow, or wraps
          stage, builders, failure,
          inputs     \* the arguments of the calls of sign

bundleVars == <<checked, stage, builders, failure, inputs>>

I64Min == -I64Half
WrapI64(n) == ((n + I64Half) % (2 * I64Half)) - I64Half
abs(n) == IF n < 0 THEN WrapI64(-n) ELSE n

With(b, field, x) == [f \in DOMAIN b \union {field} |-> IF f = field THEN x ELSE b[f]]

BundleInit ==
  /\ checked \in BOOLEAN
  /\ stage = "raw"
  /\ builders = << >>
  /\ failure = "none"
  /\ inputs = << >>

Fail(e) ==
  /\ stage' = "failed"
  /\ failure' = e
  /\ UNCHANGED <<checked, builders, inputs>>

push(builder) ==
  /\ stage = "raw"
  /\ Len(builders) < MaxPush
  /\ builders' = Append(builders, builder)
  /\ UNCHANGED <<checked, stage, failure, inputs>>

-----------------------------------------------------------------------------
(* The running sum of seal and of validate: it must stay within the supply *)
(* after every transaction.                                                *)
AddValue(r, v, checks) ==
  LET sum == WrapI64(r.sum + v)
  IN  IF r.err # "none" THEN r
      ELSE IF checks /\ (sum # r.sum + v \/ sum = I64Min) THEN [err |-> "panic", sum |-> 0]
      ELSE IF abs(sum) > IOTA_SUPPLY THEN [err |-> "InvalidValue", sum |-> 0]
      ELSE [err |-> "none", sum |-> sum]

RunningSum(values, n, checks) ==
  LET r[k \in 0..n] ==
        IF k = 0 THEN [err |-> "none", sum |-> 0] ELSE AddValue(r[k - 1], values[k], checks)
  IN  r

ValuesOf(bs) == [i \in DOMAIN bs |-> bs[i]["value"]]

essence(b) == <<b["address"], b["value"], b["obsolete_tag"], b["timestamp"], b["index"], b["last_index"]>>
Essences(bs) == [i \in DOMAIN bs |-> essence(bs[i])]

Absorbed(es) ==
  LET sponge[k \in 0..Len(es)] == IF k = 0 THEN EmptySponge ELSE AbsorbEssence(sponge[k - 1], es[k])
  IN  sponge
Squeezed(es) == SqueezeHash(Absorbed(es)[Len(es)])

has_m_bug(hash) == \E i \in DOMAIN hash : normalize_hash(hash)[i] = MaxTryte

Tagged(bs, tag) == [bs EXCEPT ![1] = With(@, "obsolete_tag", tag)]
Hashed(bs, hash) == [i \in DOMAIN bs |-> With(bs[i], "bundle", hash)]

(* The first transaction's obsolete tag is incremented, around its whole   *)
(* range, until the hash has no M; if no tag will do the loop never ends.  *)
calculate_bundle_hash(bs) ==
  IF "obsolete_tag" \notin DOMAIN bs[1] THEN [err |-> "MissingTransactionBuilderField"]
  ELSE IF \E i \in DOMAIN bs : ~({"obsolete_tag", "timestamp"} \subseteq DOMAIN bs[i])
  THEN [err |-> "panic"]
  ELSE LET tag == Incremented(bs[1]["obsolete_tag"], TagCount)
           hash(k) == Squeezed(Essences(Tagged(bs, tag[k])))
           good == {k \in 0..(TagCount - 1) : ~has_m_bug(hash(k))}
       IN  IF good = {} THEN [err |-> "diverges"]
           ELSE [err |-> "none", builders |-> Hashed(Tagged(bs, tag[Min(good)]), hash(Min(good)))]

Indexed(bs) ==
  [i \in DOMAIN bs |-> With(With(bs[i], "index", i - 1), "last_index", Len(bs) - 1)]

(* Mutant: the hash is that of the bundle with its first obsolete tag.     *)
SealFirstHash(bs) ==
  LET r == calculate_bundle_hash(Indexed(bs))
  IN  IF r.err # "none" THEN r
      ELSE [r EXCEPT !.builders = Hashed(r.builders, Squeezed(Essences(Indexed(bs))))]

Seal(bs) == calculate_bundle_hash(Indexed(bs))

Incomplete(bs) ==
  {i \in DOMAIN bs : ~({"payload", "address", "value", "tag"} \subseteq DOMAIN bs[i])}

(* The fields and the sum are looked at transaction by transaction.        *)
seal ==
  /\ stage = "raw"
  /\ LET bad == Incomplete(builders)
         upto == IF bad = {} THEN Len(builders) ELSE Min(bad) - 1
         sum == RunningSum([i \in 1..upto |-> builders[i]["value"]], upto, checked)[upto]
         sealed == Seal(builders)
     IN  IF builders = << >> THEN Fail(IF checked THEN "panic" ELSE "Empty")
         ELSE IF sum.err # "none" THEN Fail(sum.err)
         ELSE IF bad # {} THEN Fail("MissingTransactionBuilderField")
         ELSE IF sum.sum # 0 THEN Fail("InvalidValue")
         ELSE IF sealed.err # "none" THEN Fail(sealed.err)
         ELSE /\ stage' = "sealed"
              /\ builders' = sealed.builders
              /\ UNCHANGED <<checked, failure, inputs>>

-----------------------------------------------------------------------------
has_no_input(bs) == \A i \in DOMAIN bs : bs[i]["value"] >= 0

(* attach_local and attach_remote: the given trunk and branch are dropped. *)
attach ==
  /\ stage \in {"sealed", "signed"}
  /\ IF stage = "sealed" /\ ~has_no_input(builders) THEN Fail("UnsignedInput")
     ELSE stage' = "attached" /\ UNCHANGED <<checked, builders, failure, inputs>>

(* The first transaction with a negative value; the first one of all when  *)
(* there is none.                                                          *)
FirstInput(bs) ==
  LET negative == {i \in DOMAIN bs : bs[i]["value"] < 0}
  IN  IF negative = {} THEN 1 ELSE Min(negative)

(* One fragment per security level of each input: how many the first j     *)
(* inputs have, and the fragments of all, one after another.               *)
FragmentsBefore(ins, j) == SumTo([k \in DOMAIN ins |-> ins[k][2]], j)

SignatureOf(input, message) == wots_sign(wots_generate(input[2], BundleSeed, input[1]), message)

Fragments(message, ins) ==
  LET before == [j \in 0..Len(ins) |-> FragmentsBefore(ins, j)]
      owner(p) == CHOOSE j \in DOMAIN ins : before[j - 1] < p /\ p <= before[j]
  IN  [p \in 1..before[Len(ins)] |->
         Fragment(SignatureOf(ins[owner(p)], message), p - before[owner(p) - 1])]

(* The fragments go to consecutive transactions.                           *)
WithPayloads(bs, first, fs) ==
  [i \in DOMAIN bs |-> IF i \in first..(first + Len(fs) - 1)
                       THEN With(bs[i], "payload", fs[i - first + 1]) ELSE bs[i]]

(* The addresses of the inputs are not compared with the transactions';    *)
(* too many of them are a panic.                                           *)
sign(ins) ==
  /\ stage = "sealed"
  /\ LET fs == Fragments(normalize_hash(builders[1]["bundle"]), ins)
         first == FirstInput(builders)
     IN  IF first + Len(fs) - 1 > Len(builders) THEN Fail("panic")
         ELSE /\ builders' = WithPayloads(builders, first, fs)
              /\ stage' = "signed"
              /\ inputs' = <<ins>>
              /\ UNCHANGED <<checked, failure>>

(* Every address Kerl squeezes ends in a zero trit.                        *)
EndsInZero(address) == "digest" \in DOMAIN address

(* TransactionBuilder::build for each of them.                             *)
BuildError(b, checks) ==
  IF b["value"] = I64Min /\ checks THEN "panic"
  ELSE IF abs(b["value"]) > IOTA_SUPPLY THEN "InvalidValue"
  ELSE IF b["value"] # 0 /\ ~EndsInZero(b["address"]) THEN "InvalidAddress"
  ELSE IF "branch" \notin DOMAIN b THEN "MissingField" ELSE "none"

build ==
  /\ stage = "attached"
  /\ LET bad == {i \in DOMAIN builders : BuildError(builders[i], checked) # "none"}
     IN  IF bad # {} THEN Fail(BuildError(builders[Min(bad)], checked))
         ELSE stage' = "built" /\ UNCHANGED <<checked, builders, failure, inputs>>

BundleNext ==
  \/ \E b \in Pushes : push(b)
  \/ seal
  \/ attach
  \/ \E ins \in Inputs : sign(ins)
  \/ build

BundleSpec == BundleInit /\ [][BundleNext]_bundleVars

-----------------------------------------------------------------------------
(* Bundle.                                                                 *)
SpentOrReceived(bundle, a) ==
  [i \in DOMAIN bundle |-> IF bundle[i]["address"] = a THEN bundle[i]["value"] ELSE 0]

ledger_diff(bundle) ==
  LET moved == {i \in DOMAIN bundle : bundle[i]["value"] # 0}
  IN  [a \in {bundle[i]["address"] : i \in moved} |-> SumTrytes(SpentOrReceived(bundle, a))]

(* The incoming builder.  calculate_hash absorbs nothing yet, and          *)
(* validate_signatures looks at an empty signature under an empty key.     *)
incoming_calculate_hash(transactions) == Squeezed(<< >>)
incoming_validate_signatures(transactions) == wots_verify([key |-> << >>], << >>, << >>)

IncomingError(transactions, i, checks) ==
  LET n == Len(transactions)
      sum == RunningSum(ValuesOf(transactions), n, checks)[i]
  IN  IF transactions[i]["index"] # i - 1 THEN "InvalidIndex"
      ELSE IF transactions[i]["last_index"] # n - 1 THEN "InvalidLastIndex"
      ELSE IF sum.err # "none" THEN sum.err
      ELSE IF i = 1 /\ incoming_calculate_hash(transactions) # transactions[1]["bundle"]
      THEN "InvalidBundleHash"
      ELSE IF transactions[i]["branch"] # transactions[1]["branch"] THEN "InvalidBranchInconsistency"
      ELSE "none"

incoming_validate(transactions, checks) ==
  LET n == Len(transactions)
      bad == {i \in 1..n : IncomingError(transactions, i, checks) # "none"}
  IN  IF n = 0 THEN "Empty"
      ELSE IF bad # {} THEN IncomingError(transactions, Min(bad), checks)
      ELSE IF RunningSum(ValuesOf(transactions), n, checks)[n].sum # 0 THEN "InvalidValue"
      ELSE IF ~incoming_validate_signatures(transactions) THEN "InvalidSignature" ELSE "none"

-----------------------------------------------------------------------------
PublicKeyOf(input) == wots_generate_public_key(wots_generate(input[2], BundleSeed, input[1]))

(* Where the fragments of the j-th input of sign went, and the signature   *)
(* they make.                                                              *)
Position(bs, ins, j) == FirstInput(bs) + FragmentsBefore(ins, j - 1)
SignatureAt(bs, at, level) ==
  [k \in 1..(level * FragmentLen) |-> bs[at + FragmentOf(k) - 1]["payload"][PlaceIn(k)]]

Linked(bs) ==
  \A i \in DOMAIN bs : /\ bs[i]["index"] = i - 1
                       /\ bs[i]["last_index"] = Len(bs) - 1
                       /\ bs[i]["bundle"] = bs[1]["bundle"]

HashIsOfEssences(bs) == bs[1]["bundle"] = Squeezed(Essences(bs)) /\ ~has_m_bug(bs[1]["bundle"])

Balanced(bs) ==
  /\ SumTrytes(ValuesOf(bs)) = 0
  /\ LET diff == ledger_diff(bs)
         n == Cardinality(DOMAIN diff)
     IN  \A order \in Bijection(1..n, DOMAIN diff) : SumTo([k \in 1..n |-> diff[order[k]]], n) = 0

Verifies(bs, ins, j) ==
  LET at == Position(bs, ins, j)
  IN  wots_verify(bs[at]["address"], normalize_hash(bs[1]["bundle"]), SignatureAt(bs, at, ins[j][2]))

Refusals(bs) ==
  {"InvalidBundleHash", "InvalidSignature"}
    \union (IF \E i \in DOMAIN bs : bs[i]["branch"] # bs[1]["branch"]
            THEN {"InvalidBranchInconsistency"} ELSE {})

(* What comes out of the builder: consecutive indexes; one hash, without   *)
(* M, of the essences as they ended up; no value created or destroyed (but *)
(* for i64::MIN twice where overflow wraps); a signature that verifies     *)
(* against the address at its place exactly when the input given to sign   *)
(* is the one of that address; and no input without a call of sign.  The   *)
(* incoming builder refuses it, at the hash or at the latest at the        *)
(* signatures, which are stubs (outgoing_bundle_builder.rs: seal, sign,    *)
(* build; incoming_bundle_builder.rs: validate; bundle.rs: ledger_diff).   *)
BuiltBundlesAreSound ==
  stage = "built" =>
    /\ Linked(builders)
    /\ HashIsOfEssences(builders)
    /\ Balanced(builders) \/ (~checked /\ \E i \in DOMAIN builders : builders[i]["value"] = I64Min)
    /\ IF inputs = << >> THEN has_no_input(builders)
       ELSE \A j \in DOMAIN inputs[1] :
              Verifies(builders, inputs[1], j)
                = (builders[Position(builders, inputs[1], j)]["address"] = PublicKeyOf(inputs[1][j]))
    /\ incoming_validate(builders, checked) \in Refusals(builders)

-----------------------------------------------------------------------------
(* The inductive form: what each stage hands to the next.                  *)
EssenceFields == {"address", "value", "obsolete_tag", "timestamp", "index", "last_index"}

SealedBundle(bs, checks) ==
  /\ DOMAIN bs = 1..Len(bs) /\ Len(bs) \in 1..MaxPush
  /\ \A i \in DOMAIN bs : /\ EssenceFields \union {"bundle"} \subseteq DOMAIN bs[i]
                          /\ essence(bs[i]) \in Essence
  /\ Linked(bs)
  /\ HashIsOfEssences(bs)
  /\ RunningSum(ValuesOf(bs), Len(bs), checks)[Len(bs)] = [err |-> "none", sum |-> 0]

SignedBundle(bs, ins) ==
  LET message == normalize_hash(bs[1]["bundle"])
  IN  \A j \in DOMAIN ins : \A f \in 1..ins[j][2] :
        LET at == Position(bs, ins, j) + f - 1
        IN  /\ at \in DOMAIN bs
            /\ bs[at]["payload"] = Fragment(SignatureOf(ins[j], message), f)

BundleInv ==
  /\ checked \in BOOLEAN
  /\ stage = "raw" => builders \in Seq(Pushes) /\ Len(builders) <= MaxPush
  /\ stage \in {"raw", "sealed"} => inputs = << >>
  /\ stage \in {"sealed", "signed", "attached", "built"} => SealedBundle(builders, checked)
  /\ stage \in {"signed", "attached", "built"} =>
       IF inputs = << >> THEN has_no_input(builders)
       ELSE \E ins \in Inputs : inputs = <<ins>> /\ SignedBundle(builders, ins)
  /\ stage = "built" => \A i \in DOMAIN builders : BuildError(builders[i], checked) = "none"
=============================================================================
