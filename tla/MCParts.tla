------------------------------- MODULE MCParts -------------------------------
(***************************************************************************)
(* Small instances of the components that do not run together: each        *)
(* behaviour is one of one part, chosen in the initial state.  The         *)
(* variables of the part are kept in x1, x2, ...; a part without state     *)
(* takes one input and stops.  RequestQueue, PearlSearch, TinyHashCache,   *)
(* Ledger, Storage, Framing, Milestone and Bundle, which have theorems,    *)
(* keep their own variables.                                               *)
(***************************************************************************)
EXTENDS RequestQueue, PearlSearch, TinyHashCache, Ledger, Storage, Framing, Milestone, Bundle

VARIABLES part, x1, x2, x3, x4, x5

parts == <<part, x1, x2, x3, x4, x5>>

(* The parts that have variables of their own.                             *)
own == <<searchVars, requestVars, cacheVars, ledgerVars, storageVars, framingVars, milestoneVars, bundleVars>>

Off == << >>
Trit == {-1, 0, 1}

-----------------------------------------------------------------------------
(* bee-ternary: integers of 3 words of 2 bytes of 1 bit beside 4 trits,    *)
(* for all pairs; conversions with 6 trits, to 8 and to 8 bits.            *)
Big == INSTANCE BigInt WITH ByteBase <- 2, BytesPerWord <- 2, WordLen <- 3, TritLen <- 4
Wide == INSTANCE BigInt WITH ByteBase <- 2, BytesPerWord <- 2, WordLen <- 4, TritLen <- 6
Bytes4 == INSTANCE BigInt WITH ByteBase <- 4, BytesPerWord <- 2, WordLen <- 2, TritLen <- 6

BigIntInput ==
  \/ part = "arithmetic" /\ x1 = Off /\ x1' \in Big!Words \X Big!Words
  \/ part = "to binary" /\ x1 = Off /\ x1' \in [1..6 -> Trit]
  \/ part = "to ternary" /\ x1 = Off /\ x1' \in Bytes4!Words

(* bee-ternary: buffers of each encoding, up to one trit more than a byte  *)
(* holds; an i64 of 6 bits.                                                *)
Buf == INSTANCE TritBuf WITH
  Encodings <- 1..5, Beyond <- 1, IntBits <- 6, tpb <- x1, bytes <- x2, len <- x3, trits <- x4

(* bee-protocol, bee-signing: one-time keys of one or two fragments of two *)
(* trytes in -2..2, trees of depth 1 to 3; indexes of 3 bits, tags on both *)
(* sides of what an i64 holds; two hashes that differ in the second        *)
(* fragment only, two whose normalized forms are the same.                 *)
MilestoneLevels == {1, 2}
MilestoneDepths == 1..3
MilestoneSeed == <<0, 1>>
MilestoneTags == (-3)..12 \union {-13, -12}
MilestoneTrunks == {<<2, 1, 0, -1>>, <<2, 1, 1, 1>>, <<0, -2, 1, 0>>, <<1, 1, 1, 1>>}

-----------------------------------------------------------------------------
(* bee-bundle: transactions of 30 trits; values on both sides of the       *)
(* supply and of an i64 of 6 bits, payloads with zeros in either half.     *)
Trans == INSTANCE Transaction WITH
  IntBits <- 6, PAYLOAD_TRIT_LEN <- 11, ADDRESS_TRIT_LEN <- 2, VALUE_TRIT_LEN <- 5,
  TAG_TRIT_LEN <- 1, TIMESTAMP_TRIT_LEN <- 2, INDEX_TRIT_LEN <- 1, HASH_TRIT_LEN <- 2,
  NONCE_TRIT_LEN <- 3, IOTA_SUPPLY <- 3

BaseTrits == [i \in 1..Trans!TRANSACTION_TRIT_LEN |-> (((i * i) \div 3) % 3) - 1]
WithField(f, ts, b) == Trans!CopyTo(b, Trans!start(f), ts)
ValueTrits == {v \in [1..5 -> Trit] : Trans!Value(v) \in {-121, -33, -32, -31, -4, -3, -1, 0, 1, 3, 4, 31, 32, 121}}

TransactionTrits ==
  LET zeroValue == WithField("value", Trans!zeros(5), BaseTrits)
  IN  UNION {
        {WithField("value", v, WithField("address", a, BaseTrits)) :
           v \in ValueTrits, a \in {<<1, 0>>, <<0, -1>>}},
        {WithField("timestamp", t, WithField("index", i, zeroValue)) :
           t \in {<<1, 1>>, <<0, 0>>, <<0, -1>>}, i \in [1..1 -> Trit]},
        {WithField("payload", [k \in 1..11 |-> IF k = i THEN t ELSE IF k = 10 THEN last ELSE 0],
                   WithField("address", <<z, 0>>, zeroValue)) :
           i \in {1, 5, 6, 11}, t \in Trit, last \in {0, 1}, z \in {-1, 0}}}

(* bee-bundle: outgoing bundles of up to three transactions, a supply of   *)
(* 1, an i64 of 3 bits; addresses of both security levels, one of nobody;  *)
(* builders that lack a field; signing inputs right, wrong and missing.    *)
(* The sponge is a number that the essences move.                          *)
OwnSeed == <<0, 1>>
First == wots_generate_public_key(wots_generate(1, OwnSeed, 0))
Second == wots_generate_public_key(wots_generate(2, OwnSeed, 1))
Nobody == [last |-> 1]
BundleAddresses == {First, Second, Nobody}
BundleTimestamps == {0}
Fields(value, address) ==
  [value |-> value, address |-> address, payload |-> << >>, tag |-> 0, obsolete_tag |-> <<1, 0>>,
   timestamp |-> 0, branch |-> 0]
Without(f) == LET all7 == Fields(0, First) IN [g \in DOMAIN all7 \ {f} |-> all7[g]]
BundlePushes ==
  {Fields(p[1], p[2]) : p \in {<<-1, First>>, <<-1, Second>>, <<0, Second>>, <<1, First>>, <<1, Nobody>>,
                               <<2, Second>>, <<-4, First>>, <<3, First>>, <<0, Nobody>>}}
    \union {Without(f) : f \in {"tag", "obsolete_tag", "timestamp", "branch"}}
    \union {[Fields(0, First) EXCEPT !.branch = 1]}
BundleInputs == {<< >>, << <<0, 1>> >>, << <<1, 2>> >>, << <<0, 1>>, <<1, 2>> >>, << <<1, 2>>, <<0, 1>> >>}
BundleSponge == 0..19
BundleAbsorb(s, e) == (s + (e[5] + 1) * (3 * e[2] + e[3][1] + 3 * e[3][2] + e[5] + 2)) % 20
BundleSqueeze(s) == [i \in 1..4 |-> ((s * i + i * i + (s \div 4)) % 5) - 2]

-----------------------------------------------------------------------------
(* bee-crypto: hashes of 3 trits, 4 bytes of 1 bit; messages of one and    *)
(* two blocks and one of no whole block; two calls.                        *)
Keccak(bs) ==
  LET w == FoldLeft(LAMBDA a, b : (a * 7 + b[1] + 2 * b[2] + 4 * b[3] + 8 * b[4] + 5) % 1024, 3, bs)
  IN  [k \in 1..4 |-> ((w * w + w) \div (2 ^ k)) % 2]

Sp == INSTANCE Sponge WITH
  ByteBase <- 2, BytesPerWord <- 2, WordLen <- 2, TritLen <- 3, RoundNumbers <- 1..3,
  Messages <- {<<1, 0, -1>>, <<-1, -1>>, <<1, 1, 1, 0, -1, 0>>}, Lengths <- {3, 4, 6}, MaxCalls <- 2,
  rounds <- x1, curl <- x2, kerl <- x3, out <- x4, calls <- x5

(* bee-pow: a state of 15 trits, batches of three nonces; a search by two  *)
(* threads of two batches each.                                            *)
SearchCores == {1, 2}

Pd == INSTANCE PearlDiver WITH
  HASH_LEN <- 5, NONCE_LEN <- 4, LaneTrits <- 1, OuterTrits <- 1, NUM_ROUNDS <- 3, BATCH_SIZE <- 3,
  NUM_FULL_CHUNKS_FOR_PRESTATE <- 1, difficulty <- 2

-----------------------------------------------------------------------------
(* bee-storage: two transactions that approve each other and a missing     *)
(* one; an index of one and a timestamp of the other do not fit an i32.    *)
StorageHashes == {"a", "b"}
StorageTx == [h \in StorageHashes |->
  IF h = "a" THEN [value |-> 3, index |-> 1, timestamp |-> 5, trunk |-> "b", branch |-> "c"]
             ELSE [value |-> -2, index |-> 8, timestamp |-> 2, trunk |-> "c", branch |-> "a"]]
StorageIndexes == {1, 2}
StorageDeltas == {"d"}

(* bee-protocol: bytes of 4 bits, a clock of two of them; streams with     *)
(* handshakes that are right, early, late, wrong or repeated, and messages *)
(* of every type, with payloads at and beyond their limits.                *)
Hb == [type |-> "Heartbeat", solid |-> 6, snapshot |-> 1]
TrRequest == [type |-> "TransactionRequest", hash |-> <<2>>]
TrBroadcast(n) == [type |-> "TransactionBroadcast", transaction |-> [k \in 1..n |-> 1]]
MsRequest == [type |-> "MilestoneRequest", index |-> 7]
Gossip == [type |-> "LegacyGossip", transaction |-> <<3>>, hash |-> <<1>>]
Hs(time, versions) ==
  [type |-> "Handshake", port |-> 1, timestamp |-> time, coordinator |-> <<3>>, mwm |-> 2, versions |-> versions]

FramingCoordinator == <<3>>
FramingStreams == {
  <<Hs(19, <<2>>), Hb, TrRequest, TrBroadcast(2), TrBroadcast(3), Gossip, MsRequest>>,
  <<Hb, Hs(22, <<6>>), TrRequest>>,
  <<[Hs(22, <<6>>) EXCEPT !.port = 3], TrRequest, [Hs(22, <<6>>) EXCEPT !.mwm = 1], Hs(20, <<2>>)>>,
  <<Hs(20, <<5>>), Hs(18, <<3, 1>>), Hb, Hb>>,
  <<Hs(20, <<2>>), Hs(20, <<2>>), MsRequest>>,
  <<Hs(148, <<2>>), MsRequest>>,
  <<Hs(20, <<1, 4, 1, 8>>)>>,
  <<Hs(17, <<2>>), Hs(20, << >>), TrBroadcast(0), Hs(21, <<2>>), TrBroadcast(1)>>}

-----------------------------------------------------------------------------
(* bee-protocol: three requests, two of the same priority.                 *)
RequestEntry == 1..3
RequestIndex == <<1, 2, 2>>

(* bee-protocol: five transactions, two with the same digest.              *)
CacheBytes == 1..5
CacheDigests == <<10, 20, 30, 40, 10>>
CacheCapacities == 0..3

(* bee-ledger: two addresses, balances of 3 bits, diffs that move funds,   *)
(* create or destroy them, known and unknown addresses.                    *)
LedgerAddress == {"a", "b"}
LedgerAccounts == <<"a", "b">>
LedgerDiffs == {[a |-> -2, b |-> 2], [a |-> -3], [a |-> 1, b |-> -1], [a |-> 3]}
LedgerStates == {<< >>, [a |-> 2], [a |-> 2, b |-> 1]}

-----------------------------------------------------------------------------
PartInit ==
  \/ /\ part \in {"arithmetic", "to binary", "to ternary", "transaction", "bit slices", "search", "cache", "requests", "ledger", "storage", "framing", "milestone", "bundle"}
     /\ x1 = Off /\ x2 = Off /\ x3 = Off /\ x4 = Off /\ x5 = Off
  \/ part = "buffer" /\ Buf!Init /\ x5 = Off
  \/ part = "sponge" /\ Sp!Init

Init ==
  /\ PartInit
  /\ SearchInit
  /\ RequestInit
  /\ CacheInit
  /\ part # "cache" => max_capacity = 0
  /\ LedgerInit
  /\ part # "ledger" => state = << >> /\ ~overflowChecks
  /\ StorageInit
  /\ FramingInit
  /\ MilestoneInit
  /\ part # "milestone" => level = 1 /\ depth = 1
  /\ BundleInit
  /\ part # "bundle" => ~checked
  /\ part # "framing" =>
       ~debugBuild /\ origin = "Inbound" /\ registered = "no" /\ sent = CHOOSE stream \in Streams : TRUE

Same6 == UNCHANGED <<part, own>>
Same5 == UNCHANGED x5 /\ Same6

Next ==
  \/ BigIntInput /\ UNCHANGED <<x2, x3, x4>> /\ Same5
  \/ part = "transaction" /\ x1 = Off /\ x1' \in TransactionTrits /\ x2' \in BOOLEAN /\ UNCHANGED <<x3, x4>> /\ Same5
  \/ part = "bit slices" /\ x1 = Off /\ x1' \in [1..6 -> Trit] /\ UNCHANGED <<x2, x3, x4>> /\ Same5
  \/ part = "buffer" /\ Buf!Next /\ Same5
  \/ part = "sponge" /\ Sp!Next /\ Same6
  \/ part = "search" /\ SearchNext /\ UNCHANGED <<parts, requestVars, cacheVars, ledgerVars, storageVars, framingVars, milestoneVars, bundleVars>>
  \/ part = "requests" /\ RequestNext /\ UNCHANGED <<parts, searchVars, cacheVars, ledgerVars, storageVars, framingVars, milestoneVars, bundleVars>>
  \/ part = "cache" /\ CacheNext /\ UNCHANGED <<parts, searchVars, requestVars, ledgerVars, storageVars, framingVars, milestoneVars, bundleVars>>
  \/ part = "ledger" /\ LedgerNext /\ UNCHANGED <<parts, searchVars, requestVars, cacheVars, storageVars, framingVars, milestoneVars, bundleVars>>
  \/ part = "framing" /\ FramingNext /\ UNCHANGED <<parts, searchVars, requestVars, cacheVars, ledgerVars, storageVars, milestoneVars, bundleVars>>
  \/ part = "storage" /\ StorageNext /\ UNCHANGED <<parts, searchVars, requestVars, cacheVars, ledgerVars, framingVars, milestoneVars, bundleVars>>
  \/ part = "bundle" /\ BundleNext /\ UNCHANGED <<parts, searchVars, requestVars, cacheVars, ledgerVars, storageVars, framingVars, milestoneVars>>
  \/ part = "milestone" /\ MilestoneNext /\ UNCHANGED <<parts, searchVars, requestVars, cacheVars, ledgerVars, storageVars, framingVars, bundleVars>>

Spec == Init /\ [][Next]_<<parts, own>>

-----------------------------------------------------------------------------
(* The digit loops of U384 and I384 compute sums, differences, products    *)
(* with a digit, halves and comparisons of the numbers they stand for, and *)
(* conversions from trits to binary and back give the number or the error  *)
(* its range asks for (bee-ternary/src/bigint).                            *)
BigIntsAgree ==
  /\ part = "arithmetic" /\ x1 # Off => Big!ArithmeticIsExact(x1[1], x1[2])
  /\ part = "to binary" /\ x1 # Off => Wide!TernaryToBinary(x1)
  /\ part = "to ternary" /\ x1 # Off => Bytes4!BinaryToTernary(x1)

(* A packed trit buffer holds what was pushed, popped and set, through any *)
(* slice and encoding, and as an integer, tryte or serialized sequence it  *)
(* keeps its value (bee-ternary/src/lib.rs, t1b1.rs to t5b1.rs,            *)
(* num_conversions.rs, serde.rs).                                          *)
BuffersReadBack == part = "buffer" => Buf!PackedReadsBack /\ Buf!NumbersAgree

(* Trits that make a transaction give the same trits back, whole and       *)
(* compressed; the others are refused for the right reason                 *)
(* (bee-bundle/src/transaction, message/compression.rs).                   *)
TransactionRoundTrips == part = "transaction" /\ x1 # Off => Trans!TransactionRoundTrips(x1, x2)

(* CurlP and Kerl give what their definitions give, whatever calls came    *)
(* before (bee-crypto/src/sponge).                                         *)
SpongesAgree == part = "sponge" => Sp!SpongesAgree

(* The bit-sliced transform of a prestate gives in every slot the hash     *)
(* trits that Curl gives on that slot's trits (pearldiver.rs).             *)
BitSlicesAgree == part = "bit slices" /\ x1 # Off => Pd!BitSlicesAgree(x1)
=============================================================================
