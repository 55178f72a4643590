------------------------------ MODULE Milestone ------------------------------
(***************************************************************************)
(* A Merkle key that signs milestones one after another, and the           *)
(* MilestoneBuilder (bee-protocol/src/milestone) that a node validates     *)
(* them with.  The issuer of milestones is not part of the repository: it  *)
(* is the holder of the MssPrivateKey, putting its signature and its index *)
(* where MilestoneBuilder reads them.                                      *)
(***************************************************************************)
EXTENDS Signing

CONSTANTS Levels,         \* security levels of the one-time keys
          Depths,         \* depths of the tree
          IssuerSeed,     \* seed of the key
          Trunks,         \* what may be signed: transaction hashes, in trytes
          ObsoleteTags,   \* the numbers that obsolete tags may hold
          TagHalf,        \* 2^63: an i64 is at least -TagHalf and below TagHalf
          IndexBits       \* 32: width of a MilestoneIndex

IndexRange == Power(2, IndexBits)

(* The siblings fit into their fragment, the leaves are fewer than the     *)
(* seeds and than the indexes.                                             *)
ASSUME MilestoneAssumption ==
  /\ DepthMax \in Nat /\ DepthMax - 1 <= FragmentLen /\ 2 <= FragmentLen
  /\ Levels \subseteq 1..SECURITY_LEVEL_MAX /\ Depths \subseteq 1..DepthMax
  /\ IssuerSeed \in Seq({-1, 0, 1}) /\ Leaves(DepthMax) <= Power(3, Len(IssuerSeed))
  /\ Trunks \subseteq HashTrytes
  /\ IndexBits \in Nat /\ DepthMax - 1 <= IndexBits
  /\ TagHalf \in Nat /\ IndexRange <= TagHalf /\ ObsoleteTags \subseteq Int

VARIABLES level, depth, key, index, issued, panicked

milestoneVars == <<level, depth, key, index, issued, panicked>>

MilestoneInit ==
  /\ level \in Levels
  /\ depth \in Depths
  /\ key = mss_generate(level, depth, IssuerSeed)
  /\ index = 0
  /\ issued = << >>
  /\ panicked = FALSE

-----------------------------------------------------------------------------
(* The bundle: one transaction per signature fragment.  Only the fields    *)
(* MilestoneBuilder looks at.                                              *)
MilestoneBundle(signature, tag, hash) ==
  [t \in 1..(Len(signature) \div FragmentLen) |->
     [payload |-> Fragment(signature, t), address |-> mss_generate_public_key(key),
      obsolete_tag |-> tag, trunk |-> hash]]

(* The obsolete tag of the tail as an i64, cut to a MilestoneIndex.        *)
FitsI64(tag) == -TagHalf <= tag /\ tag < TagHalf
TagToIndex(tag) == tag % IndexRange

(* The payloads one after another.                                         *)
SignatureBuf(transactions) ==
  [i \in 1..(Len(transactions) * FragmentLen) |-> transactions[FragmentOf(i)].payload[PlaceIn(i)]]

(* The key is the address of the bundle itself; what is signed is the      *)
(* trunk of the last transaction but one.                                  *)
validate_signatures(transactions, d, i) ==
  LET n == Len(transactions)
  IN  IF n < 2 THEN "panic"
      ELSE IF mss_verify(transactions[1].address, d,
                         normalize_hash(transactions[n - 1].trunk), SignatureBuf(transactions), i)
      THEN "none" ELSE "InvalidSignature"

milestone_validate(transactions, d) ==
  LET tag == transactions[1].obsolete_tag
  IN  IF transactions = << >> THEN [err |-> "Empty"]
      ELSE IF ~FitsI64(tag) THEN [err |-> "InvalidIndex"]
      ELSE [err |-> validate_signatures(transactions, d, TagToIndex(tag)), index |-> TagToIndex(tag)]

milestone_build(validated) == validated.index

-----------------------------------------------------------------------------
(* MssPrivateKey::sign takes the next one-time key; there is an index      *)
(* panic when all of them are used.                                        *)
SignedWith(hash, leaf) ==
  [hash |-> hash, leaf |-> leaf, signature |-> mss_sign(key, leaf, normalize_hash(hash))]

issue(hash) ==
  /\ ~panicked
  /\ index < Leaves(depth)
  /\ issued' = Append(issued, SignedWith(hash, index))
  /\ index' = index + 1
  /\ UNCHANGED <<level, depth, key, panicked>>

issue_exhausted ==
  /\ ~panicked
  /\ index >= Leaves(depth)
  /\ panicked' = TRUE
  /\ UNCHANGED <<level, depth, key, index, issued>>

MilestoneNext == (\E h \in Trunks : issue(h)) \/ issue_exhausted

MilestoneSpec == MilestoneInit /\ [][MilestoneNext]_milestoneVars

-----------------------------------------------------------------------------
SignedPart(hash) == SubSeq(normalize_hash(hash), 1, level * FragmentLen)

ValidatesAsSigned(it) ==
  \A tag \in ObsoleteTags, hash \in Trunks :
    LET r == milestone_validate(MilestoneBundle(it.signature, tag, hash), depth)
    IN  IF ~FitsI64(tag) THEN r.err = "InvalidIndex"
        ELSE IF SignedPart(hash) = SignedPart(it.hash) /\ tag % Leaves(depth) = it.leaf
        THEN r.err = "none" /\ milestone_build(r) = tag % IndexRange
        ELSE r.err = "InvalidSignature"

RefusedSwapped(it) ==
  LET b == MilestoneBundle(it.signature, it.leaf, it.hash)
      swapped == [b EXCEPT ![1] = b[2], ![2] = b[1]]
  IN  milestone_validate(swapped, depth).err = "InvalidSignature"

SumsToZero(hash) ==
  \A f \in 1..SECURITY_LEVEL_MAX : SumTrytes(Fragment(normalize_hash(hash), f)) = 0

(* A milestone validates exactly with the hash it was signed for and its   *)
(* own index: of the hash the fragments under the security level count, of *)
(* the index the bits under the depth.  It does not validate with its      *)
(* first two fragments exchanged, no one-time key signs twice, and every   *)
(* fragment of a normalized hash sums to zero.  Stated of the milestone    *)
(* signed last; the others were last in an earlier state (mss.rs: sign,    *)
(* verify; normalize.rs; milestone/builder.rs: validate).                  *)
SignedMilestonesVerify ==
  issued # << >> =>
    LET it == issued[Len(issued)]
    IN  /\ ValidatesAsSigned(it)
        /\ RefusedSwapped(it)
        /\ \A k \in 1..(Len(issued) - 1) : key.keys[issued[k].leaf + 1] # key.keys[it.leaf + 1]
        /\ SumsToZero(it.hash)

-----------------------------------------------------------------------------
(* The inductive form: what is issued was signed with the key, each with   *)
(* the leaf after the one before.                                          *)
MilestoneInv ==
  /\ level \in Levels
  /\ depth \in Depths
  /\ key = mss_generate(level, depth, IssuerSeed)
  /\ index \in 0..Leaves(depth)
  /\ issued \in Seq({SignedWith(hash, leaf) : hash \in Trunks, leaf \in 0..(Leaves(depth) - 1)})
  /\ Len(issued) = index
  /\ \A k \in 1..index : issued[k].leaf = k - 1
=============================================================================
