------------------------------- MODULE Signing -------------------------------
(***************************************************************************)
(* bee-signing: seeds and subseeds, the normalization of a hash, one-time  *)
(* signatures (WOTS), and Merkle signatures over them (MSS).  A hash is a  *)
(* term: what was absorbed, wrapped once per squeeze, so two hashes are    *)
(* equal exactly when the same data went into them.  A signature or a key  *)
(* is a sequence of hashes (243 trits each), a message a sequence of       *)
(* trytes.                                                                 *)
(***************************************************************************)
EXTENDS Integers, Sequences, SequencesExt, FiniteSetsExt

CONSTANTS MaxTryte,             \* 13
          FragmentLen,          \* 27: hashes in a signature fragment of 6561 trits
          SECURITY_LEVEL_MAX,   \* 3: fragments of a normalized hash
          DepthMax              \* 20: the largest depth the generator accepts

ASSUME SigningAssumption ==
  MaxTryte \in Nat /\ FragmentLen \in Nat \ {0} /\ SECURITY_LEVEL_MAX \in Nat \ {0}

Tryte == (-MaxTryte)..MaxTryte
HashTrytes == [1..(SECURITY_LEVEL_MAX * FragmentLen) -> Tryte]

(* The sponge of S: digest_into and absorb, squeeze, reset.                *)
digest(data) == [digest |-> data]
ZeroHash == [zero |-> << >>]

(* The sums of the first 0, 1, 2, ..., n elements.                         *)
SumsTo(t, n) ==
  LET sum[k \in 0..n] == IF k = 0 THEN 0 ELSE sum[k - 1] + t[k]
  IN  sum
SumTo(t, n) == SumsTo(t, n)[n]
SumTrytes(t) == SumTo(t, Len(t))

-----------------------------------------------------------------------------
(* Each fragment is moved to sum zero, one unit at a time, by the first    *)
(* tryte that can still move.                                              *)
Magnitude(n) == IF n < 0 THEN -n ELSE n

Moved(f, step) ==
  LET free == {j \in DOMAIN f : IF step < 0 THEN f[j] > -MaxTryte ELSE f[j] < MaxTryte}
  IN  IF free = {} THEN f ELSE [f EXCEPT ![Min(free)] = @ + step]

Moves(t, step, n) ==
  LET moved[k \in 0..n] == IF k = 0 THEN t ELSE Moved(moved[k - 1], step)
  IN  moved

NormalizeFragment(t) ==
  LET sum == SumTrytes(t)
  IN  Moves(t, IF sum > 0 THEN -1 ELSE 1, Magnitude(sum))[Magnitude(sum)]

(* Fragment f of a hash or of a signature.                                 *)
Fragment(s, f) == SubSeq(s, (f - 1) * FragmentLen + 1, f * FragmentLen)
FragmentOf(i) == ((i - 1) \div FragmentLen) + 1
PlaceIn(i) == ((i - 1) % FragmentLen) + 1

normalize_hash(hash) ==
  LET fragments == [f \in 1..SECURITY_LEVEL_MAX |-> NormalizeFragment(Fragment(hash, f))]
  IN  [i \in 1..(SECURITY_LEVEL_MAX * FragmentLen) |-> fragments[FragmentOf(i)][PlaceIn(i)]]

-----------------------------------------------------------------------------
(* A seed is a sequence of balanced trits; subseed adds one index times.   *)
InvalidLength(n) == [err |-> "InvalidLength", len |-> n]
from_buf(n, buf) == IF Len(buf) # n THEN InvalidLength(Len(buf)) ELSE [err |-> "none", seed |-> buf]

checked_increment(trit) == IF trit = 1 THEN "None" ELSE "Some"

Increment(trits) ==
  LET free == {i \in DOMAIN trits : checked_increment(trits[i]) = "Some"}
      stop == IF free = {} THEN Len(trits) + 1 ELSE Min(free)
  IN  [i \in DOMAIN trits |-> IF i < stop THEN -1 ELSE IF i = stop THEN trits[i] + 1 ELSE trits[i]]

Incremented(trits, n) ==
  LET after[k \in 0..n] == IF k = 0 THEN trits ELSE Increment(after[k - 1])
  IN  after

subseed(seed, index) == digest(Incremented(seed, index)[index])

-----------------------------------------------------------------------------
(* WOTS.  generate squeezes FragmentLen hashes per security level from the *)
(* subseed.                                                                *)
wots_builder_build(level) ==
  IF level = 0 THEN [err |-> "MissingSecurityLevel"] ELSE [err |-> "none", level |-> level]

wots_generate(level, seed, index) ==
  [i \in 1..(level * FragmentLen) |-> digest(<<subseed(seed, index), [squeeze |-> i]>>)]

Rehashes(chunk, times) ==
  LET rehashed[k \in 0..times] == IF k = 0 THEN chunk ELSE digest(<<rehashed[k - 1]>>)
  IN  rehashed
Rehash(chunk, times) == Rehashes(chunk, times)[times]

(* One digest per fragment, then one digest of those.                      *)
AddressOf(chunks) ==
  digest([f \in 1..(Len(chunks) \div FragmentLen) |-> digest(Fragment(chunks, f))])

wots_generate_public_key(key) == AddressOf([i \in DOMAIN key |-> Rehash(key[i], 2 * MaxTryte)])

(* Chunk i of the key is hashed 13 - m[i] times; a message shorter than    *)
(* the key is an index panic.                                              *)
wots_sign(key, message) == [i \in DOMAIN key |-> Rehash(key[i], MaxTryte - message[i])]

wots_recover_public_key(signature, message) ==
  AddressOf([i \in DOMAIN signature |-> Rehash(signature[i], message[i] + MaxTryte)])

wots_verify(public_key, message, signature) ==
  wots_recover_public_key(signature, message) = public_key

-----------------------------------------------------------------------------
(* MSS.  The tree is kept as an array: the children of node n are 2n + 1   *)
(* and 2n + 2, the leaves are the public keys of the one-time keys.        *)
mss_builder_build(depth, generator) ==
  IF depth = "None" THEN [err |-> "MissingDepth"]
  ELSE IF ~(depth \in 0..DepthMax) THEN [err |-> "InvalidDepth"]
  ELSE IF generator = "None" THEN [err |-> "MissingGenerator"]
  ELSE [err |-> "none", depth |-> depth]

(* 1 << n, and what shifting n to the right leaves.                        *)
Powers(base, n) ==
  LET power[k \in 0..n] == IF k = 0 THEN 1 ELSE base * power[k - 1]
  IN  power
Power(base, n) == Powers(base, n)[n]

Halvings(n, k) ==
  LET half[i \in 0..k] == IF i = 0 THEN n ELSE half[i - 1] \div 2
  IN  half
IndexBit(n, i) == Halvings(n, i)[i] % 2

Leaves(depth) == Power(2, depth - 1)

TreeOf(level, depth, seed) ==
  LET leaves == Leaves(depth)
      tree[n \in 0..(2 * leaves - 2)] ==
        IF n >= leaves - 1 THEN wots_generate_public_key(wots_generate(level, seed, n - leaves + 1))
        ELSE digest(<<tree[2 * n + 1], tree[2 * n + 2]>>)
  IN  tree

mss_generate(level, depth, seed) ==
  [depth |-> depth, tree |-> TreeOf(level, depth, seed),
   keys |-> [k \in 1..Leaves(depth) |-> wots_generate(level, seed, k - 1)]]

mss_generate_public_key(key) == key.tree[0]

(* The nodes from a leaf to the root, and the hashes beside the path,      *)
(* lowest first.                                                           *)
Parent(n) == IF n % 2 # 0 THEN n \div 2 ELSE (n - 1) \div 2
Beside(n) == IF n % 2 # 0 THEN n + 1 ELSE n - 1

PathFrom(n, length) ==
  LET node[i \in 0..length] == IF i = 0 THEN n ELSE Parent(node[i - 1])
  IN  node

Siblings(key, leaf) ==
  LET path == PathFrom(Leaves(key.depth) + leaf - 1, key.depth - 1)
  IN  [i \in 1..(key.depth - 1) |-> key.tree[Beside(path[i - 1])]]

(* A one-time signature followed by one fragment that holds the siblings.  *)
mss_sign(key, leaf, message) ==
  LET signature == wots_sign(key.keys[leaf + 1], message)
      siblings  == Siblings(key, leaf)
      size      == Len(signature)
  IN  [i \in 1..(size + FragmentLen) |->
         IF i <= size THEN signature[i]
         ELSE IF i - size <= key.depth - 1 THEN siblings[i - size] ELSE ZeroHash]

(* From the leaf up: bit i of the index says on which side the hash is.    *)
Climb(leaf, siblings, index, height) ==
  LET hash[i \in 0..height] ==
        IF i = 0 THEN leaf
        ELSE IF IndexBit(index, i - 1) # 0 THEN digest(<<siblings[i], hash[i - 1]>>)
        ELSE digest(<<hash[i - 1], siblings[i]>>)
  IN  hash

(* The number of chunks before the last fragment.                          *)
OtsSize(state) == ((Len(state) \div FragmentLen) - 1) * FragmentLen

(* Mutant: every sibling is taken for a right one.                         *)
mss_verify_one_sided(public_key, depth, message, state, index) ==
  LET split == OtsSize(state)
      leaf  == wots_recover_public_key([i \in 1..split |-> state[i]], message)
  IN  Climb(leaf, [i \in 1..FragmentLen |-> state[split + i]], 0, depth - 1)[depth - 1] = public_key

(* Only depth - 1 siblings and as many bits of the index are looked at.    *)
mss_verify(public_key, depth, message, state, index) ==
  LET split == OtsSize(state)
      leaf  == wots_recover_public_key([i \in 1..split |-> state[i]], message)
  IN  Climb(leaf, [i \in 1..FragmentLen |-> state[split + i]], index, depth - 1)[depth - 1] = public_key
=============================================================================
