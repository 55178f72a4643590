---------------------------- MODULE TinyHashCache ----------------------------
(***************************************************************************)
(* The cache of the TransactionWorker (bee-protocol): the digests of the   *)
(* last transactions, to drop the ones that arrive again.                  *)
(***************************************************************************)
EXTENDS Integers, Sequences, FiniteSets

CONSTANTS Bytes,        \* the transactions that arrive
          xx_hash,      \* xx_hash[b]: the 64 bit digest; two may collide
          Capacities,   \* values of max_capacity under test
          MaxAccepted   \* bound: transactions let through

ASSUME CacheAssumption == Capacities \subseteq Nat

VARIABLES max_capacity, cache, elem_order,
          accepted,     \* history: the digests let through, in order
          cachePanic    \* the unwrap of pop_front has panicked

cacheVars == <<max_capacity, cache, elem_order, accepted, cachePanic>>

CacheInit ==
  /\ max_capacity \in Capacities
  /\ cache = {}
  /\ elem_order = << >>
  /\ accepted = << >>
  /\ cachePanic = FALSE

contains(hash) == hash \in cache

Insert(hash, set, order) ==
  /\ cache' = set \union {hash}
  /\ elem_order' = Append(order, hash)
  /\ accepted' = Append(accepted, hash)
  /\ UNCHANGED <<max_capacity, cachePanic>>

(* A mutant: the digest leaves the queue but not the set.                  *)
pop_only_the_order(bytes) ==
  LET hash == xx_hash[bytes]
      full == Cardinality(cache) >= max_capacity
  IN  /\ ~contains(hash)
      /\ full => elem_order # << >>
      /\ Insert(hash, cache, IF full THEN Tail(elem_order) ELSE elem_order)

(* insert that returns true; one that returns false changes nothing.       *)
cache_insert(bytes) ==
  LET hash == xx_hash[bytes]
      full == Cardinality(cache) >= max_capacity
  IN  /\ ~contains(hash)
      /\ full => elem_order # << >>
      /\ Insert(hash, IF full THEN cache \ {Head(elem_order)} ELSE cache,
                IF full THEN Tail(elem_order) ELSE elem_order)

cache_insert_panics(bytes) ==
  /\ ~contains(xx_hash[bytes])
  /\ Cardinality(cache) >= max_capacity
  /\ elem_order = << >>
  /\ cachePanic' = TRUE
  /\ UNCHANGED <<max_capacity, cache, elem_order, accepted>>

CacheNext ==
  /\ ~cachePanic
  /\ \E b \in Bytes : \/ Len(accepted) < MaxAccepted /\ cache_insert(b)
                      \/ cache_insert_panics(b)

CacheSpec == CacheInit /\ [][CacheNext]_cacheVars

-----------------------------------------------------------------------------
(* The cache holds exactly the last max_capacity digests let through, each *)
(* once and in that order, so a transaction comes through again only after *)
(* max_capacity others; with room for none the first insertion panics, and *)
(* no other does (TinyHashCache::insert).                                  *)
FilterForgetsInOrder ==
  LET n == Len(accepted)
      kept == IF n <= max_capacity THEN n ELSE max_capacity
  IN  /\ elem_order = SubSeq(accepted, n - kept + 1, n)
      /\ cache = {elem_order[i] : i \in DOMAIN elem_order}
      /\ \A i, j \in 1..n : i < j /\ accepted[i] = accepted[j] => j - i > max_capacity
      /\ cachePanic => max_capacity = 0
      /\ max_capacity = 0 => n = 0

(* The inductive form, place by place.                                     *)
Digests == {xx_hash[b] : b \in Bytes}
Kept == IF Len(accepted) <= max_capacity THEN Len(accepted) ELSE max_capacity

CacheTypeOK ==
  /\ max_capacity \in Nat
  /\ cache \subseteq Digests
  /\ elem_order \in Seq(Digests)
  /\ accepted \in Seq(Digests)
  /\ cachePanic \in BOOLEAN

CacheInv ==
  /\ CacheTypeOK
  /\ IsFiniteSet(cache) /\ Cardinality(cache) = Kept
  /\ Len(elem_order) = Kept
  /\ \A i \in 1..Kept : elem_order[i] = accepted[Len(accepted) - Kept + i]
  /\ cache = {elem_order[i] : i \in 1..Kept}
  /\ \A i, j \in 1..Len(accepted) : i < j /\ accepted[i] = accepted[j] => j - i > max_capacity
  /\ cachePanic => max_capacity = 0
  /\ max_capacity = 0 => Len(accepted) = 0
=============================================================================
