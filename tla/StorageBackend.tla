--------------------------- MODULE StorageBackend ---------------------------
(***************************************************************************)
(* The data of trait StorageBackend (bee-storage/src/storage.rs).          *)
(***************************************************************************)
EXTENDS Integers, FiniteSets

CONSTANTS Hashes,   \* the hashes of transactions and of milestones
          Tx,       \* Tx[h]: the transaction whose hash is h
          Indexes,  \* the milestone indexes
          Deltas    \* the balance changes of a milestone

ASSUME BackendAssumption ==
  /\ IsFiniteSet(Hashes) /\ Indexes \subseteq Nat
  /\ \A h \in Hashes : Tx[h].value \in Int /\ Tx[h].index \in Nat /\ Tx[h].timestamp \in Nat

\* The pairs <<approvee, approver>> that a transaction contributes to HashesToApprovers.
AttachmentData(hash, trunk, branch) == {<<trunk, hash>>, <<branch, hash>>}
=============================================================================
