--------------------------- MODULE RocksDbStorage ---------------------------
(***************************************************************************)
(* The RocksDB back end (bee-storage/src/rocksdb/mod.rs): seven column     *)
(* families, each a set of key-value pairs.  A write reaches the memtable  *)
(* (mem); it also reaches what a restart finds (disk) when it goes through *)
(* the write-ahead log, and otherwise only once the family is flushed.     *)
(* The code writes some families with the log and some without it.  The    *)
(* keys and values are hashes and transactions, whose T5B1 coding is the   *)
(* subject of modules TritBuf and Transaction.                             *)
(***************************************************************************)
EXTENDS StorageBackend, Naturals

VARIABLES mem, disk

rocksVars == <<mem, disk>>

ColumnFamilies == {"transaction", "solid", "snapshot", "aprovees", "hash_to_index", "index_to_hash", "delta"}

\* An absent key has no value: the answer is the empty set.
get_cf(cf, key) == {p[2] : p \in {q \in mem[cf] : q[1] = key}}

Over(old, new) == {p \in old : \A q \in new : q[1] # p[1]} \cup new

Put(db, cf, pairs) == [db EXCEPT ![cf] = Over(@, pairs)]

Delete(db, cf, keys) == [db EXCEPT ![cf] = {p \in @ : p[1] \notin keys}]

establish_connection ==
  /\ mem = [cf \in ColumnFamilies |-> {}]
  /\ disk = mem

(***************************************************************************)
(* The engine, external: a family is flushed when its memtable is full,    *)
(* and a process that dies comes back with what is on disk.  The flush of  *)
(* destroy_connection is of the default family, which holds nothing.       *)
(***************************************************************************)
Flush(cf) ==
  /\ disk[cf] # mem[cf]
  /\ disk' = [disk EXCEPT ![cf] = mem[cf]]
  /\ UNCHANGED mem

Crash == mem' = disk /\ UNCHANGED disk

(***************************************************************************)
(* Transactions                                                            *)
(***************************************************************************)
Approvees(h) == <<h, <<Tx[h].trunk, Tx[h].branch>>>>

\* The transaction goes through the log, its approvees do not.
rocks_insert_transaction(h) ==
  /\ mem' = Put(Put(mem, "transaction", {<<h, Tx[h]>>}), "aprovees", {Approvees(h)})
  /\ disk' = Put(disk, "transaction", {<<h, Tx[h]>>})

\* The process dies between the two puts of insert_transaction.
rocks_insert_transaction_cut(h) ==
  /\ disk' = Put(disk, "transaction", {<<h, Tx[h]>>})
  /\ mem' = disk'

\* A mutant: the batch leaves the approvees out.
batch_without_approvees(hs) ==
  /\ mem' = Put(mem, "transaction", {<<h, Tx[h]>> : h \in hs})
  /\ UNCHANGED disk

\* One batch over both families, without the log.
rocks_insert_transactions(hs) ==
  /\ mem' = Put(Put(mem, "transaction", {<<h, Tx[h]>> : h \in hs}), "aprovees", {Approvees(h) : h \in hs})
  /\ UNCHANGED disk

rocks_find_transaction(h) == get_cf("transaction", h)

rocks_set_solid(hs) ==
  /\ mem' = Put(mem, "solid", {<<h, TRUE>> : h \in hs})
  /\ UNCHANGED disk

rocks_set_snapshot_index(hs, index) ==
  /\ mem' = Put(mem, "snapshot", {<<h, index>> : h \in hs})
  /\ UNCHANGED disk

rocks_solid_state(hs) == [k \in DOMAIN hs |-> get_cf("solid", hs[k]) # {}]

rocks_snapshot_index(hs) ==
  [k \in DOMAIN hs |-> LET found == get_cf("snapshot", hs[k])
                       IN  IF found = {} THEN 0 ELSE CHOOSE i \in found : TRUE]

\* The other families keep what they hold of a deleted transaction.
rocks_delete_transactions(hs) ==
  /\ mem' = Delete(mem, "transaction", hs)
  /\ UNCHANGED disk

\* The pairs <<approvee, approver>> of the approvees family.
rocks_approvers ==
  UNION {AttachmentData(p[1], p[2][1], p[2][2]) : p \in mem["aprovees"]}

rocks_map_missing(all_hashes) == {p \in rocks_approvers : p[1] \notin all_hashes}

(***************************************************************************)
(* Milestones and state deltas                                             *)
(***************************************************************************)
\* Two puts, both through the log.
rocks_insert_milestone(h, index) ==
  LET Both(db) == Put(Put(db, "hash_to_index", {<<h, index>>}), "index_to_hash", {<<index, h>>})
  IN  mem' = Both(mem) /\ disk' = Both(disk)

\* The process dies between the two puts of insert_milestone.
rocks_insert_milestone_cut(h, index) ==
  /\ disk' = Put(disk, "hash_to_index", {<<h, index>>})
  /\ mem' = disk'

rocks_find_milestone(h) == get_cf("hash_to_index", h)

rocks_delete_milestones(hs) ==
  /\ mem' = Delete(mem, "hash_to_index", hs)
  /\ UNCHANGED disk

rocks_insert_state_delta(delta, index) ==
  /\ mem' = Put(mem, "delta", {<<index, delta>>})
  /\ disk' = Put(disk, "delta", {<<index, delta>>})

\* The empty answer is where the unwrap of load_state_delta panics.
rocks_load_state_delta(index) == get_cf("delta", index)
=============================================================================
