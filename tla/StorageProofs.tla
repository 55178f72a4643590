---------------------------- MODULE StorageProofs ----------------------------
(***************************************************************************)
(* StorageInv is inductive, for any transactions, indexes and deltas, any  *)
(* page size and column widths, and any number of calls, flushes and       *)
(* crashes; BackendsAgree follows from it.                                 *)
(***************************************************************************)
EXTENDS Storage, DataLemmas, FiniteSetTheorems, TLAPS

(* The writes of the RocksDB side to one family of a database.             *)
LEMMA PutIs ==
  ASSUME NEW db, IsDatabase(db), NEW cf \in ColumnFamilies, NEW pairs
  PROVE  /\ IsDatabase(Put(db, cf, pairs))
         /\ Put(db, cf, pairs)[cf] = Over(db[cf], pairs)
         /\ \A g \in ColumnFamilies : g # cf => Put(db, cf, pairs)[g] = db[g]
BY DEF IsDatabase, Put

LEMMA DeleteIs ==
  ASSUME NEW db, IsDatabase(db), NEW cf \in ColumnFamilies, NEW keys
  PROVE  /\ IsDatabase(Delete(db, cf, keys))
         /\ Delete(db, cf, keys)[cf] = {p \in db[cf] : p[1] \notin keys}
         /\ \A g \in ColumnFamilies : g # cf => Delete(db, cf, keys)[g] = db[g]
BY DEF IsDatabase, Delete

(* A put keeps the other keys.                                             *)
LEMMA OverKeys ==
  ASSUME NEW old, NEW new
  PROVE  /\ Keys(Over(old, new)) = Keys(old) \cup Keys(new)
         /\ \A p \in Over(old, new) : p \in new \/ (p \in old /\ p[1] \notin Keys(new))
         /\ \A p \in new : p \in Over(old, new)
         /\ \A p \in old : p[1] \notin Keys(new) => p \in Over(old, new)
BY DEF Keys, Over

(* The keys of the batches that the operations write.                      *)
LEMMA KeysOf ==
  ASSUME NEW hs, NEW v
  PROVE  /\ Keys({<<h, v>> : h \in hs}) = hs
         /\ Keys({<<h, Tx[h]>> : h \in hs}) = hs
         /\ Keys({Approvees(h) : h \in hs}) = hs
<1>1. Keys({<<h, v>> : h \in hs}) = hs
  <2>1. \A h \in hs : <<h, v>> \in {<<g, v>> : g \in hs} /\ <<h, v>>[1] = h
    OBVIOUS
  <2>2. \A p \in {<<g, v>> : g \in hs} : p[1] \in hs
    OBVIOUS
  <2> QED BY <2>1, <2>2 DEF Keys
<1>2. Keys({<<h, Tx[h]>> : h \in hs}) = hs
  <2>1. \A h \in hs : <<h, Tx[h]>> \in {<<g, Tx[g]>> : g \in hs} /\ <<h, Tx[h]>>[1] = h
    OBVIOUS
  <2>2. \A p \in {<<g, Tx[g]>> : g \in hs} : p[1] \in hs
    OBVIOUS
  <2> QED BY <2>1, <2>2 DEF Keys
<1>3. Keys({Approvees(h) : h \in hs}) = hs
  <2>1. \A h \in hs : Approvees(h) \in {Approvees(g) : g \in hs} /\ Approvees(h)[1] = h
    BY DEF Approvees
  <2>2. \A p \in {Approvees(g) : g \in hs} : p[1] \in hs
    BY DEF Approvees
  <2> QED BY <2>1, <2>2 DEF Keys
<1> QED BY <1>1, <1>2, <1>3

-----------------------------------------------------------------------------
(* What the operations do to the two databases, family by family.          *)
Same(new, old, changed) == \A cf \in ColumnFamilies \ changed : new[cf] = old[cf]

LEMMA InsertTransactionIs ==
  ASSUME IsDatabase(mem), IsDatabase(disk), NEW h \in Hashes, rocks_insert_transaction(h)
  PROVE  /\ IsDatabase(mem') /\ IsDatabase(disk')
         /\ mem'["transaction"] = Over(mem["transaction"], {<<h, Tx[h]>>})
         /\ mem'["aprovees"] = Over(mem["aprovees"], {Approvees(h)})
         /\ Same(mem', mem, {"transaction", "aprovees"})
         /\ disk'["transaction"] = Over(disk["transaction"], {<<h, Tx[h]>>})
         /\ Same(disk', disk, {"transaction"})
<1> DEFINE one == Put(mem, "transaction", {<<h, Tx[h]>>})
<1>1. mem' = Put(one, "aprovees", {Approvees(h)}) /\ disk' = Put(disk, "transaction", {<<h, Tx[h]>>})
  BY DEF rocks_insert_transaction
<1>2. "transaction" \in ColumnFamilies /\ "aprovees" \in ColumnFamilies
  BY DEF ColumnFamilies
<1>3. /\ IsDatabase(one) /\ one["transaction"] = Over(mem["transaction"], {<<h, Tx[h]>>})
      /\ \A g \in ColumnFamilies : g # "transaction" => one[g] = mem[g]
  BY <1>2, PutIs
<1> HIDE DEF one
<1>4. /\ IsDatabase(mem') /\ mem'["aprovees"] = Over(one["aprovees"], {Approvees(h)})
      /\ \A g \in ColumnFamilies : g # "aprovees" => mem'[g] = one[g]
  BY <1>1, <1>2, <1>3, PutIs
<1>5. /\ IsDatabase(disk') /\ disk'["transaction"] = Over(disk["transaction"], {<<h, Tx[h]>>})
      /\ \A g \in ColumnFamilies : g # "transaction" => disk'[g] = disk[g]
  BY <1>1, <1>2, PutIs
<1> QED BY <1>2, <1>3, <1>4, <1>5 DEF Same

LEMMA InsertTransactionsIs ==
  ASSUME IsDatabase(mem), NEW hs \in SUBSET Hashes, rocks_insert_transactions(hs)
  PROVE  /\ IsDatabase(mem') /\ disk' = disk
         /\ mem'["transaction"] = Over(mem["transaction"], {<<h, Tx[h]>> : h \in hs})
         /\ mem'["aprovees"] = Over(mem["aprovees"], {Approvees(h) : h \in hs})
         /\ Same(mem', mem, {"transaction", "aprovees"})
<1> DEFINE txs == {<<h, Tx[h]>> : h \in hs}
           apps == {Approvees(h) : h \in hs}
           one == Put(mem, "transaction", txs)
<1>1. mem' = Put(one, "aprovees", apps) /\ disk' = disk
  BY DEF rocks_insert_transactions
<1>2. "transaction" \in ColumnFamilies /\ "aprovees" \in ColumnFamilies
  BY DEF ColumnFamilies
<1> HIDE DEF txs, apps
<1>3. /\ IsDatabase(one) /\ one["transaction"] = Over(mem["transaction"], txs)
      /\ \A g \in ColumnFamilies : g # "transaction" => one[g] = mem[g]
  BY <1>2, PutIs
<1> HIDE DEF one
<1>4. /\ IsDatabase(mem') /\ mem'["aprovees"] = Over(one["aprovees"], apps)
      /\ \A g \in ColumnFamilies : g # "aprovees" => mem'[g] = one[g]
  BY <1>1, <1>2, <1>3, PutIs
<1> QED BY <1>1, <1>2, <1>3, <1>4 DEF Same, txs, apps

LEMMA InsertMilestoneIs ==
  ASSUME IsDatabase(mem), IsDatabase(disk), NEW h, NEW index, rocks_insert_milestone(h, index)
  PROVE  /\ IsDatabase(mem') /\ IsDatabase(disk')
         /\ mem'["hash_to_index"] = Over(mem["hash_to_index"], {<<h, index>>})
         /\ mem'["index_to_hash"] = Over(mem["index_to_hash"], {<<index, h>>})
         /\ Same(mem', mem, {"hash_to_index", "index_to_hash"})
         /\ disk'["hash_to_index"] = Over(disk["hash_to_index"], {<<h, index>>})
         /\ disk'["index_to_hash"] = Over(disk["index_to_hash"], {<<index, h>>})
         /\ Same(disk', disk, {"hash_to_index", "index_to_hash"})
<1> DEFINE one(db) == Put(db, "hash_to_index", {<<h, index>>})
           both(db) == Put(one(db), "index_to_hash", {<<index, h>>})
<1>1. mem' = both(mem) /\ disk' = both(disk)
  BY DEF rocks_insert_milestone
<1>2. "hash_to_index" \in ColumnFamilies /\ "index_to_hash" \in ColumnFamilies
  BY DEF ColumnFamilies
<1>3. ASSUME NEW db, IsDatabase(db)
      PROVE  /\ IsDatabase(both(db))
             /\ both(db)["hash_to_index"] = Over(db["hash_to_index"], {<<h, index>>})
             /\ both(db)["index_to_hash"] = Over(db["index_to_hash"], {<<index, h>>})
             /\ Same(both(db), db, {"hash_to_index", "index_to_hash"})
  <2> DEFINE once == one(db)
  <2>1. /\ IsDatabase(once) /\ once["hash_to_index"] = Over(db["hash_to_index"], {<<h, index>>})
        /\ \A g \in ColumnFamilies : g # "hash_to_index" => once[g] = db[g]
    BY <1>2, <1>3, PutIs
  <2> HIDE DEF once
  <2> DEFINE twice == Put(once, "index_to_hash", {<<index, h>>})
  <2>2. /\ IsDatabase(twice) /\ twice["index_to_hash"] = Over(once["index_to_hash"], {<<index, h>>})
        /\ \A g \in ColumnFamilies : g # "index_to_hash" => twice[g] = once[g]
    BY <1>2, <2>1, PutIs
  <2>3. twice = both(db)
    BY DEF once
  <2> HIDE DEF twice, both
  <2> QED BY <1>2, <2>1, <2>2, <2>3 DEF Same
<1> HIDE DEF both
<1> QED BY <1>1, <1>3

(* The writes to a single family, and what a restart finds.                *)
LEMMA SingleWrites ==
  ASSUME IsDatabase(mem), IsDatabase(disk)
  PROVE  /\ \A hs : rocks_set_solid(hs) =>
              /\ IsDatabase(mem') /\ disk' = disk /\ Same(mem', mem, {"solid"})
              /\ mem'["solid"] = Over(mem["solid"], {<<h, TRUE>> : h \in hs})
         /\ \A hs, index : rocks_set_snapshot_index(hs, index) =>
              /\ IsDatabase(mem') /\ disk' = disk /\ Same(mem', mem, {"snapshot"})
              /\ mem'["snapshot"] = Over(mem["snapshot"], {<<h, index>> : h \in hs})
         /\ \A hs : rocks_delete_transactions(hs) =>
              /\ IsDatabase(mem') /\ disk' = disk /\ Same(mem', mem, {"transaction"})
              /\ mem'["transaction"] = {p \in mem["transaction"] : p[1] \notin hs}
         /\ \A hs : rocks_delete_milestones(hs) =>
              /\ IsDatabase(mem') /\ disk' = disk /\ Same(mem', mem, {"hash_to_index"})
              /\ mem'["hash_to_index"] = {p \in mem["hash_to_index"] : p[1] \notin hs}
         /\ \A delta, index : rocks_insert_state_delta(delta, index) =>
              /\ IsDatabase(mem') /\ Same(mem', mem, {"delta"})
              /\ IsDatabase(disk') /\ Same(disk', disk, {"delta"})
              /\ mem'["delta"] = Over(mem["delta"], {<<index, delta>>})
              /\ disk'["delta"] = Over(disk["delta"], {<<index, delta>>})
<1> USE DEF Same
<1>1. {"solid", "snapshot", "transaction", "hash_to_index", "delta"} \subseteq ColumnFamilies
  BY DEF ColumnFamilies
<1>2. ASSUME NEW hs, rocks_set_solid(hs)
      PROVE  /\ IsDatabase(mem') /\ disk' = disk /\ Same(mem', mem, {"solid"})
             /\ mem'["solid"] = Over(mem["solid"], {<<h, TRUE>> : h \in hs})
  <2> DEFINE pairs == {<<h, TRUE>> : h \in hs}
  <2>1. mem' = Put(mem, "solid", pairs) /\ disk' = disk
    BY <1>2 DEF rocks_set_solid
  <2> HIDE DEF pairs
  <2>2. /\ IsDatabase(mem') /\ disk' = disk /\ Same(mem', mem, {"solid"})
        /\ mem'["solid"] = Over(mem["solid"], pairs)
    BY <1>1, <2>1, PutIs
  <2> QED BY <2>2 DEF pairs
<1>3. ASSUME NEW hs, NEW index, rocks_set_snapshot_index(hs, index)
      PROVE  /\ IsDatabase(mem') /\ disk' = disk /\ Same(mem', mem, {"snapshot"})
             /\ mem'["snapshot"] = Over(mem["snapshot"], {<<h, index>> : h \in hs})
  <2> DEFINE pairs == {<<h, index>> : h \in hs}
  <2>1. mem' = Put(mem, "snapshot", pairs) /\ disk' = disk
    BY <1>3 DEF rocks_set_snapshot_index
  <2> HIDE DEF pairs
  <2>2. /\ IsDatabase(mem') /\ disk' = disk /\ Same(mem', mem, {"snapshot"})
        /\ mem'["snapshot"] = Over(mem["snapshot"], pairs)
    BY <1>1, <2>1, PutIs
  <2> QED BY <2>2 DEF pairs
<1>4. ASSUME NEW hs, rocks_delete_transactions(hs)
      PROVE  /\ IsDatabase(mem') /\ disk' = disk /\ Same(mem', mem, {"transaction"})
             /\ mem'["transaction"] = {p \in mem["transaction"] : p[1] \notin hs}
  BY <1>1, <1>4, DeleteIs DEF rocks_delete_transactions
<1>5. ASSUME NEW hs, rocks_delete_milestones(hs)
      PROVE  /\ IsDatabase(mem') /\ disk' = disk /\ Same(mem', mem, {"hash_to_index"})
             /\ mem'["hash_to_index"] = {p \in mem["hash_to_index"] : p[1] \notin hs}
  BY <1>1, <1>5, DeleteIs DEF rocks_delete_milestones
<1>6. ASSUME NEW delta, NEW index, rocks_insert_state_delta(delta, index)
      PROVE  /\ IsDatabase(mem') /\ Same(mem', mem, {"delta"})
             /\ IsDatabase(disk') /\ Same(disk', disk, {"delta"})
             /\ mem'["delta"] = Over(mem["delta"], {<<index, delta>>})
             /\ disk'["delta"] = Over(disk["delta"], {<<index, delta>>})
  BY <1>1, <1>6, PutIs DEF rocks_insert_state_delta
<1> HIDE DEF Same
<1> QED BY <1>2, <1>3, <1>4, <1>5, <1>6

(* Restart leaves both databases alike, with what the disk held and what   *)
(* the cut operation had written through the log.                          *)
LEMMA RestartIs ==
  ASSUME IsDatabase(disk), Restart
  PROVE  /\ IsDatabase(disk') /\ mem' = disk'
         /\ \/ disk' = disk /\ cut' = cut
            \/ /\ cut' = cut /\ Same(disk', disk, {"transaction"})
               /\ \E h \in Hashes : disk'["transaction"] = Over(disk["transaction"], {<<h, Tx[h]>>})
            \/ /\ cut' = TRUE /\ Same(disk', disk, {"hash_to_index"})
<1>1. "transaction" \in ColumnFamilies /\ "hash_to_index" \in ColumnFamilies
  BY DEF ColumnFamilies
<1>2. CASE Crash /\ cut' = cut
  BY <1>2 DEF Crash
<1>3. ASSUME NEW h \in Hashes, rocks_insert_transaction_cut(h), cut' = cut
      PROVE  /\ IsDatabase(disk') /\ mem' = disk' /\ Same(disk', disk, {"transaction"})
             /\ disk'["transaction"] = Over(disk["transaction"], {<<h, Tx[h]>>})
  BY <1>1, <1>3, PutIs DEF rocks_insert_transaction_cut, Same
<1>4. ASSUME NEW h \in Hashes, NEW i \in Indexes, rocks_insert_milestone_cut(h, i), cut' = TRUE
      PROVE  IsDatabase(disk') /\ mem' = disk' /\ Same(disk', disk, {"hash_to_index"})
  BY <1>1, <1>4, PutIs DEF rocks_insert_milestone_cut, Same
<1> QED BY <1>2, <1>3, <1>4 DEF Restart

LEMMA FlushIs ==
  ASSUME IsDatabase(disk), FlushSome
  PROVE  /\ IsDatabase(disk') /\ mem' = mem
         /\ \A cf \in ColumnFamilies : disk'[cf] \in {disk[cf], mem[cf]}
         /\ \A f, g \in ColumnFamilies : f # g => disk'[f] = disk[f] \/ disk'[g] = disk[g]
<1>1. PICK cf \in ColumnFamilies : Flush(cf)
  BY DEF FlushSome
<1>2. mem' = mem /\ disk' = [disk EXCEPT ![cf] = mem[cf]]
  BY <1>1 DEF Flush
<1> QED BY <1>2 DEF IsDatabase

-----------------------------------------------------------------------------
(* What the writes of a database keep of DatabaseOK.                       *)
LEMMA TransactionsPut ==
  ASSUME NEW db, NEW lasting, NEW torn, DatabaseOK(db, lasting, torn), NEW new, IsDatabase(new),
         NEW hs \in SUBSET Hashes, new["transaction"] = Over(db["transaction"], {<<h, Tx[h]>> : h \in hs}),
         NEW more, more \subseteq lasting \cup hs,
         Same(new, db, {"transaction", "aprovees"})
  PROVE  DatabaseOK(new, more, torn)
<1> DEFINE txs == {<<h, Tx[h]>> : h \in hs}
<1>1. Keys(txs) = hs
  BY KeysOf
<1>2. \A p \in txs : \E h \in Hashes : p = <<h, Tx[h]>>
  OBVIOUS
<1> HIDE DEF txs
<1>3. \A p \in new["transaction"] : \E h \in Hashes : p = <<h, Tx[h]>>
  BY <1>2, OverKeys DEF DatabaseOK, txs
<1>4. more \subseteq Keys(new["transaction"])
  <2>1. Keys(new["transaction"]) = Keys(db["transaction"]) \cup Keys(txs)
    BY OverKeys DEF txs
  <2>2. lasting \subseteq Keys(db["transaction"])
    BY DEF DatabaseOK
  <2> QED BY <1>1, <2>1, <2>2
<1>5. new["hash_to_index"] = db["hash_to_index"] /\ new["index_to_hash"] = db["index_to_hash"]
  BY DEF Same, ColumnFamilies
<1> QED BY <1>3, <1>4, <1>5 DEF DatabaseOK

LEMMA OthersChanged ==
  ASSUME NEW db, NEW lasting, NEW torn, DatabaseOK(db, lasting, torn), NEW new, IsDatabase(new),
         Same(new, db, {"solid", "snapshot", "aprovees", "delta"})
  PROVE  DatabaseOK(new, lasting, torn)
<1>1. /\ new["transaction"] = db["transaction"]
      /\ new["hash_to_index"] = db["hash_to_index"] /\ new["index_to_hash"] = db["index_to_hash"]
  BY DEF Same, ColumnFamilies
<1> QED BY <1>1 DEF DatabaseOK

LEMMA MilestonePut ==
  ASSUME NEW db, NEW lasting, NEW torn, DatabaseOK(db, lasting, torn), NEW new, IsDatabase(new),
         NEW h, NEW i, new["hash_to_index"] = Over(db["hash_to_index"], {<<h, i>>}),
         new["index_to_hash"] = Over(db["index_to_hash"], {<<i, h>>}),
         Same(new, db, {"hash_to_index", "index_to_hash"})
  PROVE  DatabaseOK(new, lasting, torn)
<1>1. new["transaction"] = db["transaction"]
  BY DEF Same, ColumnFamilies
<1>2. Keys(new["index_to_hash"]) = Keys(db["index_to_hash"]) \cup {i}
  <2>1. Keys({<<i, h>>}) = {i}
    BY DEF Keys
  <2> QED BY <2>1, OverKeys
<1>3. \A p \in new["hash_to_index"] : p = <<h, i>> \/ p \in db["hash_to_index"]
  BY OverKeys
<1>4. ~torn => \A p \in new["hash_to_index"] : p[2] \in Keys(new["index_to_hash"])
  <2> SUFFICES ASSUME ~torn, NEW p \in new["hash_to_index"] PROVE p[2] \in Keys(new["index_to_hash"])
    OBVIOUS
  <2>1. CASE p = <<h, i>>
    BY <1>2, <2>1
  <2>2. CASE p \in db["hash_to_index"]
    <3>1. p[2] \in Keys(db["index_to_hash"])
      BY <2>2 DEF DatabaseOK
    <3> QED BY <1>2, <3>1
  <2> QED BY <1>3, <2>1, <2>2
<1> QED BY <1>1, <1>4 DEF DatabaseOK

LEMMA RocksKept ==
  ASSUME RocksOK, StorageNext
  PROVE  RocksOK'
<1>1. /\ IsDatabase(mem) /\ IsDatabase(disk) /\ cut \in BOOLEAN
      /\ DatabaseOK(mem, logged, cut) /\ DatabaseOK(disk, logged, cut)
      /\ mem["index_to_hash"] = disk["index_to_hash"]
  BY DEF RocksOK, DatabaseOK
<1>2. ASSUME NEW h \in Hashes, insert_transaction(h) PROVE RocksOK'
  <2>1. rocks_insert_transaction(h) /\ logged' = logged \cup {h} /\ cut' = cut
    BY <1>2 DEF insert_transaction
  <2>2. /\ IsDatabase(mem') /\ IsDatabase(disk')
        /\ mem'["transaction"] = Over(mem["transaction"], {<<g, Tx[g]>> : g \in {h}})
        /\ Same(mem', mem, {"transaction", "aprovees"})
        /\ disk'["transaction"] = Over(disk["transaction"], {<<g, Tx[g]>> : g \in {h}})
        /\ Same(disk', disk, {"transaction", "aprovees"})
    <3>1. {<<g, Tx[g]>> : g \in {h}} = {<<h, Tx[h]>>}
      OBVIOUS
    <3> QED BY <1>1, <2>1, <3>1, InsertTransactionIs DEF Same
  <2>3. DatabaseOK(mem', logged', cut') /\ DatabaseOK(disk', logged', cut')
    BY <1>1, <2>1, <2>2, TransactionsPut
  <2>4. mem'["index_to_hash"] = disk'["index_to_hash"]
    BY <1>1, <2>2 DEF Same, ColumnFamilies
  <2> QED BY <1>1, <2>1, <2>3, <2>4 DEF RocksOK
<1>3. ASSUME NEW hs \in SUBSET Hashes, insert_transactions(hs) PROVE RocksOK'
  <2>1. rocks_insert_transactions(hs) /\ logged' = logged /\ cut' = cut
    BY <1>3 DEF insert_transactions
  <2>2. /\ IsDatabase(mem') /\ disk' = disk
        /\ mem'["transaction"] = Over(mem["transaction"], {<<g, Tx[g]>> : g \in hs})
        /\ Same(mem', mem, {"transaction", "aprovees"})
    BY <1>1, <2>1, InsertTransactionsIs
  <2>3. DatabaseOK(mem', logged', cut')
    BY <1>1, <2>1, <2>2, TransactionsPut
  <2>4. mem'["index_to_hash"] = disk'["index_to_hash"]
    BY <1>1, <2>2 DEF Same, ColumnFamilies
  <2> QED BY <1>1, <2>1, <2>2, <2>3, <2>4 DEF RocksOK
<1>4. ASSUME NEW hs, update_transactions_set_solid(hs) PROVE RocksOK'
  <2>1. rocks_set_solid(hs) /\ logged' = logged /\ cut' = cut
    BY <1>4 DEF update_transactions_set_solid
  <2>2. IsDatabase(mem') /\ disk' = disk /\ Same(mem', mem, {"solid"})
    BY <1>1, <2>1, SingleWrites
  <2>3. DatabaseOK(mem', logged', cut')
    <3>1. Same(mem', mem, {"solid", "snapshot", "aprovees", "delta"})
      BY <2>2 DEF Same
    <3> QED BY <1>1, <2>1, <2>2, <3>1, OthersChanged
  <2>4. mem'["index_to_hash"] = disk'["index_to_hash"]
    BY <1>1, <2>2 DEF Same, ColumnFamilies
  <2> QED BY <1>1, <2>1, <2>2, <2>3, <2>4 DEF RocksOK
<1>5. ASSUME NEW hs, NEW i, update_transactions_set_snapshot_index(hs, i) PROVE RocksOK'
  <2>1. rocks_set_snapshot_index(hs, i) /\ logged' = logged /\ cut' = cut
    BY <1>5 DEF update_transactions_set_snapshot_index
  <2>2. IsDatabase(mem') /\ disk' = disk /\ Same(mem', mem, {"snapshot"})
    BY <1>1, <2>1, SingleWrites
  <2>3. DatabaseOK(mem', logged', cut')
    <3>1. Same(mem', mem, {"solid", "snapshot", "aprovees", "delta"})
      BY <2>2 DEF Same
    <3> QED BY <1>1, <2>1, <2>2, <3>1, OthersChanged
  <2>4. mem'["index_to_hash"] = disk'["index_to_hash"]
    BY <1>1, <2>2 DEF Same, ColumnFamilies
  <2> QED BY <1>1, <2>1, <2>2, <2>3, <2>4 DEF RocksOK
<1>6. ASSUME NEW hs, delete_transactions(hs) PROVE RocksOK'
  <2>1. rocks_delete_transactions(hs) /\ logged' = logged \ hs /\ cut' = cut
    BY <1>6 DEF delete_transactions
  <2>2. /\ IsDatabase(mem') /\ disk' = disk /\ Same(mem', mem, {"transaction"})
        /\ mem'["transaction"] = {p \in mem["transaction"] : p[1] \notin hs}
    BY <1>1, <2>1, SingleWrites
  <2>3. logged' \subseteq Keys(mem'["transaction"])
    BY <1>1, <2>1, <2>2 DEF DatabaseOK, Keys
  <2>4. mem'["hash_to_index"] = mem["hash_to_index"] /\ mem'["index_to_hash"] = mem["index_to_hash"]
    BY <2>2 DEF Same, ColumnFamilies
  <2>5. DatabaseOK(mem', logged', cut') /\ DatabaseOK(disk', logged', cut')
    BY <1>1, <2>1, <2>2, <2>3, <2>4 DEF DatabaseOK
  <2> QED BY <1>1, <2>1, <2>2, <2>4, <2>5 DEF RocksOK
<1>7. ASSUME NEW h, NEW i, insert_milestone(h, i) PROVE RocksOK'
  <2>1. rocks_insert_milestone(h, i) /\ logged' = logged /\ cut' = cut
    BY <1>7 DEF insert_milestone
  <2>2. /\ IsDatabase(mem') /\ IsDatabase(disk')
        /\ mem'["hash_to_index"] = Over(mem["hash_to_index"], {<<h, i>>})
        /\ mem'["index_to_hash"] = Over(mem["index_to_hash"], {<<i, h>>})
        /\ Same(mem', mem, {"hash_to_index", "index_to_hash"})
        /\ disk'["hash_to_index"] = Over(disk["hash_to_index"], {<<h, i>>})
        /\ disk'["index_to_hash"] = Over(disk["index_to_hash"], {<<i, h>>})
        /\ Same(disk', disk, {"hash_to_index", "index_to_hash"})
    BY <1>1, <2>1, InsertMilestoneIs
  <2>3. DatabaseOK(mem', logged', cut') /\ DatabaseOK(disk', logged', cut')
    BY <1>1, <2>1, <2>2, MilestonePut
  <2> QED BY <1>1, <2>1, <2>2, <2>3 DEF RocksOK
<1>8. ASSUME NEW hs, delete_milestones(hs) PROVE RocksOK'
  <2>1. rocks_delete_milestones(hs) /\ logged' = logged /\ cut' = cut
    BY <1>8 DEF delete_milestones
  <2>2. /\ IsDatabase(mem') /\ disk' = disk /\ Same(mem', mem, {"hash_to_index"})
        /\ mem'["hash_to_index"] = {p \in mem["hash_to_index"] : p[1] \notin hs}
    BY <1>1, <2>1, SingleWrites
  <2>3. mem'["transaction"] = mem["transaction"] /\ mem'["index_to_hash"] = mem["index_to_hash"]
    BY <2>2 DEF Same, ColumnFamilies
  <2>4. DatabaseOK(mem', logged', cut') /\ DatabaseOK(disk', logged', cut')
    BY <1>1, <2>1, <2>2, <2>3 DEF DatabaseOK
  <2> QED BY <1>1, <2>1, <2>2, <2>3, <2>4 DEF RocksOK
<1>9. ASSUME NEW d, NEW i, insert_state_delta(d, i) PROVE RocksOK'
  <2>1. rocks_insert_state_delta(d, i) /\ logged' = logged /\ cut' = cut
    BY <1>9 DEF insert_state_delta
  <2>2. /\ IsDatabase(mem') /\ IsDatabase(disk')
        /\ Same(mem', mem, {"delta"}) /\ Same(disk', disk, {"delta"})
    BY <1>1, <2>1, SingleWrites
  <2>3. DatabaseOK(mem', logged', cut') /\ DatabaseOK(disk', logged', cut')
    <3>1. /\ Same(mem', mem, {"solid", "snapshot", "aprovees", "delta"})
          /\ Same(disk', disk, {"solid", "snapshot", "aprovees", "delta"})
      BY <2>2 DEF Same
    <3> QED BY <1>1, <2>1, <2>2, <3>1, OthersChanged
  <2>4. mem'["index_to_hash"] = disk'["index_to_hash"]
    BY <1>1, <2>2 DEF Same, ColumnFamilies
  <2> QED BY <1>1, <2>1, <2>3, <2>4 DEF RocksOK
<1>10. CASE map_to_approvers
  <2>1. UNCHANGED <<mem, disk, logged, cut>>
    BY <1>10 DEF map_to_approvers
  <2> QED BY <1>1, <2>1 DEF RocksOK
<1>11. CASE Restart
  <2>1. logged' = logged
    BY <1>11 DEF Restart
  <2>2. /\ IsDatabase(disk') /\ mem' = disk'
        /\ \/ disk' = disk /\ cut' = cut
           \/ /\ cut' = cut /\ Same(disk', disk, {"transaction"})
              /\ \E h \in Hashes : disk'["transaction"] = Over(disk["transaction"], {<<h, Tx[h]>>})
           \/ /\ cut' = TRUE /\ Same(disk', disk, {"hash_to_index"})
    BY <1>1, <1>11, RestartIs
  <2>3. DatabaseOK(disk', logged', cut')
    <3>1. CASE disk' = disk /\ cut' = cut
      BY <1>1, <2>1, <3>1
    <3>2. ASSUME cut' = cut, Same(disk', disk, {"transaction"}), NEW h \in Hashes,
                 disk'["transaction"] = Over(disk["transaction"], {<<h, Tx[h]>>})
          PROVE  DatabaseOK(disk', logged', cut')
      <4>1. {<<g, Tx[g]>> : g \in {h}} = {<<h, Tx[h]>>} /\ Same(disk', disk, {"transaction", "aprovees"})
        BY <3>2 DEF Same
      <4>2. disk'["transaction"] = Over(disk["transaction"], {<<g, Tx[g]>> : g \in {h}})
        BY <3>2, <4>1
      <4>3. {h} \in SUBSET Hashes /\ logged' \subseteq logged \cup {h}
        BY <2>1
      <4> QED BY <1>1, <2>2, <3>2, <4>1, <4>2, <4>3, TransactionsPut
    <3>3. CASE cut' = TRUE /\ Same(disk', disk, {"hash_to_index"})
      <4>1. disk'["transaction"] = disk["transaction"]
        BY <3>3 DEF Same, ColumnFamilies
      <4> QED BY <1>1, <2>1, <2>2, <3>3, <4>1 DEF DatabaseOK
    <3> QED BY <2>2, <3>1, <3>2, <3>3
  <2> QED BY <1>1, <2>2, <2>3 DEF RocksOK
<1>12. CASE FlushSome
  <2>1. UNCHANGED <<logged, cut>>
    BY <1>12 DEF FlushSome
  <2>2. /\ IsDatabase(disk') /\ mem' = mem
        /\ \A cf \in ColumnFamilies : disk'[cf] \in {disk[cf], mem[cf]}
    BY <1>1, <1>12, FlushIs
  <2>3. /\ disk'["transaction"] \in {disk["transaction"], mem["transaction"]}
        /\ disk'["hash_to_index"] \in {disk["hash_to_index"], mem["hash_to_index"]}
        /\ disk'["index_to_hash"] = mem["index_to_hash"]
    BY <1>1, <2>2 DEF ColumnFamilies
  <2>4. DatabaseOK(disk', logged', cut')
    BY <1>1, <2>1, <2>2, <2>3 DEF DatabaseOK
  <2> QED BY <1>1, <2>1, <2>2, <2>3, <2>4 DEF RocksOK
<1> QED
  BY <1>2, <1>3, <1>4, <1>5, <1>6, <1>7, <1>8, <1>9, <1>10, <1>11, <1>12 DEF StorageNext

-----------------------------------------------------------------------------
(* The milestones and deltas of the SQL side stay in both databases.       *)
LEMMA HoldsKept ==
  ASSUME NEW db, NEW ms, NEW exactly, HoldsMilestones(db, ms, exactly),
         NEW new, new["hash_to_index"] = db["hash_to_index"], new["delta"] = db["delta"],
         NEW as \in BOOLEAN, as => exactly
  PROVE  HoldsMilestones(new, ms, as)
BY DEF HoldsMilestones

LEMMA HoldsInserted ==
  ASSUME NEW db, NEW ms, NEW exactly, HoldsMilestones(db, ms, exactly), NEW h, NEW i,
         \A m \in ms : m.hash # h,
         NEW new, new["hash_to_index"] = Over(db["hash_to_index"], {<<h, i>>}), new["delta"] = db["delta"]
  PROVE  HoldsMilestones(new, ms \cup {[id |-> i, hash |-> h, delta |-> {}]}, exactly)
<1>1. Keys({<<h, i>>}) = {h}
  BY DEF Keys
<1> SUFFICES ASSUME NEW m \in ms \cup {[id |-> i, hash |-> h, delta |-> {}]}
             PROVE  /\ exactly => <<m.hash, m.id>> \in new["hash_to_index"]
                    /\ \A d \in m.delta : <<m.id, d>> \in new["delta"]
  BY DEF HoldsMilestones
<1>2. CASE m \in ms
  <2>1. /\ exactly => <<m.hash, m.id>> \in db["hash_to_index"]
        /\ \A d \in m.delta : <<m.id, d>> \in db["delta"]
    BY <1>2 DEF HoldsMilestones
  <2>2. <<m.hash, m.id>>[1] \notin Keys({<<h, i>>})
    BY <1>1, <1>2
  <2> QED BY <2>1, <2>2, OverKeys
<1>3. CASE m = [id |-> i, hash |-> h, delta |-> {}]
  BY <1>3, OverKeys
<1> QED BY <1>2, <1>3

DeltaSet(after, ms, i, d) ==
  \A n \in after : \E m \in ms : /\ n.id = m.id /\ n.hash = m.hash
                                /\ n.delta = IF m.id = i THEN {d} ELSE m.delta

LEMMA HoldsDelta ==
  ASSUME NEW db, NEW ms, NEW exactly, HoldsMilestones(db, ms, exactly), NEW d, NEW i, NEW after, DeltaSet(after, ms, i, d),
         NEW new, new["hash_to_index"] = db["hash_to_index"], new["delta"] = Over(db["delta"], {<<i, d>>})
  PROVE  HoldsMilestones(new, after, exactly)
<1>1. Keys({<<i, d>>}) = {i}
  BY DEF Keys
<1> SUFFICES ASSUME NEW n \in after
             PROVE  /\ exactly => <<n.hash, n.id>> \in new["hash_to_index"]
                    /\ \A e \in n.delta : <<n.id, e>> \in new["delta"]
  BY DEF HoldsMilestones
<1>2. PICK m \in ms : n.id = m.id /\ n.hash = m.hash /\ n.delta = IF m.id = i THEN {d} ELSE m.delta
  BY DEF DeltaSet
<1>3. /\ exactly => <<m.hash, m.id>> \in db["hash_to_index"]
      /\ \A e \in m.delta : <<m.id, e>> \in db["delta"]
  BY DEF HoldsMilestones
<1>4. CASE m.id = i
  BY <1>2, <1>3, <1>4, OverKeys
<1>5. CASE m.id # i
  <2>1. ASSUME NEW e \in m.delta PROVE <<m.id, e>> \in new["delta"]
    <3>1. <<m.id, e>> \in db["delta"] /\ <<m.id, e>>[1] \notin Keys({<<i, d>>})
      BY <1>1, <1>3, <1>5
    <3> DEFINE pair == <<m.id, e>>
    <3> HIDE DEF pair
    <3>2. pair \in Over(db["delta"], {<<i, d>>})
      BY <3>1, OverKeys DEF pair
    <3> QED BY <3>2 DEF pair
  <2>2. \A e \in m.delta : <<m.id, e>> \in new["delta"]
    BY <2>1
  <2> QED BY <1>2, <1>3, <1>5, <2>2
<1> QED BY <1>4, <1>5

LEMMA MilestonesKept ==
  ASSUME RocksOK, MilestonesOK, refused \in BOOLEAN, StorageNext
  PROVE  MilestonesOK'
<1> DEFINE exactly == ~refused /\ ~cut
<1>1. IsDatabase(mem) /\ IsDatabase(disk) /\ cut \in BOOLEAN
  BY DEF RocksOK, DatabaseOK
<1>2. /\ \A m \in milestones : m = [id |-> m.id, hash |-> m.hash, delta |-> m.delta]
      /\ HoldsMilestones(mem, milestones, exactly) /\ HoldsMilestones(disk, milestones, exactly)
  BY DEF MilestonesOK
<1>3. ASSUME milestones' = milestones, exactly' \in BOOLEAN, exactly' => exactly,
             mem'["hash_to_index"] = mem["hash_to_index"], mem'["delta"] = mem["delta"],
             disk'["hash_to_index"] = disk["hash_to_index"], disk'["delta"] = disk["delta"]
      PROVE  MilestonesOK'
  <2> DEFINE now == exactly'
  <2>1. now \in BOOLEAN /\ (now => exactly)
    BY <1>3
  <2> HIDE DEF now
  <2>2. HoldsMilestones(mem', milestones, now) /\ HoldsMilestones(disk', milestones, now)
    BY <1>2, <1>3, <2>1, HoldsKept
  <2> QED BY <1>2, <1>3, <2>2 DEF MilestonesOK, now
<1>4. ASSUME NEW h \in Hashes, insert_transaction(h) PROVE MilestonesOK'
  <2>1. /\ rocks_insert_transaction(h) /\ milestones' = milestones /\ cut' = cut
        /\ refused' = (refused \/ ~Insertable({h}))
    BY <1>4 DEF insert_transaction, sqlx_insert_transaction
  <2>2. Same(mem', mem, {"transaction", "aprovees"}) /\ Same(disk', disk, {"transaction"})
    BY <1>1, <2>1, InsertTransactionIs
  <2> QED BY <1>3, <2>1, <2>2 DEF Same, ColumnFamilies
<1>5. ASSUME NEW hs \in SUBSET Hashes, insert_transactions(hs) PROVE MilestonesOK'
  <2>1. /\ rocks_insert_transactions(hs) /\ milestones' = milestones /\ cut' = cut
        /\ refused' = (refused \/ ~Insertable(hs))
    BY <1>5 DEF insert_transactions, sqlx_insert_transactions
  <2>2. Same(mem', mem, {"transaction", "aprovees"}) /\ disk' = disk
    BY <1>1, <2>1, InsertTransactionsIs
  <2> QED BY <1>3, <2>1, <2>2 DEF Same, ColumnFamilies
<1>6. ASSUME NEW hs, update_transactions_set_solid(hs) PROVE MilestonesOK'
  <2>1. rocks_set_solid(hs) /\ milestones' = milestones /\ UNCHANGED <<refused, cut>>
    BY <1>6 DEF update_transactions_set_solid, sqlx_set_solid
  <2>2. Same(mem', mem, {"solid"}) /\ disk' = disk
    BY <1>1, <2>1, SingleWrites
  <2> QED BY <1>3, <2>1, <2>2 DEF Same, ColumnFamilies
<1>7. ASSUME NEW hs, NEW i, update_transactions_set_snapshot_index(hs, i) PROVE MilestonesOK'
  <2>1. rocks_set_snapshot_index(hs, i) /\ milestones' = milestones /\ UNCHANGED <<refused, cut>>
    BY <1>7 DEF update_transactions_set_snapshot_index, sqlx_set_snapshot_index
  <2>2. Same(mem', mem, {"snapshot"}) /\ disk' = disk
    BY <1>1, <2>1, SingleWrites
  <2> QED BY <1>3, <2>1, <2>2 DEF Same, ColumnFamilies
<1>8. ASSUME NEW hs, delete_transactions(hs) PROVE MilestonesOK'
  <2>1. rocks_delete_transactions(hs) /\ milestones' = milestones /\ UNCHANGED <<refused, cut>>
    BY <1>8 DEF delete_transactions, sqlx_delete_transactions
  <2>2. Same(mem', mem, {"transaction"}) /\ disk' = disk
    BY <1>1, <2>1, SingleWrites
  <2> QED BY <1>3, <2>1, <2>2 DEF Same, ColumnFamilies
<1>9. ASSUME NEW h, NEW i, insert_milestone(h, i) PROVE MilestonesOK'
  <2>1. /\ rocks_insert_milestone(h, i) /\ sqlx_insert_milestone(h, i) /\ cut' = cut
        /\ refused' = (refused \/ ~MilestoneInsertable(h, i))
    BY <1>9 DEF insert_milestone
  <2>2. /\ mem'["hash_to_index"] = Over(mem["hash_to_index"], {<<h, i>>}) /\ mem'["delta"] = mem["delta"]
        /\ disk'["hash_to_index"] = Over(disk["hash_to_index"], {<<h, i>>}) /\ disk'["delta"] = disk["delta"]
    BY <1>1, <2>1, InsertMilestoneIs DEF Same, ColumnFamilies
  <2>3. CASE MilestoneInsertable(h, i)
    <3> DEFINE one == [id |-> i, hash |-> h, delta |-> {}]
    <3>1. milestones' = milestones \cup {one} /\ refused' = refused
      BY <2>1, <2>3 DEF sqlx_insert_milestone
    <3>2. \A m \in milestones : m.hash # h
      BY <2>3 DEF MilestoneInsertable
    <3>3. /\ HoldsMilestones(mem', milestones \cup {one}, exactly)
          /\ HoldsMilestones(disk', milestones \cup {one}, exactly)
      BY <1>2, <2>2, <3>2, HoldsInserted
    <3>4. one = [id |-> one.id, hash |-> one.hash, delta |-> one.delta]
      OBVIOUS
    <3> HIDE DEF one
    <3> QED BY <1>2, <2>1, <3>1, <3>3, <3>4 DEF MilestonesOK
  <2>4. CASE ~MilestoneInsertable(h, i)
    <3>1. milestones' = milestones /\ refused'
      BY <2>1, <2>4 DEF sqlx_insert_milestone
    <3> QED BY <1>2, <2>2, <3>1 DEF MilestonesOK, HoldsMilestones
  <2> QED BY <2>3, <2>4
<1>10. ASSUME NEW hs, delete_milestones(hs) PROVE MilestonesOK'
  <2>1. /\ rocks_delete_milestones(hs) /\ UNCHANGED <<refused, cut>>
        /\ milestones' = {m \in milestones : m.hash \notin hs}
    BY <1>10 DEF delete_milestones, sqlx_delete_milestones
  <2>2. /\ mem'["hash_to_index"] = {p \in mem["hash_to_index"] : p[1] \notin hs}
        /\ mem'["delta"] = mem["delta"] /\ disk' = disk
    BY <1>1, <2>1, SingleWrites DEF Same, ColumnFamilies
  <2>3. HoldsMilestones(mem', milestones', exactly) /\ HoldsMilestones(disk', milestones', exactly)
    BY <1>2, <2>1, <2>2 DEF HoldsMilestones
  <2> QED BY <1>2, <2>1, <2>3 DEF MilestonesOK
<1>11. ASSUME NEW d, NEW i, insert_state_delta(d, i) PROVE MilestonesOK'
  <2>1. /\ rocks_insert_state_delta(d, i) /\ UNCHANGED <<refused, cut>>
        /\ milestones' = {IF m.id = i THEN [m EXCEPT !.delta = {d}] ELSE m : m \in milestones}
    BY <1>11 DEF insert_state_delta, sqlx_insert_state_delta
  <2>2. /\ mem'["hash_to_index"] = mem["hash_to_index"] /\ mem'["delta"] = Over(mem["delta"], {<<i, d>>})
        /\ disk'["hash_to_index"] = disk["hash_to_index"] /\ disk'["delta"] = Over(disk["delta"], {<<i, d>>})
    BY <1>1, <2>1, SingleWrites DEF Same, ColumnFamilies
  <2>3. HoldsMilestones(mem', milestones', exactly) /\ HoldsMilestones(disk', milestones', exactly)
    <3>1. DeltaSet(milestones', milestones, i, d)
      BY <1>2, <2>1 DEF DeltaSet
    <3> DEFINE after == milestones'
    <3> HIDE DEF after, exactly
    <3>2. HoldsMilestones(mem', after, exactly)
      BY <1>2, <2>2, <3>1, HoldsDelta DEF after
    <3>3. HoldsMilestones(disk', after, exactly)
      BY <1>2, <2>2, <3>1, HoldsDelta DEF after
    <3> QED BY <3>2, <3>3 DEF after
  <2>4. \A m \in milestones' : m = [id |-> m.id, hash |-> m.hash, delta |-> m.delta]
    BY <1>2, <2>1
  <2> QED BY <2>1, <2>3, <2>4 DEF MilestonesOK
<1>12. CASE map_to_approvers
  <2>1. UNCHANGED <<mem, disk, refused, cut, milestones>>
    BY <1>12 DEF map_to_approvers, sqlx_map_begin, sqlx_map_page, sqlx_map_return
  <2> QED BY <1>3, <2>1
<1>13. CASE Restart
  <2>1. milestones' = milestones /\ refused' = refused
    BY <1>13 DEF Restart
  <2>2. /\ mem' = disk'
        /\ \/ disk' = disk /\ cut' = cut
           \/ cut' = cut /\ Same(disk', disk, {"transaction"})
           \/ cut' = TRUE /\ Same(disk', disk, {"hash_to_index"})
    BY <1>1, <1>13, RestartIs
  <2>3. /\ disk'["delta"] = disk["delta"]
        /\ (cut' = cut /\ disk'["hash_to_index"] = disk["hash_to_index"]) \/ cut' = TRUE
    BY <2>2 DEF Same, ColumnFamilies
  <2>4. HoldsMilestones(disk', milestones, exactly')
    <3> DEFINE now == exactly'
    <3>1. CASE cut' = cut /\ disk'["hash_to_index"] = disk["hash_to_index"]
      <4>1. now \in BOOLEAN /\ (now => exactly)
        BY <1>1, <2>1, <3>1
      <4> HIDE DEF now
      <4>2. HoldsMilestones(disk', milestones, now)
        BY <1>2, <2>3, <3>1, <4>1, HoldsKept
      <4> QED BY <4>2 DEF now
    <3>2. CASE cut' = TRUE
      <4>1. now = FALSE
        BY <3>2
      <4> HIDE DEF now
      <4>2. HoldsMilestones(disk', milestones, now)
        BY <1>2, <2>3, <4>1 DEF HoldsMilestones
      <4> QED BY <4>2 DEF now
    <3> QED BY <2>3, <3>1, <3>2
  <2> QED BY <1>2, <2>1, <2>2, <2>4 DEF MilestonesOK
<1>14. CASE FlushSome
  <2>1. UNCHANGED <<milestones, refused, cut>>
    BY <1>14 DEF FlushSome
  <2>2. /\ mem' = mem
        /\ disk'["hash_to_index"] \in {disk["hash_to_index"], mem["hash_to_index"]}
        /\ disk'["delta"] \in {disk["delta"], mem["delta"]}
    BY <1>1, <1>14, FlushIs DEF ColumnFamilies
  <2>3. HoldsMilestones(disk', milestones, exactly)
    BY <1>2, <2>2 DEF HoldsMilestones
  <2> QED BY <1>2, <2>1, <2>2, <2>3 DEF MilestonesOK
<1> QED
  BY <1>4, <1>5, <1>6, <1>7, <1>8, <1>9, <1>10, <1>11, <1>12, <1>13, <1>14 DEF StorageNext

-----------------------------------------------------------------------------
(* The table of the SQL side.  A heap order lists the rows of a finite     *)
(* table once each.                                                        *)
LEMMA ArrangedIs ==
  ASSUME NEW table, IsFiniteSet(table), NEW s \in Arranged(table)
  PROVE  /\ Len(s) \in Nat /\ s = [k \in 1..Len(s) |-> s[k]]
         /\ {s[k] : k \in 1..Len(s)} = table
         /\ \A j, k \in 1..Len(s) : s[j] = s[k] => j = k
<1> DEFINE n == Cardinality(table)
<1>1. n \in Nat
  BY FS_CardinalityType
<1>2. s \in [1..n -> table] /\ \A r \in table : \E k \in 1..n : s[k] = r
  BY DEF Arranged
<1> HIDE DEF n
<1>3. Len(s) = n
  BY <1>1, <1>2
<1>4. IsFiniteSet(1..n) /\ Cardinality(1..n) = n
  <2>1. 1 \in Int /\ n \in Int
    BY <1>1
  <2>2. IsFiniteSet(1..n) /\ Cardinality(1..n) = IF 1 > n THEN 0 ELSE n - 1 + 1
    BY <2>1, FS_Interval
  <2> QED BY <1>1, <2>2
<1>5. s \in Surjection(1..n, table)
  BY <1>2 DEF Surjection
<1>6. s \in Injection(1..n, table)
  <2>1. Cardinality(1..n) = Cardinality(table)
    BY <1>4 DEF n
  <2> QED BY <1>4, <1>5, <2>1, FS_SurjSameCardinalityImpliesInj
<1>7. \A j, k \in 1..n : s[j] = s[k] => j = k
  BY <1>6 DEF Injection, IsInjective
<1>8. {s[k] : k \in 1..n} = table
  BY <1>2
<1> QED BY <1>1, <1>2, <1>3, <1>7, <1>8

(* The rows as the operations leave them.                                  *)
IsRow(r) ==
  \E h \in Hashes, s \in {0, 1}, i \in Indexes \cup {0} :
    r = RowWith(h, s, i) /\ Fits(Tx[h].value, IntegerHalf)
IsTable(table) ==
  /\ IsFiniteSet(table)
  /\ \A r \in table : IsRow(r)
  /\ \A q, r \in table : q.hash = r.hash => q = r

LEMMA RowIs ==
  ASSUME NEW h, NEW s, NEW i
  PROVE  /\ RowWith(h, s, i).hash = h /\ RowWith(h, s, i).solid = s /\ RowWith(h, s, i).snapshot = i
         /\ RowWith(h, s, i).trunk = Tx[h].trunk /\ RowWith(h, s, i).branch = Tx[h].branch
         /\ [RowWith(h, s, i) EXCEPT !.solid = 1] = RowWith(h, 1, i)
         /\ \A j : [RowWith(h, s, i) EXCEPT !.snapshot = j] = RowWith(h, s, j)
BY DEF RowWith

LEMMA TableIs ==
  ASSUME RowsOK
  PROVE  IsTable(Table) /\ Stored = {r.hash : r \in Table} /\ Stored \subseteq Hashes
<1>1. /\ rows = [k \in 1..Len(rows) |-> rows[k]] /\ Len(rows) \in Nat
      /\ \A k \in 1..Len(rows) : IsRow(rows[k])
      /\ \A j, k \in 1..Len(rows) : rows[j].hash = rows[k].hash => j = k
  BY DEF RowsOK, IsRow
<1>2. IsFiniteSet(Table)
  <2> DEFINE n == Len(rows)
  <2>1. IsFiniteSet(1..n)
    BY <1>1, FS_Interval
  <2>2. rows \in Surjection(1..n, Table)
    BY <1>1 DEF Surjection, Table
  <2> QED BY <2>1, <2>2, FS_Surjection
<1>3. /\ \A r \in Table : IsRow(r)
      /\ \A q, r \in Table : q.hash = r.hash => q = r
      /\ Stored = {r.hash : r \in Table}
  BY <1>1 DEF Table, Stored
<1>4. \A r : IsRow(r) => r.hash \in Hashes
  BY RowIs DEF IsRow
<1> QED BY <1>2, <1>3, <1>4 DEF IsTable

LEMMA RearrangedOK ==
  ASSUME NEW table, IsTable(table), rows' \in Arranged(table)
  PROVE  RowsOK' /\ Table' = table
<1>1. /\ Len(rows') \in Nat /\ rows' = [k \in 1..Len(rows') |-> rows'[k]]
      /\ {rows'[k] : k \in 1..Len(rows')} = table
      /\ \A j, k \in 1..Len(rows') : rows'[j] = rows'[k] => j = k
  BY ArrangedIs DEF IsTable
<1>2. \A k \in 1..Len(rows') : rows'[k] \in table
  BY <1>1
<1>3. \A k \in 1..Len(rows') : IsRow(rows'[k])
  BY <1>2 DEF IsTable
<1>4. \A j, k \in 1..Len(rows') : rows'[j].hash = rows'[k].hash => j = k
  BY <1>1, <1>2 DEF IsTable
<1> QED BY <1>1, <1>3, <1>4 DEF RowsOK, IsRow, Table

(* The tables the statements leave.                                        *)
LEMMA InsertedTable ==
  ASSUME NEW table, IsTable(table), NEW hs \in SUBSET Hashes,
         \A h \in hs : Fits(Tx[h].value, IntegerHalf), \A r \in table : r.hash \notin hs
  PROVE  IsTable(table \cup {BoundRow(h) : h \in hs})
<1> DEFINE new == {BoundRow(h) : h \in hs}
<1>1. \A r \in new : IsRow(r) /\ r.hash \in hs
  BY RowIs DEF BoundRow, IsRow
<1>2. \A q, r \in new : q.hash = r.hash => q = r
  BY RowIs DEF BoundRow
<1>3. IsFiniteSet(new)
  <2> DEFINE f == [h \in hs |-> BoundRow(h)]
  <2>1. IsFiniteSet(hs)
    BY BackendAssumption, FS_Subset
  <2>2. f \in Surjection(hs, new)
    BY DEF Surjection
  <2> HIDE DEF f, new
  <2> QED BY <2>1, <2>2, FS_Surjection
<1> HIDE DEF new
<1>4. IsFiniteSet(table \cup new)
  BY <1>3, FS_Union DEF IsTable
<1>5. \A r \in table \cup new : IsRow(r)
  BY <1>1 DEF IsTable
<1>6. \A q, r \in table \cup new : q.hash = r.hash => q = r
  BY <1>1, <1>2 DEF IsTable
<1>7. IsTable(table \cup new)
  BY <1>4, <1>5, <1>6 DEF IsTable
<1> QED BY <1>7 DEF new

LEMMA DeletedTable ==
  ASSUME NEW table, IsTable(table), NEW hs
  PROVE  IsTable({r \in table : r.hash \notin hs})
<1> DEFINE new == {r \in table : r.hash \notin hs}
<1>1. new \in SUBSET table
  OBVIOUS
<1> HIDE DEF new
<1>2. IsFiniteSet(new)
  BY <1>1, FS_Subset DEF IsTable
<1>3. IsTable(new)
  BY <1>1, <1>2 DEF IsTable
<1> QED BY <1>3 DEF new

(* An UPDATE gives every row its image, of the same hash.                  *)
LEMMA UpdatedTable ==
  ASSUME NEW table, IsTable(table), NEW f, f = [r \in table |-> f[r]],
         \A r \in table : IsRow(f[r]) /\ f[r].hash = r.hash
  PROVE  IsTable({f[r] : r \in table})
<1> DEFINE new == {f[r] : r \in table}
<1>1. f \in Surjection(table, new)
  BY DEF Surjection
<1>2. IsFiniteSet(new)
  <2> HIDE DEF new
  <2> QED BY <1>1, FS_Surjection DEF IsTable
<1>3. \A q, r \in new : q.hash = r.hash => q = r
  BY DEF IsTable
<1> QED BY <1>2, <1>3 DEF IsTable

SolidSet(table, hs) == {IF r.hash \in hs THEN [r EXCEPT !.solid = 1] ELSE r : r \in table}
SnapshotSet(table, hs, i) == {IF r.hash \in hs THEN [r EXCEPT !.snapshot = i] ELSE r : r \in table}

LEMMA MarkedTable ==
  ASSUME NEW table, IsTable(table), NEW hs, NEW i \in Indexes \cup {0}
  PROVE  IsTable(SolidSet(table, hs)) /\ IsTable(SnapshotSet(table, hs, i))
<1> DEFINE f == [r \in table |-> IF r.hash \in hs THEN [r EXCEPT !.solid = 1] ELSE r]
           g == [r \in table |-> IF r.hash \in hs THEN [r EXCEPT !.snapshot = i] ELSE r]
<1>1. ASSUME NEW r \in table
      PROVE  IsRow(f[r]) /\ f[r].hash = r.hash /\ IsRow(g[r]) /\ g[r].hash = r.hash
  <2>1. PICK h \in Hashes, s \in {0, 1}, j \in Indexes \cup {0} :
           r = RowWith(h, s, j) /\ Fits(Tx[h].value, IntegerHalf)
    BY DEF IsTable, IsRow
  <2>2. r.hash = h /\ f[r] \in {RowWith(h, 1, j), r} /\ g[r] \in {RowWith(h, s, i), r}
    <3>1. r.hash = h /\ [r EXCEPT !.solid = 1] = RowWith(h, 1, j) /\ [r EXCEPT !.snapshot = i] = RowWith(h, s, i)
      BY <2>1, RowIs
    <3> QED BY <3>1
  <2> HIDE DEF f, g
  <2>3. RowWith(h, 1, j).hash = h /\ RowWith(h, s, i).hash = h
    BY RowIs
  <2>4. IsRow(RowWith(h, 1, j)) /\ IsRow(RowWith(h, s, i)) /\ IsRow(r)
    BY <2>1 DEF IsRow, IsTable
  <2> QED BY <2>2, <2>3, <2>4
<1>2. {f[r] : r \in table} = SolidSet(table, hs) /\ {g[r] : r \in table} = SnapshotSet(table, hs, i)
  BY DEF SolidSet, SnapshotSet
<1>3. f = [r \in table |-> f[r]] /\ g = [r \in table |-> g[r]]
  OBVIOUS
<1> HIDE DEF f, g
<1>4. IsTable({f[r] : r \in table})
  BY <1>1, <1>3, UpdatedTable
<1>5. IsTable({g[r] : r \in table})
  BY <1>1, <1>3, UpdatedTable
<1> QED BY <1>2, <1>4, <1>5

(* What the statements do to the table.                                    *)
LEMMA InsertedRows ==
  ASSUME RowsOK, NEW hs \in SUBSET Hashes,
         IF Insertable(hs) THEN rows' \in Arranged(Table \cup {BoundRow(h) : h \in hs}) ELSE UNCHANGED rows
  PROVE  /\ RowsOK'
         /\ Insertable(hs) => Table' = Table \cup {BoundRow(h) : h \in hs}
         /\ ~Insertable(hs) => Table' = Table
<1>1. CASE Insertable(hs)
  <2>1. /\ \A h \in hs : Fits(Tx[h].value, IntegerHalf)
        /\ \A r \in Table : r.hash \notin hs
    BY <1>1, TableIs DEF Insertable
  <2> DEFINE new == Table \cup {BoundRow(h) : h \in hs}
  <2>2. IsTable(new)
    BY <2>1, TableIs, InsertedTable
  <2>3. rows' \in Arranged(new)
    BY <1>1
  <2> HIDE DEF new
  <2>4. RowsOK' /\ Table' = new
    BY <2>2, <2>3, RearrangedOK
  <2> QED BY <1>1, <2>4 DEF new
<1>2. CASE ~Insertable(hs)
  BY <1>2 DEF RowsOK, Table
<1> QED BY <1>1, <1>2

LEMMA MarkedRows ==
  ASSUME RowsOK, NEW hs
  PROVE  /\ sqlx_set_solid(hs) => RowsOK' /\ Table' = SolidSet(Table, hs)
         /\ \A i \in Indexes : sqlx_set_snapshot_index(hs, i) =>
              RowsOK' /\ Table' = SnapshotSet(Table, hs, i)
<1>1. IsTable(Table)
  BY TableIs
<1>2. ASSUME sqlx_set_solid(hs)
      PROVE  RowsOK' /\ Table' = SolidSet(Table, hs)
  <2>1. IsTable(SolidSet(Table, hs))
    <3>1. 0 \in Indexes \cup {0}
      OBVIOUS
    <3> QED BY <1>1, <3>1, MarkedTable
  <2>2. rows' \in Arranged(SolidSet(Table, hs))
    BY <1>2 DEF sqlx_set_solid, SolidSet
  <2> QED BY <2>1, <2>2, RearrangedOK
<1>3. ASSUME NEW i \in Indexes, sqlx_set_snapshot_index(hs, i)
      PROVE  RowsOK' /\ Table' = SnapshotSet(Table, hs, i)
  <2>1. IsTable(SnapshotSet(Table, hs, i))
    BY <1>1, MarkedTable
  <2>2. rows' \in Arranged(SnapshotSet(Table, hs, i))
    BY <1>3 DEF sqlx_set_snapshot_index, SnapshotSet
  <2> QED BY <2>1, <2>2, RearrangedOK
<1> QED BY <1>2, <1>3

LEMMA DeletedRows ==
  ASSUME RowsOK, NEW hs, sqlx_delete_transactions(hs)
  PROVE  RowsOK' /\ Table' = {r \in Table : r.hash \notin hs}
<1> DEFINE new == {r \in Table : r.hash \notin hs}
<1>1. IsTable(new)
  BY TableIs, DeletedTable
<1>2. rows' \in Arranged(new)
  BY DEF sqlx_delete_transactions
<1> HIDE DEF new
<1>3. RowsOK' /\ Table' = new
  BY <1>1, <1>2, RearrangedOK
<1> QED BY <1>3 DEF new

LEMMA RowsKept ==
  ASSUME RowsOK, StorageNext
  PROVE  RowsOK'
<1>1. ASSUME NEW h \in Hashes, insert_transaction(h) PROVE RowsOK'
  <2>1. IF Insertable({h}) THEN rows' \in Arranged(Table \cup {BoundRow(h)}) ELSE UNCHANGED rows
    BY <1>1 DEF insert_transaction, sqlx_insert_transaction
  <2>2. {BoundRow(g) : g \in {h}} = {BoundRow(h)} /\ {h} \in SUBSET Hashes
    OBVIOUS
  <2> QED BY <2>1, <2>2, InsertedRows
<1>2. ASSUME NEW hs \in SUBSET Hashes, insert_transactions(hs) PROVE RowsOK'
  <2>1. IF Insertable(hs) THEN rows' \in Arranged(Table \cup {BoundRow(h) : h \in hs}) ELSE UNCHANGED rows
    BY <1>2 DEF insert_transactions, sqlx_insert_transactions
  <2> QED BY <2>1, InsertedRows
<1>3. ASSUME NEW hs, update_transactions_set_solid(hs) PROVE RowsOK'
  BY <1>3, MarkedRows DEF update_transactions_set_solid
<1>4. ASSUME NEW hs, NEW i \in Indexes, update_transactions_set_snapshot_index(hs, i) PROVE RowsOK'
  BY <1>4, MarkedRows DEF update_transactions_set_snapshot_index
<1>5. ASSUME NEW hs, delete_transactions(hs) PROVE RowsOK'
  BY <1>5, DeletedRows DEF delete_transactions
<1>6. ASSUME UNCHANGED rows PROVE RowsOK'
  BY <1>6 DEF RowsOK
<1>7. ASSUME NEW h, NEW i, insert_milestone(h, i) PROVE RowsOK'
  BY <1>6, <1>7 DEF insert_milestone, sqlx_insert_milestone
<1>8. ASSUME NEW hs, delete_milestones(hs) PROVE RowsOK'
  BY <1>6, <1>8 DEF delete_milestones, sqlx_delete_milestones
<1>9. ASSUME NEW d, NEW i, insert_state_delta(d, i) PROVE RowsOK'
  BY <1>6, <1>9 DEF insert_state_delta, sqlx_insert_state_delta
<1>10. CASE map_to_approvers
  BY <1>6, <1>10 DEF map_to_approvers, sqlx_map_begin, sqlx_map_page, sqlx_map_return
<1>11. CASE Restart
  BY <1>6, <1>11 DEF Restart
<1>12. CASE FlushSome
  BY <1>6, <1>12 DEF FlushSome
<1> QED
  BY <1>1, <1>2, <1>3, <1>4, <1>5, <1>7, <1>8, <1>9, <1>10, <1>11, <1>12 DEF StorageNext

-----------------------------------------------------------------------------
(* The paged scans.                                                        *)
LEMMA PageIs ==
  ASSUME RowsOK, NEW start \in Nat, start <= Len(rows)
  PROVE  /\ PageEnd(start) \in start..Len(rows)
         /\ Len(Page(start)) = PageEnd(start) - start
         /\ DOMAIN Page(start) = 1..(PageEnd(start) - start)
         /\ \A k \in 1..(PageEnd(start) - start) : Page(start)[k] = rows[start + k]
         /\ PageEnd(start) = start + MAX_RECORDS_AT_ONCE \/
              (PageEnd(start) = Len(rows) /\ PageEnd(start) < start + MAX_RECORDS_AT_ONCE)
<1>1. rows \in Seq(Table) /\ Len(rows) \in Nat /\ \A k \in 1..Len(rows) : rows[k] \in Table
  BY DEF RowsOK, Table
<1>2. MAX_RECORDS_AT_ONCE \in Nat /\ MAX_RECORDS_AT_ONCE > 0
  BY SqlxAssumption
<1> DEFINE end == PageEnd(start)
<1>3. /\ end \in start..Len(rows)
      /\ end = start + MAX_RECORDS_AT_ONCE \/ (end = Len(rows) /\ end < start + MAX_RECORDS_AT_ONCE)
  BY <1>1, <1>2 DEF PageEnd
<1> HIDE DEF end
<1>4. /\ SubSeq(rows, start + 1, end) \in Seq(Table)
      /\ Len(SubSeq(rows, start + 1, end)) = end - start
      /\ \A k \in 1..(end - start) : SubSeq(rows, start + 1, end)[k] = rows[start + k]
  BY <1>1, <1>3
<1>5. DOMAIN SubSeq(rows, start + 1, end) = 1..(end - start)
  BY <1>4
<1> QED BY <1>3, <1>4, <1>5 DEF Page, end

LEMMA PagesOK ==
  ASSUME RowsOK, ScanOK, sqlx_map_page
  PROVE  ScanOK'
<1>1. /\ scan.at = "reading" /\ scan.start \in Nat /\ rows' = rows
      /\ scan = [at |-> scan.at, start |-> scan.start, found |-> scan.found,
                 known |-> scan.known, quiet |-> scan.quiet]
  BY DEF ScanOK, sqlx_map_page
<1> DEFINE page == Page(scan.start)
           read == {p \in UNION {Pairs(page[k]) : k \in DOMAIN page} : p[1] \notin scan.known}
           next == IF Len(page) < MAX_RECORDS_AT_ONCE THEN "done" ELSE "reading"
<1>2. scan' = [at |-> next, start |-> scan.start + MAX_RECORDS_AT_ONCE, found |-> scan.found \cup read,
               known |-> scan.known, quiet |-> scan.quiet]
  <2>1. scan' = [scan EXCEPT !.found = @ \cup read, !.start = @ + MAX_RECORDS_AT_ONCE, !.at = next]
    BY DEF sqlx_map_page
  <2> HIDE DEF read, next
  <2> QED BY <1>1, <2>1
<1>3. next \in {"reading", "done"} /\ scan.start + MAX_RECORDS_AT_ONCE \in Nat
  BY <1>1, SqlxAssumption
<1>4. ASSUME scan.quiet
      PROVE  /\ next = "reading" =>
                  /\ scan.start + MAX_RECORDS_AT_ONCE <= Len(rows)
                  /\ scan.found \cup read = {p \in UNION {Pairs(rows[k]) : k \in 1..(scan.start + MAX_RECORDS_AT_ONCE)} :
                                               p[1] \notin scan.known}
             /\ next = "done" => scan.found \cup read = {p \in SqlApprovers : p[1] \notin scan.known}
  <2> DEFINE start == scan.start
             end == PageEnd(start)
             Known(p) == p[1] \in scan.known
  <2>1. /\ start <= Len(rows) /\ start \in Nat /\ Len(rows) \in Nat
        /\ scan.found = {p \in UNION {Pairs(rows[k]) : k \in 1..start} : ~Known(p)}
    BY <1>1, <1>4 DEF ScanOK, RowsOK
  <2>2. /\ end \in start..Len(rows)
        /\ Len(page) = end - start
        /\ DOMAIN page = 1..(end - start)
        /\ \A k \in 1..(end - start) : page[k] = rows[start + k]
        /\ end = start + MAX_RECORDS_AT_ONCE \/ (end = Len(rows) /\ end < start + MAX_RECORDS_AT_ONCE)
    BY <2>1, PageIs
  <2> HIDE DEF page, end
  <2>3. read = {p \in UNION {Pairs(rows[k]) : k \in (start + 1)..end} : ~Known(p)}
    <3> SUFFICES UNION {Pairs(page[k]) : k \in DOMAIN page} = UNION {Pairs(rows[k]) : k \in (start + 1)..end}
      OBVIOUS
    <3>1. \A k \in DOMAIN page : start + k \in (start + 1)..end /\ page[k] = rows[start + k]
      BY <2>1, <2>2
    <3>2. \A k \in (start + 1)..end : k - start \in DOMAIN page /\ page[k - start] = rows[k]
      BY <2>1, <2>2
    <3> QED BY <3>1, <3>2
  <2>4. scan.found \cup read = {p \in UNION {Pairs(rows[k]) : k \in 1..end} : ~Known(p)}
    <3>1. 1..end = (1..start) \cup ((start + 1)..end)
      BY <2>1, <2>2
    <3> HIDE DEF start, Known, read
    <3> QED BY <2>1, <2>3, <3>1
  <2>5. MAX_RECORDS_AT_ONCE \in Nat
    BY SqlxAssumption
  <2>6. CASE end = start + MAX_RECORDS_AT_ONCE
    <3>1. next = "reading" /\ start + MAX_RECORDS_AT_ONCE <= Len(rows)
      BY <2>1, <2>2, <2>5, <2>6
    <3> HIDE DEF next, read
    <3> QED BY <2>4, <2>6, <3>1
  <2>7. CASE end = Len(rows) /\ end < start + MAX_RECORDS_AT_ONCE
    <3>1. next = "done"
      BY <2>1, <2>2, <2>5, <2>7
    <3> HIDE DEF next, read
    <3> QED BY <2>4, <2>7, <3>1 DEF SqlApprovers
  <2> QED BY <2>2, <2>6, <2>7
<1> HIDE DEF next, read
<1> QED BY <1>1, <1>2, <1>3, <1>4 DEF ScanOK, SqlApprovers

LEMMA ScanKept ==
  ASSUME RowsOK, ScanOK, StorageNext
  PROVE  ScanOK'
<1>1. ASSUME Disturbed PROVE ScanOK'
  <2>1. scan' = [at |-> scan.at, start |-> scan.start, found |-> scan.found,
                 known |-> scan.known, quiet |-> FALSE]
    BY <1>1 DEF ScanOK, Disturbed
  <2> QED BY <2>1 DEF ScanOK
<1>2. ASSUME UNCHANGED <<rows, scan>> PROVE ScanOK'
  BY <1>2 DEF ScanOK, SqlApprovers
<1>3. ASSUME NEW known, sqlx_map_begin(known) PROVE ScanOK'
  <2>1. scan' = [at |-> "reading", start |-> 0, found |-> {}, known |-> known, quiet |-> TRUE] /\ rows' = rows
    BY <1>3 DEF sqlx_map_begin, Idle
  <2>2. Len(rows) \in Nat
    BY DEF RowsOK
  <2>3. {} = {p \in UNION {Pairs(rows[k]) : k \in 1..0} : p[1] \notin known}
    OBVIOUS
  <2> QED BY <2>1, <2>2, <2>3 DEF ScanOK
<1>4. ASSUME scan' = Idle PROVE ScanOK'
  BY <1>4 DEF ScanOK, Idle
<1>5. CASE map_to_approvers
  <2>1. \/ \E known \in SUBSET Hashes : sqlx_map_begin(known)
        \/ sqlx_map_page
        \/ sqlx_map_return
    BY <1>5 DEF map_to_approvers
  <2>2. sqlx_map_return => scan' = Idle
    BY DEF sqlx_map_return
  <2> QED BY <1>3, <1>4, <2>1, <2>2, PagesOK
<1>6. CASE Restart
  BY <1>4, <1>6 DEF Restart
<1>7. CASE FlushSome
  BY <1>2, <1>7 DEF FlushSome
<1>8. ASSUME NEW h, insert_transaction(h) PROVE ScanOK'
  BY <1>1, <1>8 DEF insert_transaction, sqlx_insert_transaction
<1>9. ASSUME NEW hs, insert_transactions(hs) PROVE ScanOK'
  BY <1>1, <1>9 DEF insert_transactions, sqlx_insert_transactions
<1>10. ASSUME NEW hs, update_transactions_set_solid(hs) PROVE ScanOK'
  BY <1>1, <1>10 DEF update_transactions_set_solid, sqlx_set_solid
<1>11. ASSUME NEW hs, NEW i, update_transactions_set_snapshot_index(hs, i) PROVE ScanOK'
  BY <1>1, <1>11 DEF update_transactions_set_snapshot_index, sqlx_set_snapshot_index
<1>12. ASSUME NEW hs, delete_transactions(hs) PROVE ScanOK'
  BY <1>1, <1>12 DEF delete_transactions, sqlx_delete_transactions
<1>13. ASSUME NEW h, NEW i, insert_milestone(h, i) PROVE ScanOK'
  BY <1>2, <1>13 DEF insert_milestone, sqlx_insert_milestone
<1>14. ASSUME NEW hs, delete_milestones(hs) PROVE ScanOK'
  BY <1>2, <1>14 DEF delete_milestones, sqlx_delete_milestones
<1>15. ASSUME NEW d, NEW i, insert_state_delta(d, i) PROVE ScanOK'
  BY <1>2, <1>15 DEF insert_state_delta, sqlx_insert_state_delta
<1> QED
  BY <1>5, <1>6, <1>7, <1>8, <1>9, <1>10, <1>11, <1>12, <1>13, <1>14, <1>15 DEF StorageNext

-----------------------------------------------------------------------------
(* Before a crash: the same transactions, approvees and marks.             *)
Found(snapshot, h) == {p[2] : p \in {q \in snapshot : q[1] = h}}
Marked(h, r, solid, snapshot) ==
  /\ (r.solid = 1) <=> h \in Keys(solid)
  /\ IF h \in Keys(snapshot) THEN Found(snapshot, h) = {r.snapshot} ELSE r.snapshot = 0
Marks(h, table, solid, snapshot) ==
  IF \E r \in table : r.hash = h
  THEN \A r \in table : r.hash = h => Marked(h, r, solid, snapshot)
  ELSE h \notin Keys(solid) /\ h \notin Keys(snapshot)
Alike(table, db, strict, odds) ==
  LET stored == {r.hash : r \in table}
  IN  /\ stored \subseteq Keys(db["transaction"]) /\ (strict => stored = Keys(db["transaction"]))
      /\ \A h \in stored : Approvees(h) \in db["aprovees"]
      /\ \A h \in Hashes \ odds : Marks(h, table, db["solid"], db["snapshot"])

LEMMA StoredIs ==
  /\ StoredOK <=> (~crashed => Alike(Table, mem, ~refused, odd))
  /\ StoredOK' <=> (~crashed' => Alike(Table', mem', ~refused', odd'))
<1>1. \A h : MarksAgree(h) <=> Marks(h, Table, mem["solid"], mem["snapshot"])
  BY DEF MarksAgree, Marks, Marked, Found, get_cf, Stored, Table
<1>2. \A h : MarksAgree(h)' <=> Marks(h, Table', mem'["solid"], mem'["snapshot"])
  BY DEF MarksAgree, Marks, Marked, Found, get_cf, Stored, Table
<1>3. /\ Stored = {r.hash : r \in Table} /\ Stored' = {r.hash : r \in Table'}
      /\ RocksStored = Keys(mem["transaction"]) /\ RocksStored' = Keys(mem'["transaction"])
  BY DEF Stored, Table, RocksStored, Keys
<1>4. StoredOK <=> (~crashed => Alike(Table, mem, ~refused, odd))
  BY <1>1, <1>3 DEF StoredOK, Alike
<1>5. StoredOK' <=> (~crashed' => Alike(Table', mem', ~refused', odd'))
  BY <1>2, <1>3 DEF StoredOK, Alike
<1> QED BY <1>4, <1>5

(* A batch of transactions, of which the SQL side takes all or none.       *)
LEMMA AlikeInserted ==
  ASSUME NEW table, NEW db, NEW strict, NEW odds, Alike(table, db, strict, odds),
         NEW hs \in SUBSET Hashes, NEW new,
         new["transaction"] = Over(db["transaction"], {<<h, Tx[h]>> : h \in hs}),
         new["aprovees"] = Over(db["aprovees"], {Approvees(h) : h \in hs}),
         new["solid"] = db["solid"], new["snapshot"] = db["snapshot"]
  PROVE  /\ Alike(table, new, FALSE, odds)
         /\ (\A r \in table : r.hash \notin hs) =>
              Alike(table \cup {BoundRow(h) : h \in hs}, new, strict, odds)
<1> DEFINE stored == {r.hash : r \in table}
           bound == {BoundRow(h) : h \in hs}
<1>1. /\ stored \subseteq Keys(db["transaction"]) /\ (strict => stored = Keys(db["transaction"]))
      /\ \A h \in stored : Approvees(h) \in db["aprovees"]
      /\ \A h \in Hashes \ odds : Marks(h, table, db["solid"], db["snapshot"])
  BY DEF Alike
<1>2. Keys(new["transaction"]) = Keys(db["transaction"]) \cup hs
  <2> DEFINE txs == {<<h, Tx[h]>> : h \in hs}
  <2>1. Keys(txs) = hs /\ new["transaction"] = Over(db["transaction"], txs)
    BY KeysOf
  <2> HIDE DEF txs
  <2> QED BY <2>1, OverKeys
<1>3. \A h \in stored \cup hs : Approvees(h) \in new["aprovees"]
  <2> DEFINE apps == {Approvees(h) : h \in hs}
  <2>1. Keys(apps) = hs /\ new["aprovees"] = Over(db["aprovees"], apps) /\ \A h \in hs : Approvees(h) \in apps
    BY KeysOf
  <2> HIDE DEF apps
  <2>2. \A h : Approvees(h)[1] = h
    BY DEF Approvees
  <2> QED BY <1>1, <2>1, <2>2, OverKeys
<1>4. Alike(table, new, FALSE, odds)
  BY <1>1, <1>2, <1>3 DEF Alike
<1>5. ASSUME \A r \in table : r.hash \notin hs
      PROVE  Alike(table \cup bound, new, strict, odds)
  <2>1. \A r \in bound : r.hash \in hs /\ r.solid = 0 /\ r.snapshot = 0
    BY RowIs DEF BoundRow
  <2>2. \A h \in hs : \E r \in bound : r.hash = h
    <3>1. \A h \in hs : BoundRow(h) \in bound /\ BoundRow(h).hash = h
      BY RowIs DEF BoundRow
    <3> HIDE DEF bound
    <3> QED BY <3>1
  <2>3. {r.hash : r \in table \cup bound} = stored \cup hs
    <3> HIDE DEF bound
    <3> QED BY <2>1, <2>2
  <2> HIDE DEF bound
  <2>4. ASSUME NEW h \in Hashes \ odds
        PROVE  Marks(h, table \cup bound, db["solid"], db["snapshot"])
    <3>1. Marks(h, table, db["solid"], db["snapshot"])
      BY <1>1
    <3>2. CASE h \in hs
      <4>1. h \notin Keys(db["solid"]) /\ h \notin Keys(db["snapshot"])
        BY <1>5, <3>1, <3>2 DEF Marks
      <4>2. \A r \in table \cup bound : r.hash = h => r.solid = 0 /\ r.snapshot = 0
        BY <1>5, <2>1, <3>2
      <4> QED BY <2>2, <3>2, <4>1, <4>2 DEF Marks, Marked
    <3>3. CASE h \notin hs
      BY <2>1, <3>1, <3>3 DEF Marks
    <3> QED BY <3>2, <3>3
  <2> QED BY <1>1, <1>2, <1>3, <2>3, <2>4 DEF Alike
<1> QED BY <1>4, <1>5

LEMMA AlikeSolid ==
  ASSUME NEW table, IsTable(table), NEW db, NEW strict, NEW odds, Alike(table, db, strict, odds), NEW hs, NEW new,
         new["solid"] = Over(db["solid"], {<<h, TRUE>> : h \in hs}),
         Same(new, db, {"solid"})
  PROVE  Alike(SolidSet(table, hs), new, strict, odds \cup (hs \ {r.hash : r \in table}))
<1> DEFINE stored == {r.hash : r \in table}
<1>1. /\ new["transaction"] = db["transaction"] /\ new["aprovees"] = db["aprovees"]
      /\ new["snapshot"] = db["snapshot"]
  BY DEF Same, ColumnFamilies
<1>2. Keys(new["solid"]) = Keys(db["solid"]) \cup hs
  <2> DEFINE pairs == {<<h, TRUE>> : h \in hs}
  <2>1. Keys(pairs) = hs /\ new["solid"] = Over(db["solid"], pairs)
    BY KeysOf
  <2> HIDE DEF pairs
  <2> QED BY <2>1, OverKeys
<1>3. ASSUME NEW r \in table
      PROVE  LET q == IF r.hash \in hs THEN [r EXCEPT !.solid = 1] ELSE r
             IN  /\ q.hash = r.hash /\ q.snapshot = r.snapshot
                 /\ q.solid = IF r.hash \in hs THEN 1 ELSE r.solid
  <2>1. PICK h \in Hashes, s \in {0, 1}, j \in Indexes \cup {0} : r = RowWith(h, s, j)
    BY DEF IsTable, IsRow
  <2> QED BY <2>1 DEF RowWith
<1>4. /\ \A q \in SolidSet(table, hs) : \E r \in table :
            /\ q.hash = r.hash /\ q.snapshot = r.snapshot
            /\ q.solid = IF r.hash \in hs THEN 1 ELSE r.solid
      /\ \A r \in table : \E q \in SolidSet(table, hs) : q.hash = r.hash
  BY <1>3 DEF SolidSet
<1>5. {q.hash : q \in SolidSet(table, hs)} = stored
  BY <1>4
<1>6. ASSUME NEW h \in Hashes \ (odds \cup (hs \ stored))
      PROVE  Marks(h, SolidSet(table, hs), new["solid"], new["snapshot"])
  <2>1. Marks(h, table, db["solid"], db["snapshot"])
    BY DEF Alike
  <2>2. CASE h \in stored
    <3>1. ASSUME NEW q \in SolidSet(table, hs), q.hash = h
          PROVE  Marked(h, q, new["solid"], new["snapshot"])
      <4>1. PICK r \in table : /\ q.hash = r.hash /\ q.snapshot = r.snapshot
                               /\ q.solid = IF r.hash \in hs THEN 1 ELSE r.solid
        BY <1>4
      <4>2. Marked(h, r, db["solid"], db["snapshot"])
        BY <2>1, <3>1, <4>1 DEF Marks
      <4> QED BY <1>1, <1>2, <3>1, <4>1, <4>2 DEF Marked
    <3>2. \E q \in SolidSet(table, hs) : q.hash = h
      BY <1>5, <2>2
    <3> QED BY <3>1, <3>2 DEF Marks
  <2>3. CASE h \notin stored
    <3>1. h \notin hs /\ h \notin Keys(db["solid"]) /\ h \notin Keys(db["snapshot"])
      BY <2>1, <2>3 DEF Marks
    <3>2. ~\E q \in SolidSet(table, hs) : q.hash = h
      BY <1>5, <2>3
    <3> QED BY <1>1, <1>2, <3>1, <3>2 DEF Marks
  <2> QED BY <2>2, <2>3
<1> QED BY <1>1, <1>5, <1>6 DEF Alike

LEMMA AlikeSnapshot ==
  ASSUME NEW table, IsTable(table), NEW db, NEW strict, NEW odds, Alike(table, db, strict, odds), NEW hs,
         NEW i, NEW new,
         new["snapshot"] = Over(db["snapshot"], {<<h, i>> : h \in hs}),
         Same(new, db, {"snapshot"})
  PROVE  Alike(SnapshotSet(table, hs, i), new, strict, odds \cup (hs \ {r.hash : r \in table}))
<1> DEFINE stored == {r.hash : r \in table}
           pairs == {<<h, i>> : h \in hs}
<1>1. /\ new["transaction"] = db["transaction"] /\ new["aprovees"] = db["aprovees"]
      /\ new["solid"] = db["solid"]
  BY DEF Same, ColumnFamilies
<1>2. Keys(new["snapshot"]) = Keys(db["snapshot"]) \cup hs
  <2>1. Keys(pairs) = hs /\ new["snapshot"] = Over(db["snapshot"], pairs)
    BY KeysOf
  <2> HIDE DEF pairs
  <2> QED BY <2>1, OverKeys
<1>3. ASSUME NEW h
      PROVE  Found(new["snapshot"], h) = IF h \in hs THEN {i} ELSE Found(db["snapshot"], h)
  <2>1. Keys(pairs) = hs /\ new["snapshot"] = Over(db["snapshot"], pairs)
    BY KeysOf
  <2>2. \A p \in pairs : p[2] = i
    OBVIOUS
  <2>3. \A g \in hs : <<g, i>> \in pairs /\ <<g, i>>[1] = g /\ <<g, i>>[2] = i
    OBVIOUS
  <2>4. /\ \A p \in pairs : p[1] \in hs
        /\ \A p \in Over(db["snapshot"], pairs) : p \in pairs \/ (p \in db["snapshot"] /\ p[1] \notin hs)
        /\ \A p \in pairs : p \in Over(db["snapshot"], pairs)
        /\ \A p \in db["snapshot"] : p[1] \notin hs => p \in Over(db["snapshot"], pairs)
    <3>1. \A p \in pairs : p[1] \in hs
      OBVIOUS
    <3> HIDE DEF pairs
    <3> QED BY <2>1, <3>1, OverKeys
  <2> HIDE DEF pairs
  <2>5. CASE h \in hs
    <3> DEFINE those == {p \in new["snapshot"] : p[1] = h}
    <3>1. \A p \in those : p[2] = i
      BY <2>1, <2>2, <2>4, <2>5
    <3>2. <<h, i>> \in those
      BY <2>1, <2>3, <2>4, <2>5
    <3> HIDE DEF those
    <3>3. {p[2] : p \in those} = {i}
      BY <2>3, <2>5, <3>1, <3>2
    <3> QED BY <2>5, <3>3 DEF Found, those
  <2>6. CASE h \notin hs
    <3> DEFINE those == {p \in new["snapshot"] : p[1] = h}
               these == {p \in db["snapshot"] : p[1] = h}
    <3>1. those = these
      BY <2>1, <2>4, <2>6
    <3>2. Found(new["snapshot"], h) = {p[2] : p \in those} /\ Found(db["snapshot"], h) = {p[2] : p \in these}
      BY DEF Found
    <3> HIDE DEF those, these
    <3> QED BY <2>6, <3>1, <3>2
  <2> QED BY <2>5, <2>6
<1> HIDE DEF pairs
<1>4. ASSUME NEW r \in table
      PROVE  LET q == IF r.hash \in hs THEN [r EXCEPT !.snapshot = i] ELSE r
             IN  /\ q.hash = r.hash /\ q.solid = r.solid
                 /\ q.snapshot = IF r.hash \in hs THEN i ELSE r.snapshot
  <2>1. PICK h \in Hashes, s \in {0, 1}, j \in Indexes \cup {0} : r = RowWith(h, s, j)
    BY DEF IsTable, IsRow
  <2> QED BY <2>1 DEF RowWith
<1>5. /\ \A q \in SnapshotSet(table, hs, i) : \E r \in table :
            /\ q.hash = r.hash /\ q.solid = r.solid
            /\ q.snapshot = IF r.hash \in hs THEN i ELSE r.snapshot
      /\ \A r \in table : \E q \in SnapshotSet(table, hs, i) : q.hash = r.hash
  BY <1>4 DEF SnapshotSet
<1>6. {q.hash : q \in SnapshotSet(table, hs, i)} = stored
  BY <1>5
<1>7. ASSUME NEW h \in Hashes \ (odds \cup (hs \ stored))
      PROVE  Marks(h, SnapshotSet(table, hs, i), new["solid"], new["snapshot"])
  <2>1. Marks(h, table, db["solid"], db["snapshot"])
    BY DEF Alike
  <2>2. CASE h \in stored
    <3>1. ASSUME NEW q \in SnapshotSet(table, hs, i), q.hash = h
          PROVE  Marked(h, q, new["solid"], new["snapshot"])
      <4>1. PICK r \in table : /\ q.hash = r.hash /\ q.solid = r.solid
                               /\ q.snapshot = IF r.hash \in hs THEN i ELSE r.snapshot
        BY <1>5
      <4>2. Marked(h, r, db["solid"], db["snapshot"])
        BY <2>1, <3>1, <4>1 DEF Marks
      <4> QED BY <1>1, <1>2, <1>3, <3>1, <4>1, <4>2 DEF Marked
    <3>2. \E q \in SnapshotSet(table, hs, i) : q.hash = h
      BY <1>6, <2>2
    <3> QED BY <3>1, <3>2 DEF Marks
  <2>3. CASE h \notin stored
    <3>1. h \notin hs /\ h \notin Keys(db["solid"]) /\ h \notin Keys(db["snapshot"])
      BY <2>1, <2>3 DEF Marks
    <3>2. ~\E q \in SnapshotSet(table, hs, i) : q.hash = h
      BY <1>6, <2>3
    <3> QED BY <1>1, <1>2, <3>1, <3>2 DEF Marks
  <2> QED BY <2>2, <2>3
<1> QED BY <1>1, <1>6, <1>7 DEF Alike

LEMMA AlikeDeleted ==
  ASSUME NEW table, NEW db, NEW strict, NEW odds, Alike(table, db, strict, odds), NEW hs, NEW new,
         new["transaction"] = {p \in db["transaction"] : p[1] \notin hs},
         Same(new, db, {"transaction"})
  PROVE  Alike({r \in table : r.hash \notin hs}, new, strict, odds \cup hs)
<1> DEFINE left == {r \in table : r.hash \notin hs}
<1>1. new["aprovees"] = db["aprovees"] /\ new["solid"] = db["solid"] /\ new["snapshot"] = db["snapshot"]
  BY DEF Same, ColumnFamilies
<1>2. {r.hash : r \in left} = {r.hash : r \in table} \ hs
  OBVIOUS
<1>3. Keys(new["transaction"]) = Keys(db["transaction"]) \ hs
  BY DEF Keys
<1>4. ASSUME NEW h \in Hashes \ (odds \cup hs) PROVE Marks(h, left, db["solid"], db["snapshot"])
  <2>1. Marks(h, table, db["solid"], db["snapshot"])
    BY DEF Alike
  <2> QED BY <2>1 DEF Marks
<1> HIDE DEF left
<1>5. Alike(left, new, strict, odds \cup hs)
  BY <1>1, <1>2, <1>3, <1>4 DEF Alike
<1> QED BY <1>5 DEF left

LEMMA InsertedStored ==
  ASSUME RowsOK, StoredOK, NEW hs \in SUBSET Hashes,
         mem'["transaction"] = Over(mem["transaction"], {<<h, Tx[h]>> : h \in hs}),
         mem'["aprovees"] = Over(mem["aprovees"], {Approvees(h) : h \in hs}),
         mem'["solid"] = mem["solid"], mem'["snapshot"] = mem["snapshot"],
         IF Insertable(hs) THEN rows' \in Arranged(Table \cup {BoundRow(h) : h \in hs}) ELSE UNCHANGED rows,
         refused \in BOOLEAN, refused' = (refused \/ ~Insertable(hs)), UNCHANGED <<odd, crashed>>
  PROVE  StoredOK'
<1> SUFFICES ASSUME ~crashed PROVE Alike(Table', mem', ~refused', odd')
  BY StoredIs
<1>1. Alike(Table, mem, ~refused, odd)
  BY StoredIs
<1> DEFINE bound == {BoundRow(h) : h \in hs}
<1>2. /\ Insertable(hs) => Table' = Table \cup bound
      /\ ~Insertable(hs) => Table' = Table
  BY InsertedRows
<1>3. /\ Alike(Table, mem', FALSE, odd)
      /\ (\A r \in Table : r.hash \notin hs) => Alike(Table \cup bound, mem', ~refused, odd)
  BY <1>1, AlikeInserted
<1> HIDE DEF bound
<1>4. CASE Insertable(hs)
  <2>1. \A r \in Table : r.hash \notin hs
    BY <1>4, TableIs DEF Insertable
  <2>2. refused' = refused /\ odd' = odd /\ Table' = Table \cup bound
    BY <1>2, <1>4
  <2> QED BY <1>3, <2>1, <2>2
<1>5. CASE ~Insertable(hs)
  <2>1. Table' = Table /\ odd' = odd /\ ~refused' = FALSE
    BY <1>2, <1>5
  <2> QED BY <1>3, <2>1
<1> QED BY <1>4, <1>5

LEMMA StoredKept ==
  ASSUME RocksOK, RowsOK, StoredOK, refused \in BOOLEAN, StorageNext
  PROVE  StoredOK'
<1>1. IsDatabase(mem) /\ IsDatabase(disk) /\ IsTable(Table) /\ Stored = {r.hash : r \in Table}
  BY TableIs DEF RocksOK, DatabaseOK
<1>2. ASSUME NEW h \in Hashes, insert_transaction(h) PROVE StoredOK'
  <2>1. /\ rocks_insert_transaction(h) /\ UNCHANGED <<odd, crashed>> /\ refused' = (refused \/ ~Insertable({h}))
        /\ IF Insertable({h}) THEN rows' \in Arranged(Table \cup {BoundRow(h)}) ELSE UNCHANGED rows
    BY <1>2 DEF insert_transaction, sqlx_insert_transaction
  <2>2. /\ mem'["transaction"] = Over(mem["transaction"], {<<h, Tx[h]>>})
        /\ mem'["aprovees"] = Over(mem["aprovees"], {Approvees(h)})
        /\ mem'["solid"] = mem["solid"] /\ mem'["snapshot"] = mem["snapshot"]
    BY <1>1, <2>1, InsertTransactionIs DEF Same, ColumnFamilies
  <2>3. /\ {<<g, Tx[g]>> : g \in {h}} = {<<h, Tx[h]>>} /\ {Approvees(g) : g \in {h}} = {Approvees(h)}
        /\ {BoundRow(g) : g \in {h}} = {BoundRow(h)} /\ {h} \in SUBSET Hashes
    OBVIOUS
  <2> QED BY <2>1, <2>2, <2>3, InsertedStored
<1>3. ASSUME NEW hs \in SUBSET Hashes, insert_transactions(hs) PROVE StoredOK'
  <2>1. /\ rocks_insert_transactions(hs) /\ UNCHANGED <<odd, crashed>> /\ refused' = (refused \/ ~Insertable(hs))
        /\ IF Insertable(hs) THEN rows' \in Arranged(Table \cup {BoundRow(h) : h \in hs}) ELSE UNCHANGED rows
    BY <1>3 DEF insert_transactions, sqlx_insert_transactions
  <2>2. /\ mem'["transaction"] = Over(mem["transaction"], {<<h, Tx[h]>> : h \in hs})
        /\ mem'["aprovees"] = Over(mem["aprovees"], {Approvees(h) : h \in hs})
        /\ Same(mem', mem, {"transaction", "aprovees"})
    BY <1>1, <2>1, InsertTransactionsIs
  <2>3. mem'["solid"] = mem["solid"] /\ mem'["snapshot"] = mem["snapshot"]
    BY <2>2 DEF Same, ColumnFamilies
  <2> QED BY <2>1, <2>2, <2>3, InsertedStored
<1>4. ASSUME NEW hs, update_transactions_set_solid(hs) PROVE StoredOK'
  <2>1. /\ rocks_set_solid(hs) /\ sqlx_set_solid(hs) /\ odd' = odd \cup (hs \ {r.hash : r \in Table})
        /\ UNCHANGED <<refused, crashed>>
    BY <1>1, <1>4 DEF update_transactions_set_solid
  <2>2. Same(mem', mem, {"solid"}) /\ mem'["solid"] = Over(mem["solid"], {<<h, TRUE>> : h \in hs})
    BY <1>1, <2>1, SingleWrites
  <2>3. Table' = SolidSet(Table, hs)
    BY <2>1, MarkedRows
  <2>4. ~crashed => Alike(Table, mem, ~refused, odd)
    BY StoredIs
  <2> DEFINE odds == odd \cup (hs \ {r.hash : r \in Table})
  <2>5. ~crashed => Alike(SolidSet(Table, hs), mem', ~refused, odds)
    BY <1>1, <2>2, <2>4, AlikeSolid
  <2> HIDE DEF odds
  <2>6. ~crashed' => Alike(Table', mem', ~refused', odd')
    BY <2>1, <2>3, <2>5 DEF odds
  <2> QED BY <2>6, StoredIs
<1>5. ASSUME NEW hs, NEW i \in Indexes, update_transactions_set_snapshot_index(hs, i) PROVE StoredOK'
  <2>1. /\ rocks_set_snapshot_index(hs, i) /\ sqlx_set_snapshot_index(hs, i)
        /\ odd' = odd \cup (hs \ {r.hash : r \in Table})
        /\ UNCHANGED <<refused, crashed>>
    BY <1>1, <1>5 DEF update_transactions_set_snapshot_index
  <2>2. Same(mem', mem, {"snapshot"}) /\ mem'["snapshot"] = Over(mem["snapshot"], {<<h, i>> : h \in hs})
    BY <1>1, <2>1, SingleWrites
  <2>3. Table' = SnapshotSet(Table, hs, i)
    BY <2>1, MarkedRows
  <2>4. ~crashed => Alike(Table, mem, ~refused, odd)
    BY StoredIs
  <2> DEFINE odds == odd \cup (hs \ {r.hash : r \in Table})
  <2>5. ~crashed => Alike(SnapshotSet(Table, hs, i), mem', ~refused, odds)
    BY <1>1, <2>2, <2>4, AlikeSnapshot
  <2> HIDE DEF odds
  <2>6. ~crashed' => Alike(Table', mem', ~refused', odd')
    BY <2>1, <2>3, <2>5 DEF odds
  <2> QED BY <2>6, StoredIs
<1>6. ASSUME NEW hs, delete_transactions(hs) PROVE StoredOK'
  <2>1. /\ rocks_delete_transactions(hs) /\ sqlx_delete_transactions(hs) /\ odd' = odd \cup hs
        /\ UNCHANGED <<refused, crashed>>
    BY <1>6 DEF delete_transactions
  <2>2. /\ Same(mem', mem, {"transaction"})
        /\ mem'["transaction"] = {p \in mem["transaction"] : p[1] \notin hs}
    BY <1>1, <2>1, SingleWrites
  <2> DEFINE left == {r \in Table : r.hash \notin hs}
  <2>3. Table' = left
    BY <2>1, DeletedRows
  <2>4. ~crashed => Alike(Table, mem, ~refused, odd)
    BY StoredIs
  <2>5. ~crashed => Alike(left, mem', ~refused, odd \cup hs)
    BY <2>2, <2>4, AlikeDeleted
  <2> HIDE DEF left
  <2>6. ~crashed' => Alike(Table', mem', ~refused', odd')
    BY <2>1, <2>3, <2>5
  <2> QED BY <2>6, StoredIs
<1>7. ASSUME UNCHANGED <<rows, odd, crashed>>, refused' \in BOOLEAN, ~refused' => ~refused,
             mem'["transaction"] = mem["transaction"], mem'["aprovees"] = mem["aprovees"],
             mem'["solid"] = mem["solid"], mem'["snapshot"] = mem["snapshot"]
      PROVE  StoredOK'
  <2>1. Table' = Table
    BY <1>7 DEF Table
  <2>2. ~crashed => Alike(Table, mem, ~refused, odd)
    BY StoredIs
  <2>3. ~crashed' => Alike(Table', mem', ~refused', odd')
    BY <1>7, <2>1, <2>2 DEF Alike
  <2> QED BY <2>3, StoredIs
<1>8. ASSUME NEW h, NEW i, insert_milestone(h, i) PROVE StoredOK'
  <2>1. /\ rocks_insert_milestone(h, i) /\ UNCHANGED <<rows, odd, crashed>>
        /\ refused' = (refused \/ ~MilestoneInsertable(h, i))
    BY <1>8 DEF insert_milestone, sqlx_insert_milestone
  <2>2. Same(mem', mem, {"hash_to_index", "index_to_hash"})
    BY <1>1, <2>1, InsertMilestoneIs
  <2> QED BY <1>7, <2>1, <2>2 DEF Same, ColumnFamilies
<1>9. ASSUME NEW hs, delete_milestones(hs) PROVE StoredOK'
  <2>1. rocks_delete_milestones(hs) /\ UNCHANGED <<rows, odd, crashed, refused>>
    BY <1>9 DEF delete_milestones, sqlx_delete_milestones
  <2>2. Same(mem', mem, {"hash_to_index"})
    BY <1>1, <2>1, SingleWrites
  <2> QED BY <1>7, <2>1, <2>2 DEF Same, ColumnFamilies
<1>10. ASSUME NEW d, NEW i, insert_state_delta(d, i) PROVE StoredOK'
  <2>1. rocks_insert_state_delta(d, i) /\ UNCHANGED <<rows, odd, crashed, refused>>
    BY <1>10 DEF insert_state_delta, sqlx_insert_state_delta
  <2>2. Same(mem', mem, {"delta"})
    BY <1>1, <2>1, SingleWrites
  <2> QED BY <1>7, <2>1, <2>2 DEF Same, ColumnFamilies
<1>11. CASE map_to_approvers
  <2>1. UNCHANGED <<rows, mem, odd, crashed, refused>>
    BY <1>11 DEF map_to_approvers, sqlx_map_begin, sqlx_map_page, sqlx_map_return
  <2> QED BY <1>7, <2>1
<1>12. CASE Restart
  <2>1. crashed'
    BY <1>12 DEF Restart
  <2> QED BY <2>1 DEF StoredOK
<1>13. CASE FlushSome
  <2>1. UNCHANGED <<rows, mem, odd, crashed, refused>>
    BY <1>13 DEF FlushSome, Flush
  <2> QED BY <1>7, <2>1
<1> QED
  BY <1>2, <1>3, <1>4, <1>5, <1>6, <1>8, <1>9, <1>10, <1>11, <1>12, <1>13 DEF StorageNext

-----------------------------------------------------------------------------
(* StorageInv holds initially and every step keeps it, so it is an         *)
(* invariant of the two back ends under the same calls (storage.rs).       *)
THEOREM StorageInductive == StorageSpec => []StorageInv
<1>1. StorageInit => StorageInv
  <2> SUFFICES ASSUME StorageInit PROVE StorageInv
    OBVIOUS
  <2>1. /\ mem = [cf \in ColumnFamilies |-> {}] /\ disk = mem /\ rows = << >> /\ milestones = {} /\ scan = Idle
        /\ refused = FALSE /\ odd = {} /\ logged = {} /\ crashed = FALSE /\ cut = FALSE
    BY DEF StorageInit, establish_connection
  <2>2. RocksOK
    <3>1. \A cf \in ColumnFamilies : mem[cf] = {}
      BY <2>1
    <3>2. mem["transaction"] = {} /\ mem["hash_to_index"] = {}
      BY <3>1 DEF ColumnFamilies
    <3>3. IsDatabase(mem)
      BY <2>1 DEF IsDatabase
    <3>4. DatabaseOK(mem, logged, cut)
      BY <2>1, <3>2, <3>3 DEF DatabaseOK
    <3> QED BY <2>1, <3>4 DEF RocksOK
  <2>3. RowsOK
    BY <2>1 DEF RowsOK
  <2>4. ScanOK
    BY <2>1 DEF ScanOK, Idle
  <2>5. StoredOK
    <3>1. Stored = {} /\ Table = {}
      BY <2>1 DEF Stored, Table
    <3>2. \A cf \in ColumnFamilies : mem[cf] = {}
      BY <2>1
    <3>3. mem["transaction"] = {} /\ mem["solid"] = {} /\ mem["snapshot"] = {}
      BY <3>2 DEF ColumnFamilies
    <3>4. RocksStored = {}
      BY <3>3 DEF RocksStored
    <3> QED BY <3>1, <3>3, <3>4 DEF StoredOK, MarksAgree, Keys
  <2>6. MilestonesOK
    BY <2>1 DEF MilestonesOK, HoldsMilestones
  <2> QED BY <2>1, <2>2, <2>3, <2>4, <2>5, <2>6 DEF StorageInv
<1>2. StorageInv /\ [StorageNext]_storageVars => StorageInv'
  <2> SUFFICES ASSUME StorageInv, [StorageNext]_storageVars PROVE StorageInv'
    OBVIOUS
  <2>1. CASE StorageNext
    <3>1. refused' \in BOOLEAN /\ crashed' \in BOOLEAN
      BY <2>1 DEF StorageInv, StorageNext, insert_transaction, insert_transactions, update_transactions_set_solid,
         update_transactions_set_snapshot_index, delete_transactions, insert_milestone, delete_milestones,
         insert_state_delta, map_to_approvers, Restart, FlushSome
    <3> QED BY <2>1, <3>1, RocksKept, RowsKept, ScanKept, StoredKept, MilestonesKept DEF StorageInv
  <2>2. CASE UNCHANGED storageVars
    <3>1. UNCHANGED <<mem, disk, rows, milestones, scan, refused, odd, logged, crashed, cut>>
      BY <2>2 DEF storageVars
    <3>2. RocksOK' /\ RowsOK' /\ ScanOK' /\ MilestonesOK'
      BY <3>1 DEF StorageInv, RocksOK, RowsOK, ScanOK, SqlApprovers, MilestonesOK
    <3>3. StoredOK'
      BY <3>1, StoredIs DEF StorageInv, Table
    <3> QED BY <3>1, <3>2, <3>3 DEF StorageInv
  <2> QED BY <2>1, <2>2
<1> QED BY <1>1, <1>2, PTL DEF StorageSpec

-----------------------------------------------------------------------------
(* What StorageInv says of the answers.  A list of stored hashes in heap   *)
(* order is answered by the row of each of its hashes.                     *)
LEMMA RowOfIs ==
  ASSUME RowsOK, NEW h \in Stored
  PROVE  /\ RowOf(h) \in 1..Len(rows) /\ rows[RowOf(h)].hash = h
         /\ \A k \in 1..Len(rows) : rows[k].hash = h => k = RowOf(h)
<1>1. \E k \in 1..Len(rows) : rows[k].hash = h
  BY DEF Stored
<1>2. RowOf(h) \in 1..Len(rows) /\ rows[RowOf(h)].hash = h
  BY <1>1 DEF RowOf
<1> QED BY <1>2 DEF RowsOK

Lists(f, n, M) ==
  /\ {f[k] : k \in 1..n} = M
  /\ \A k \in 1..n : f[k] \in Nat
  /\ \A j, k \in 1..n : j < k => f[j] < f[k]

LEMMA UpToIs ==
  ASSUME NEW n \in Nat, NEW f, NEW M, Lists(f, n, M), NEW k \in 1..n
  PROVE  Cardinality({m \in M : m <= f[k]}) = k /\ IsFiniteSet(M) /\ Cardinality(M) = n
<1>1. /\ {f[j] : j \in 1..n} = M
      /\ \A j \in 1..n : f[j] \in Nat
      /\ \A i, j \in 1..n : i < j => f[i] < f[j]
  BY DEF Lists
<1>2. ASSUME NEW c \in 0..n
      PROVE  LET S == {f[j] : j \in 1..c} IN IsFiniteSet(S) /\ Cardinality(S) = c
  <2> DEFINE S == {f[j] : j \in 1..c}
             g == [j \in 1..c |-> f[j]]
  <2>1. 1..c \subseteq 1..n /\ c \in Nat
    OBVIOUS
  <2>2. \A i, j \in 1..c : f[i] = f[j] => i = j
    <3> SUFFICES ASSUME NEW i \in 1..c, NEW j \in 1..c, f[i] = f[j], i # j PROVE FALSE
      OBVIOUS
    <3>1. i \in 1..n /\ j \in 1..n /\ (i < j \/ j < i)
      BY <2>1
    <3>2. f[i] \in Nat /\ f[j] \in Nat /\ (f[i] < f[j] \/ f[j] < f[i])
      BY <1>1, <3>1
    <3> QED BY <3>2
  <2>3. g \in Surjection(1..c, S)
    BY DEF Surjection
  <2>4. g \in Injection(1..c, S)
    BY <2>2 DEF Injection, IsInjective
  <2>5. IsFiniteSet(1..c) /\ Cardinality(1..c) = c
    <3>1. 1 \in Int /\ c \in Int
      BY <2>1
    <3>2. IsFiniteSet(1..c) /\ Cardinality(1..c) = IF 1 > c THEN 0 ELSE c - 1 + 1
      BY <3>1, FS_Interval
    <3> QED BY <2>1, <3>2
  <2> HIDE DEF S, g
  <2>6. IsFiniteSet(S) /\ Cardinality(S) = Cardinality(1..c)
    BY <2>3, <2>4, <2>5, FS_Surjection
  <2> QED BY <2>5, <2>6 DEF S
<1>3. {m \in M : m <= f[k]} = {f[j] : j \in 1..k}
  <2>1. ASSUME NEW j \in 1..n PROVE f[j] <= f[k] <=> j \in 1..k
    <3>1. f[j] \in Nat /\ f[k] \in Nat
      BY <1>1
    <3>2. CASE j < k
      BY <1>1, <3>1, <3>2
    <3>3. CASE k < j
      BY <1>1, <3>1, <3>3
    <3>4. CASE j = k
      BY <3>1, <3>4
    <3> QED BY <3>2, <3>3, <3>4
  <2>2. 1..k \subseteq 1..n
    OBVIOUS
  <2>3. \A m \in M : m <= f[k] => m \in {f[j] : j \in 1..k}
    BY <1>1, <2>1
  <2>4. \A j \in 1..k : f[j] \in M /\ f[j] <= f[k]
    BY <1>1, <2>1, <2>2
  <2> QED BY <2>3, <2>4
<1>4. k \in 0..n /\ n \in 0..n
  OBVIOUS
<1> QED BY <1>1, <1>2, <1>3, <1>4

LEMMA SelectedIs ==
  ASSUME RowsOK, NEW n \in Nat, NEW hs \in [1..n -> Stored], InHeapOrder(hs), NEW k \in 1..n
  PROVE  k <= Cardinality(Matching(hs)) /\ Selected(hs, k) = rows[RowOf(hs[k])]
<1> DEFINE f == [j \in 1..n |-> RowOf(hs[j])]
           M == Matching(hs)
<1>1. \A j \in 1..n : f[j] = RowOf(hs[j]) /\ f[j] \in 1..Len(rows) /\ rows[f[j]].hash = hs[j]
  BY RowOfIs
<1>2. {f[j] : j \in 1..n} = M
  <2>1. \A j \in 1..n : f[j] \in M
    BY <1>1 DEF Matching
  <2>2. ASSUME NEW m \in M PROVE \E j \in 1..n : f[j] = m
    <3>1. m \in 1..Len(rows) /\ \E j \in 1..n : hs[j] = rows[m].hash
      BY DEF Matching
    <3>2. PICK j \in 1..n : hs[j] = rows[m].hash
      BY <3>1
    <3>3. m = RowOf(hs[j])
      BY <3>1, <3>2, RowOfIs
    <3> QED BY <3>3
  <2> HIDE DEF f, M
  <2> QED BY <2>1, <2>2
<1>3. \A i, j \in 1..n : i < j => f[i] < f[j]
  BY DEF InHeapOrder
<1>4. Lists(f, n, M)
  <2>1. \A j \in 1..n : f[j] \in Nat
    BY <1>1 DEF RowsOK
  <2> HIDE DEF f, M
  <2> QED BY <1>2, <1>3, <2>1 DEF Lists
<1> HIDE DEF f, M
<1>5. ASSUME NEW j \in 1..n
      PROVE  Cardinality({m \in M : m <= f[j]}) = j /\ Cardinality(M) = n
  BY <1>4, UpToIs
<1>6. \A m \in M : Cardinality({i \in M : i <= m}) = k <=> m = f[k]
  <2> SUFFICES ASSUME NEW m \in M PROVE Cardinality({i \in M : i <= m}) = k <=> m = f[k]
    OBVIOUS
  <2>1. PICK j \in 1..n : m = f[j]
    BY <1>2
  <2>2. Cardinality({i \in M : i <= f[j]}) = j /\ Cardinality({i \in M : i <= f[k]}) = k
    BY <1>5
  <2> QED BY <2>1, <2>2
<1>7. f[k] \in M
  BY <1>2
<1>8. (CHOOSE j \in M : Cardinality({i \in M : i <= j}) = k) = f[k]
  BY <1>6, <1>7
<1>9. Selected(hs, k) = rows[f[k]]
  BY <1>8 DEF Selected, M
<1>10. k <= Cardinality(M)
  <2>1. Cardinality(M) = n
    BY <1>5
  <2> QED BY <2>1
<1> QED BY <1>1, <1>9, <1>10 DEF M

LEMMA ListsFollow ==
  ASSUME RowsOK
  PROVE  /\ ListsAgree
         /\ \A h \in Stored : /\ sqlx_solid_state(<<h>>) = <<rows[RowOf(h)].solid # 0>>
                              /\ sqlx_snapshot_index(<<h>>) = <<rows[RowOf(h)].snapshot>>
<1>1. ASSUME NEW n \in Nat, NEW hs \in [1..n -> Stored], InHeapOrder(hs), NEW k \in 1..n
      PROVE  /\ sqlx_solid_state(hs)[k] = (rows[RowOf(hs[k])].solid # 0)
             /\ sqlx_snapshot_index(hs)[k] = rows[RowOf(hs[k])].snapshot
  <2>1. k <= Cardinality(Matching(hs)) /\ Selected(hs, k) = rows[RowOf(hs[k])]
    BY <1>1, SelectedIs
  <2>2. k \in DOMAIN hs
    OBVIOUS
  <2> QED BY <2>1, <2>2 DEF sqlx_solid_state, sqlx_snapshot_index
<1>2. ASSUME NEW h \in Stored
      PROVE  /\ sqlx_solid_state(<<h>>) = <<rows[RowOf(h)].solid # 0>>
             /\ sqlx_snapshot_index(<<h>>) = <<rows[RowOf(h)].snapshot>>
  <2>1. <<h>> \in [1..1 -> Stored] /\ DOMAIN <<h>> = 1..1 /\ <<h>>[1] = h
    OBVIOUS
  <2>2. InHeapOrder(<<h>>)
    BY <2>1 DEF InHeapOrder
  <2>3. /\ sqlx_solid_state(<<h>>)[1] = (rows[RowOf(h)].solid # 0)
        /\ sqlx_snapshot_index(<<h>>)[1] = rows[RowOf(h)].snapshot
    <3> DEFINE one == <<h>>
    <3>1. one \in [1..1 -> Stored] /\ InHeapOrder(one) /\ 1 \in Nat /\ 1 \in 1..1 /\ one[1] = h
      BY <2>1, <2>2
    <3> HIDE DEF one
    <3>2. /\ sqlx_solid_state(one)[1] = (rows[RowOf(one[1])].solid # 0)
          /\ sqlx_snapshot_index(one)[1] = rows[RowOf(one[1])].snapshot
      BY <1>1, <3>1
    <3> QED BY <3>1, <3>2 DEF one
  <2>4. /\ sqlx_solid_state(<<h>>) = [k \in 1..1 |-> sqlx_solid_state(<<h>>)[k]]
        /\ sqlx_snapshot_index(<<h>>) = [k \in 1..1 |-> sqlx_snapshot_index(<<h>>)[k]]
    BY <2>1 DEF sqlx_solid_state, sqlx_snapshot_index
  <2> QED BY <2>3, <2>4
<1>3. ListsAgree
  <2> SUFFICES ASSUME NEW n \in 0..Len(rows), NEW hs \in [1..n -> Stored], InHeapOrder(hs), NEW k \in 1..n
               PROVE  /\ sqlx_solid_state(hs)[k] = sqlx_solid_state(<<hs[k]>>)[1]
                      /\ sqlx_snapshot_index(hs)[k] = sqlx_snapshot_index(<<hs[k]>>)[1]
    BY DEF ListsAgree
  <2>1. hs[k] \in Stored
    OBVIOUS
  <2> QED BY <1>1, <1>2, <2>1
<1> QED BY <1>2, <1>3

(* An index or a timestamp that fits its column is read back as it was.    *)
LEMMA FitsReadsBack ==
  ASSUME NEW n \in Nat, NEW half \in {IntegerHalf, SmallHalf}, Fits(n, half)
  PROVE  Wrap(n) % U64Range = n
<1> DEFINE H == IntegerHalf
           M == 2 * H
<1>1. H \in Nat /\ H > 0 /\ half <= H /\ U64Range \in Nat /\ M <= U64Range
  BY SqlxAssumption
<1>2. n < H
  BY <1>1, SqlxAssumption DEF Fits
<1>3. (n + H) % M = n + H
  <2>1. M \in Nat \ {0} /\ n + H \in 0..(M - 1)
    BY <1>1, <1>2
  <2> HIDE DEF M, H
  <2>2. \A x \in 0..(M - 1) : x % M = x
    BY <2>1
  <2> QED BY <2>1, <2>2
<1>4. Wrap(n) = n
  <2>1. (n + H) - H = n
    BY <1>1
  <2> QED BY <1>3, <2>1 DEF Wrap
<1>5. n \in 0..(U64Range - 1) /\ U64Range \in Nat \ {0}
  BY <1>1, <1>2
<1>6. \A x \in 0..(U64Range - 1) : x % U64Range = x
  BY <1>5
<1> QED BY <1>4, <1>5, <1>6

LEMMA TransactionsFollow ==
  ASSUME StorageInv
  PROVE  TransactionsAgree
<1>1. logged \subseteq RocksStored
  BY DEF StorageInv, RocksOK, DatabaseOK, RocksStored, Keys
<1> SUFFICES ASSUME ~crashed
             PROVE  /\ Stored \subseteq RocksStored /\ (~refused => Stored = RocksStored)
                    /\ \A h \in Stored : \A t \in sqlx_find_transaction(h), u \in rocks_find_transaction(h) :
                         SameTransaction(t, u)
                    /\ \A h \in Stored \ odd : /\ sqlx_solid_state(<<h>>) = rocks_solid_state(<<h>>)
                                               /\ sqlx_snapshot_index(<<h>>) = rocks_snapshot_index(<<h>>)
                    /\ SqlApprovers \subseteq rocks_approvers
  BY <1>1 DEF TransactionsAgree
<1>2. /\ Stored \subseteq RocksStored /\ (~refused => Stored = RocksStored)
      /\ \A h \in Stored : Approvees(h) \in mem["aprovees"]
      /\ \A h \in Hashes \ odd : MarksAgree(h)
  BY DEF StorageInv, StoredOK
<1>3. RowsOK /\ Stored \subseteq Hashes /\ \A k \in 1..Len(rows) : rows[k] \in Table /\ IsRow(rows[k])
  BY TableIs DEF StorageInv, Table, IsTable
<1>4. ASSUME NEW h \in Stored, NEW t \in sqlx_find_transaction(h), NEW u \in rocks_find_transaction(h)
      PROVE  SameTransaction(t, u)
  <2>1. u = Tx[h]
    <3>1. PICK p \in mem["transaction"] : p[1] = h /\ u = p[2]
      BY DEF rocks_find_transaction, get_cf
    <3>2. PICK g \in Hashes : p = <<g, Tx[g]>>
      BY DEF StorageInv, RocksOK, DatabaseOK
    <3> QED BY <3>1, <3>2
  <2>2. PICK k \in 1..Len(rows) : rows[k].hash = h /\ t = from_row(rows[k])
    BY DEF sqlx_find_transaction
  <2>3. PICK g \in Hashes, s \in {0, 1}, i \in Indexes \cup {0} : rows[k] = RowWith(g, s, i)
    BY <1>3 DEF IsRow
  <2>4. g = h
    BY <2>2, <2>3, RowIs
  <2>5. t = [value |-> Tx[h].value, index |-> Wrap(Tx[h].index) % U64Range,
             timestamp |-> Wrap(Tx[h].timestamp) % U64Range, trunk |-> Tx[h].trunk, branch |-> Tx[h].branch]
    BY <2>2, <2>3, <2>4 DEF from_row, RowWith
  <2>6. Tx[h].index \in Nat /\ Tx[h].timestamp \in Nat
    BY <2>4, BackendAssumption
  <2>7. /\ Fits(Tx[h].index, SmallHalf) => Wrap(Tx[h].index) % U64Range = Tx[h].index
        /\ Fits(Tx[h].timestamp, IntegerHalf) => Wrap(Tx[h].timestamp) % U64Range = Tx[h].timestamp
    BY <2>6, FitsReadsBack
  <2> QED BY <2>1, <2>5, <2>7 DEF SameTransaction
<1>5. ASSUME NEW h \in Stored \ odd
      PROVE  /\ sqlx_solid_state(<<h>>) = rocks_solid_state(<<h>>)
             /\ sqlx_snapshot_index(<<h>>) = rocks_snapshot_index(<<h>>)
  <2> DEFINE r == rows[RowOf(h)]
  <2>1. r \in Table /\ r.hash = h /\ IsRow(r)
    BY <1>3, RowOfIs
  <2>2. r.solid \in {0, 1}
    BY <2>1, RowIs DEF IsRow
  <2>3. /\ (r.solid = 1) <=> h \in Keys(mem["solid"])
        /\ IF h \in Keys(mem["snapshot"]) THEN get_cf("snapshot", h) = {r.snapshot} ELSE r.snapshot = 0
    BY <1>2, <1>3, <2>1 DEF MarksAgree
  <2>4. sqlx_solid_state(<<h>>) = <<r.solid # 0>> /\ sqlx_snapshot_index(<<h>>) = <<r.snapshot>>
    BY <1>3, ListsFollow
  <2> HIDE DEF r
  <2>5. rocks_solid_state(<<h>>) = <<r.solid # 0>>
    <3>1. get_cf("solid", h) # {} <=> h \in Keys(mem["solid"])
      BY DEF get_cf, Keys
    <3>2. (get_cf("solid", h) # {}) = (r.solid # 0)
      BY <2>2, <2>3, <3>1
    <3>3. rocks_solid_state(<<h>>) = [k \in 1..1 |-> get_cf("solid", <<h>>[k]) # {}]
      BY DEF rocks_solid_state
    <3>4. rocks_solid_state(<<h>>) = <<get_cf("solid", h) # {}>>
      BY <3>3
    <3> QED BY <3>2, <3>4
  <2>6. rocks_snapshot_index(<<h>>) = <<r.snapshot>>
    <3> DEFINE Answer(found) == IF found = {} THEN 0 ELSE CHOOSE i \in found : TRUE
    <3>1. rocks_snapshot_index(<<h>>) = [k \in 1..1 |-> Answer(get_cf("snapshot", <<h>>[k]))]
      BY DEF rocks_snapshot_index
    <3>2. Answer(get_cf("snapshot", h)) = r.snapshot
      <4>1. CASE h \in Keys(mem["snapshot"])
        BY <2>3, <4>1
      <4>2. CASE h \notin Keys(mem["snapshot"])
        <5>1. get_cf("snapshot", h) = {}
          BY <4>2 DEF get_cf, Keys
        <5> QED BY <2>3, <4>2, <5>1
      <4> QED BY <4>1, <4>2
    <3> HIDE DEF Answer
    <3>3. <<h>>[1] = h
      OBVIOUS
    <3> QED BY <3>1, <3>2, <3>3
  <2> QED BY <2>4, <2>5, <2>6
<1>6. SqlApprovers \subseteq rocks_approvers
  <2> SUFFICES ASSUME NEW k \in 1..Len(rows), NEW p \in Pairs(rows[k]) PROVE p \in rocks_approvers
    BY DEF SqlApprovers
  <2>1. PICK g \in Hashes, s \in {0, 1}, i \in Indexes \cup {0} : rows[k] = RowWith(g, s, i)
    BY <1>3 DEF IsRow
  <2>2. p \in AttachmentData(g, Tx[g].trunk, Tx[g].branch)
    BY <2>1, RowIs DEF Pairs
  <2>3. g \in Stored
    BY <2>1, RowIs DEF Stored
  <2> DEFINE a == Approvees(g)
  <2>4. a \in mem["aprovees"] /\ a[1] = g /\ a[2][1] = Tx[g].trunk /\ a[2][2] = Tx[g].branch
    BY <1>2, <2>3 DEF Approvees
  <2> HIDE DEF a
  <2>5. p \in AttachmentData(a[1], a[2][1], a[2][2])
    BY <2>2, <2>4
  <2> QED BY <2>4, <2>5 DEF rocks_approvers
<1> QED BY <1>2, <1>4, <1>5, <1>6

LEMMA MilestonesFollow ==
  ASSUME StorageInv
  PROVE  MilestonesAgree
<1>1. ASSUME ~cut, NEW p \in mem["hash_to_index"] PROVE get_cf("index_to_hash", p[2]) # {}
  <2>1. PICK q \in mem["index_to_hash"] : q[1] = p[2]
    BY <1>1 DEF StorageInv, RocksOK, DatabaseOK, Keys
  <2>2. q[2] \in get_cf("index_to_hash", p[2])
    BY <2>1 DEF get_cf
  <2> QED BY <2>2
<1>2. ASSUME ~refused, ~cut, NEW h \in Hashes, NEW i \in sqlx_find_milestone(h)
      PROVE  i \in rocks_find_milestone(h)
  <2>1. PICK m \in milestones : m.hash = h /\ i = m.id
    BY DEF sqlx_find_milestone
  <2>2. <<h, i>> \in mem["hash_to_index"]
    BY <1>2, <2>1 DEF StorageInv, MilestonesOK, HoldsMilestones
  <2>3. <<h, i>>[1] = h /\ <<h, i>>[2] = i
    OBVIOUS
  <2> QED BY <2>2, <2>3 DEF rocks_find_milestone, get_cf
<1>3. ASSUME NEW i \in Indexes, NEW d \in sqlx_load_state_delta(i)
      PROVE  d \in rocks_load_state_delta(i)
  <2>1. PICK m \in milestones : m.id = i /\ d \in m.delta
    BY DEF sqlx_load_state_delta
  <2>2. <<i, d>> \in mem["delta"]
    BY <2>1 DEF StorageInv, MilestonesOK, HoldsMilestones
  <2>3. <<i, d>>[1] = i /\ <<i, d>>[2] = d
    OBVIOUS
  <2> QED BY <2>2, <2>3 DEF rocks_load_state_delta, get_cf
<1> QED BY <1>1, <1>2, <1>3 DEF MilestonesAgree

(* The two implementations of StorageBackend (bee-storage/src/storage.rs,  *)
(* rocksdb/mod.rs and sqlx) agree wherever the code lets them: after any   *)
(* calls, flushes, crashes between and inside the operations of the        *)
(* RocksDB side, refused statements and rearrangements of the heap of the  *)
(* SQL side, and scans of any page size.                                   *)
THEOREM BothBackends == StorageSpec => []BackendsAgree
<1>1. StorageInv => BackendsAgree
  <2> SUFFICES ASSUME StorageInv PROVE BackendsAgree
    OBVIOUS
  <2>1. TransactionsAgree /\ MilestonesAgree
    BY TransactionsFollow, MilestonesFollow
  <2>2. ListsAgree
    BY ListsFollow DEF StorageInv
  <2>3. ScansAgree
    <3>1. scan.at = "done" /\ scan.quiet => scan.found = {p \in SqlApprovers : p[1] \notin scan.known}
      BY DEF StorageInv, ScanOK
    <3>2. ~crashed => SqlApprovers \subseteq rocks_approvers
      BY <2>1 DEF TransactionsAgree
    <3> QED BY <3>1, <3>2 DEF ScansAgree, rocks_map_missing
  <2> QED BY <2>1, <2>2, <2>3 DEF BackendsAgree
<1> QED BY <1>1, StorageInductive, PTL
=============================================================================
