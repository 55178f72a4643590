------------------------------- MODULE Storage -------------------------------
(***************************************************************************)
(* The trait StorageBackend (bee-storage/src/storage.rs) and its two       *)
(* implementations, given the same calls.  The transactional back end is   *)
(* the yardstick for the other one, and the comparison says exactly where  *)
(* the two part: after a crash, after a call the server refuses, and for   *)
(* hashes marked while they were not stored.                               *)
(***************************************************************************)
EXTENDS RocksDbStorage, SqlxStorage

CONSTANT MaxCalls   \* bound: calls, crashes and flushes

VARIABLES refused,  \* some call failed on the SQL side only
          odd,      \* hashes marked while not stored, or deleted
          logged,   \* transactions stored by insert_transaction and not deleted since
          crashed, cut,
          calls

storageVars == <<mem, disk, rows, milestones, scan, refused, odd, logged, crashed, cut, calls>>

StorageInit ==
  /\ establish_connection
  /\ rows = << >> /\ milestones = {} /\ scan = Idle
  /\ refused = FALSE /\ odd = {} /\ logged = {}
  /\ crashed = FALSE /\ cut = FALSE
  /\ calls = 0

Called == calls < MaxCalls /\ calls' = calls + 1

insert_transaction(h) ==
  /\ Called
  /\ rocks_insert_transaction(h) /\ sqlx_insert_transaction(h)
  /\ refused' = (refused \/ ~Insertable({h}))
  /\ logged' = logged \cup {h}
  /\ UNCHANGED <<odd, crashed, cut>>

insert_transactions(hs) ==
  /\ Called
  /\ rocks_insert_transactions(hs) /\ sqlx_insert_transactions(hs)
  /\ refused' = (refused \/ ~Insertable(hs))
  /\ UNCHANGED <<odd, logged, crashed, cut>>

update_transactions_set_solid(hs) ==
  /\ Called
  /\ rocks_set_solid(hs) /\ sqlx_set_solid(hs)
  /\ odd' = odd \cup (hs \ Stored)
  /\ UNCHANGED <<refused, logged, crashed, cut>>

update_transactions_set_snapshot_index(hs, index) ==
  /\ Called
  /\ rocks_set_snapshot_index(hs, index) /\ sqlx_set_snapshot_index(hs, index)
  /\ odd' = odd \cup (hs \ Stored)
  /\ UNCHANGED <<refused, logged, crashed, cut>>

delete_transactions(hs) ==
  /\ Called
  /\ rocks_delete_transactions(hs) /\ sqlx_delete_transactions(hs)
  /\ odd' = odd \cup hs
  /\ logged' = logged \ hs
  /\ UNCHANGED <<refused, crashed, cut>>

insert_milestone(h, index) ==
  /\ Called
  /\ rocks_insert_milestone(h, index) /\ sqlx_insert_milestone(h, index)
  /\ refused' = (refused \/ ~MilestoneInsertable(h, index))
  /\ UNCHANGED <<odd, logged, crashed, cut>>

delete_milestones(hs) ==
  /\ Called
  /\ rocks_delete_milestones(hs) /\ sqlx_delete_milestones(hs)
  /\ UNCHANGED <<refused, odd, logged, crashed, cut>>

insert_state_delta(delta, index) ==
  /\ Called
  /\ rocks_insert_state_delta(delta, index) /\ sqlx_insert_state_delta(delta, index)
  /\ UNCHANGED <<refused, odd, logged, crashed, cut>>

map_to_approvers ==
  /\ \/ (\E known \in SUBSET Hashes : sqlx_map_begin(known)) /\ Called
     \/ (sqlx_map_page \/ sqlx_map_return) /\ UNCHANGED calls
  /\ UNCHANGED <<mem, disk, refused, odd, logged, crashed, cut>>

\* The process dies, between two calls or between the two puts of one; the server keeps
\* what was committed, and the scan is lost.
Restart ==
  /\ Called
  /\ \/ Crash /\ cut' = cut
     \/ (\E h \in Hashes : rocks_insert_transaction_cut(h)) /\ cut' = cut
     \/ (\E h \in Hashes, i \in Indexes : rocks_insert_milestone_cut(h, i)) /\ cut' = TRUE
  /\ crashed' = TRUE
  /\ scan' = Idle
  /\ UNCHANGED <<rows, milestones, refused, odd, logged>>

FlushSome ==
  /\ Called
  /\ \E cf \in ColumnFamilies : Flush(cf)
  /\ UNCHANGED <<rows, milestones, scan, refused, odd, logged, crashed, cut>>

StorageNext ==
  \/ \E h \in Hashes : insert_transaction(h)
  \/ \E hs \in SUBSET Hashes \ {{}} : insert_transactions(hs)
  \/ \E hs \in SUBSET Hashes \ {{}} : update_transactions_set_solid(hs)
  \/ \E hs \in SUBSET Hashes \ {{}}, i \in Indexes : update_transactions_set_snapshot_index(hs, i)
  \/ \E hs \in SUBSET Hashes \ {{}} : delete_transactions(hs)
  \/ \E h \in Hashes, i \in Indexes : insert_milestone(h, i)
  \/ \E hs \in SUBSET Hashes \ {{}} : delete_milestones(hs)
  \/ \E d \in Deltas, i \in Indexes : insert_state_delta(d, i)
  \/ map_to_approvers
  \/ Restart
  \/ FlushSome

StorageSpec == StorageInit /\ [][StorageNext]_storageVars

-----------------------------------------------------------------------------
RocksStored == {p[1] : p \in mem["transaction"]}
SqlApprovers == UNION {Pairs(rows[k]) : k \in 1..Len(rows)}

\* Equal in every column, index and timestamp only when they fit theirs.
SameTransaction(t, u) ==
  /\ t.value = u.value /\ t.trunk = u.trunk /\ t.branch = u.branch
  /\ Fits(u.index, SmallHalf) => t.index = u.index
  /\ Fits(u.timestamp, IntegerHalf) => t.timestamp = u.timestamp

\* What insert_transaction has stored survives a crash; before any crash the two back ends
\* store the same transactions, marks and approvers up to the refused and odd ones.
TransactionsAgree ==
  /\ logged \subseteq RocksStored
  /\ ~crashed =>
       /\ Stored \subseteq RocksStored /\ (~refused => Stored = RocksStored)
       /\ \A h \in Stored : \A t \in sqlx_find_transaction(h), u \in rocks_find_transaction(h) :
            SameTransaction(t, u)
       /\ \A h \in Stored \ odd : /\ sqlx_solid_state(<<h>>) = rocks_solid_state(<<h>>)
                                  /\ sqlx_snapshot_index(<<h>>) = rocks_snapshot_index(<<h>>)
       /\ SqlApprovers \subseteq rocks_approvers

\* A milestone can be found by its index too unless a crash fell between its two puts; what
\* one back end answers about a milestone or a delta, so does the other, over crashes too.
MilestonesAgree ==
  /\ ~cut => \A p \in mem["hash_to_index"] : get_cf("index_to_hash", p[2]) # {}
  /\ ~refused /\ ~cut => \A h \in Hashes : sqlx_find_milestone(h) \subseteq rocks_find_milestone(h)
  /\ \A i \in Indexes : sqlx_load_state_delta(i) \subseteq rocks_load_state_delta(i)

\* The list answers of the SQL side are of the hashes asked for when all of them are
\* stored and asked for in the order of the heap.
InHeapOrder(hs) == \A j, k \in DOMAIN hs : j < k => RowOf(hs[j]) < RowOf(hs[k])
ListsAgree ==
  \A n \in 0..Len(rows) : \A hs \in [1..n -> Stored] : InHeapOrder(hs) =>
    \A k \in 1..n : /\ sqlx_solid_state(hs)[k] = sqlx_solid_state(<<hs[k]>>)[1]
                    /\ sqlx_snapshot_index(hs)[k] = sqlx_snapshot_index(<<hs[k]>>)[1]

\* A scan during which nothing was written has read every row, page boundaries included.
ScansAgree ==
  scan.at = "done" /\ scan.quiet =>
    /\ scan.found = {p \in SqlApprovers : p[1] \notin scan.known}
    /\ ~crashed => scan.found \subseteq rocks_map_missing(scan.known)

\* The two implementations of StorageBackend give the same answers to the same calls,
\* wherever the code lets them: over flushes, crashes inside and between the operations
\* of the RocksDB side, refused statements and paged scans of the SQL side.
BackendsAgree == TransactionsAgree /\ MilestonesAgree /\ ListsAgree /\ ScansAgree

(***************************************************************************)
(* The inductive form of BackendsAgree.                                    *)
(***************************************************************************)
Keys(pairs) == {p[1] : p \in pairs}

\* The families: what a crash leaves of them keeps the same facts.
IsDatabase(db) == db = [cf \in ColumnFamilies |-> db[cf]]
DatabaseOK(db, lasting, torn) ==
  /\ IsDatabase(db)
  /\ \A p \in db["transaction"] : \E h \in Hashes : p = <<h, Tx[h]>>
  /\ lasting \subseteq Keys(db["transaction"])
  /\ ~torn => \A p \in db["hash_to_index"] : p[2] \in Keys(db["index_to_hash"])
RocksOK ==
  /\ cut \in BOOLEAN
  /\ DatabaseOK(mem, logged, cut) /\ DatabaseOK(disk, logged, cut)
  /\ mem["index_to_hash"] = disk["index_to_hash"]

\* The rows: no hash twice, and every column as it was bound.
RowsOK ==
  /\ rows = [k \in 1..Len(rows) |-> rows[k]] /\ Len(rows) \in Nat
  /\ \A k \in 1..Len(rows) : \E h \in Hashes, s \in {0, 1}, i \in Indexes \cup {0} :
       /\ rows[k] = RowWith(h, s, i)
       /\ Fits(Tx[h].value, IntegerHalf)
  /\ \A j, k \in 1..Len(rows) : rows[j].hash = rows[k].hash => j = k

\* A scan that nothing disturbs has read the rows up to start.
ScanOK ==
  /\ scan.at \in {"idle", "reading", "done"} /\ scan.start \in Nat
  /\ scan = [at |-> scan.at, start |-> scan.start, found |-> scan.found, known |-> scan.known, quiet |-> scan.quiet]
  /\ scan.quiet /\ scan.at = "reading" =>
       /\ scan.start <= Len(rows)
       /\ scan.found = {p \in UNION {Pairs(rows[k]) : k \in 1..scan.start} : p[1] \notin scan.known}
  /\ scan.quiet /\ scan.at = "done" => scan.found = {p \in SqlApprovers : p[1] \notin scan.known}

\* Before a crash: the same transactions, their approvees, and the same marks of the ones
\* that are not odd; those neither stored nor odd have none.
MarksAgree(h) ==
  IF h \in Stored
  THEN \A r \in Table : r.hash = h =>
         /\ (r.solid = 1) <=> h \in Keys(mem["solid"])
         /\ IF h \in Keys(mem["snapshot"]) THEN get_cf("snapshot", h) = {r.snapshot} ELSE r.snapshot = 0
  ELSE h \notin Keys(mem["solid"]) /\ h \notin Keys(mem["snapshot"])
StoredOK ==
  ~crashed =>
    /\ Stored \subseteq RocksStored /\ (~refused => Stored = RocksStored)
    /\ \A h \in Stored : Approvees(h) \in mem["aprovees"]
    /\ \A h \in Hashes \ odd : MarksAgree(h)

\* Both databases hold the milestones and deltas of the SQL side.
HoldsMilestones(db, ms, exactly) ==
  \A m \in ms :
    /\ exactly => <<m.hash, m.id>> \in db["hash_to_index"]
    /\ \A d \in m.delta : <<m.id, d>> \in db["delta"]
MilestonesOK ==
  /\ \A m \in milestones : m = [id |-> m.id, hash |-> m.hash, delta |-> m.delta]
  /\ HoldsMilestones(mem, milestones, ~refused /\ ~cut)
  /\ HoldsMilestones(disk, milestones, ~refused /\ ~cut)

StorageInv ==
  /\ refused \in BOOLEAN /\ crashed \in BOOLEAN
  /\ RocksOK /\ RowsOK /\ ScanOK /\ StoredOK /\ MilestonesOK
=============================================================================
