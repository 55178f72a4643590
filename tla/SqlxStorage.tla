----------------------------- MODULE SqlxStorage -----------------------------
(***************************************************************************)
(* The Postgres back end (bee-storage/src/sqlx): a row per transaction and *)
(* a row per milestone.  Every write is one database transaction.          *)
(***************************************************************************)
EXTENDS StorageBackend, Integers, Sequences, FiniteSets

CONSTANTS IntegerHalf,          \* 2^31: an i32, and an INTEGER column, is at least -IntegerHalf and below it
          SmallHalf,            \* 2^15: the same of an i16 and a SMALLINT column
          U64Range,             \* 2^64: a u64 or usize is below it
          MAX_RECORDS_AT_ONCE   \* rows read by one query of a scan

ASSUME SqlxAssumption ==
  /\ {IntegerHalf, SmallHalf, U64Range, MAX_RECORDS_AT_ONCE} \subseteq Nat \ {0}
  /\ SmallHalf <= IntegerHalf /\ 2 * IntegerHalf <= U64Range

VARIABLES rows,        \* the rows of table transactions, in the order of the heap
          milestones,  \* the rows of table milestones
          scan         \* a paged read of the whole table, and whether a write fell into it

sqlxVars == <<rows, milestones, scan>>

(* as i32                                                                  *)
Wrap(n) == ((n + IntegerHalf) % (2 * IntegerHalf)) - IntegerHalf
Fits(n, half) == -half <= n /\ n < half

(***************************************************************************)
(* External, the server: an assignment that does not fit its column and a  *)
(* duplicate key fail the statement.  An unordered query returns the rows  *)
(* in the order of the heap, which any write may rearrange.                *)
(***************************************************************************)
Table == {rows[k] : k \in 1..Len(rows)}
Arranged(table) ==
  {s \in [1..Cardinality(table) -> table] : \A r \in table : \E k \in 1..Cardinality(table) : s[k] = r}

Stored == {rows[k].hash : k \in 1..Len(rows)}
RowOf(h) == CHOOSE k \in 1..Len(rows) : rows[k].hash = h

Insertable(hs) ==
  \A h \in hs : /\ h \notin Stored
                /\ Fits(Tx[h].value, IntegerHalf)
                /\ Fits(Wrap(Tx[h].index), SmallHalf)

Disturbed == scan' = [scan EXCEPT !.quiet = FALSE]

(***************************************************************************)
(* Transactions                                                            *)
(***************************************************************************)
\* What the statement binds: an index and a timestamp are cut to an i32.
RowWith(h, solid, snapshot) ==
  [hash |-> h, value |-> Tx[h].value, index |-> Wrap(Tx[h].index), timestamp |-> Wrap(Tx[h].timestamp),
   trunk |-> Tx[h].trunk, branch |-> Tx[h].branch, solid |-> solid, snapshot |-> snapshot]
BoundRow(h) == RowWith(h, 0, 0)

\* A row read back: what is cast to usize or u64 is extended with its sign.
from_row(r) ==
  [value |-> r.value, index |-> r.index % U64Range, timestamp |-> r.timestamp % U64Range,
   trunk |-> r.trunk, branch |-> r.branch]

sqlx_insert_transaction(h) ==
  /\ IF Insertable({h}) THEN rows' \in Arranged(Table \cup {BoundRow(h)}) ELSE UNCHANGED rows
  /\ Disturbed
  /\ UNCHANGED milestones

\* All rows of a batch, or none of them.
sqlx_insert_transactions(hs) ==
  /\ IF Insertable(hs) THEN rows' \in Arranged(Table \cup {BoundRow(h) : h \in hs}) ELSE UNCHANGED rows
  /\ Disturbed
  /\ UNCHANGED milestones

sqlx_find_transaction(h) == {from_row(rows[k]) : k \in {j \in 1..Len(rows) : rows[j].hash = h}}

sqlx_set_solid(hs) ==
  /\ rows' \in Arranged({IF r.hash \in hs THEN [r EXCEPT !.solid = 1] ELSE r : r \in Table})
  /\ Disturbed
  /\ UNCHANGED milestones

sqlx_set_snapshot_index(hs, index) ==
  /\ rows' \in Arranged({IF r.hash \in hs THEN [r EXCEPT !.snapshot = index] ELSE r : r \in Table})
  /\ Disturbed
  /\ UNCHANGED milestones

\* The rows of WHERE hash IN (...), and the k-th of them in the order of the heap.
Matching(hs) == {j \in 1..Len(rows) : \E k \in DOMAIN hs : hs[k] = rows[j].hash}
Selected(hs, k) ==
  rows[CHOOSE j \in Matching(hs) : Cardinality({i \in Matching(hs) : i <= j}) = k]

\* The k-th answer is of the k-th row found, whichever hash it belongs to.
sqlx_solid_state(hs) ==
  [k \in DOMAIN hs |-> k <= Cardinality(Matching(hs)) /\ Selected(hs, k).solid # 0]

sqlx_snapshot_index(hs) ==
  [k \in DOMAIN hs |-> IF k <= Cardinality(Matching(hs)) THEN Selected(hs, k).snapshot ELSE 0]

sqlx_delete_transactions(hs) ==
  /\ rows' \in Arranged({r \in Table : r.hash \notin hs})
  /\ Disturbed
  /\ UNCHANGED milestones

(***************************************************************************)
(* The paged scans: OFFSET start LIMIT MAX_RECORDS_AT_ONCE, no ORDER BY,   *)
(* each page a query of its own; found has the pairs <<approvee, approver>>*)
(***************************************************************************)
Idle == [at |-> "idle", start |-> 0, found |-> {}, known |-> {}, quiet |-> TRUE]

Pairs(r) == AttachmentData(r.hash, r.trunk, r.branch)
PageEnd(start) == IF start + MAX_RECORDS_AT_ONCE < Len(rows) THEN start + MAX_RECORDS_AT_ONCE ELSE Len(rows)
Page(start) == SubSeq(rows, start + 1, PageEnd(start))

\* The pages of map_missing skip the approvees in all_hashes; map_existing skips none.
sqlx_map_begin(all_hashes) ==
  /\ scan.at = "idle"
  /\ scan' = [Idle EXCEPT !.at = "reading", !.known = all_hashes]
  /\ UNCHANGED <<rows, milestones>>

sqlx_map_page ==
  /\ scan.at = "reading"
  /\ LET page == Page(scan.start)
     IN  scan' = [scan EXCEPT
           !.found = @ \cup {p \in UNION {Pairs(page[k]) : k \in DOMAIN page} : p[1] \notin scan.known},
           !.start = @ + MAX_RECORDS_AT_ONCE,
           !.at    = IF Len(page) < MAX_RECORDS_AT_ONCE THEN "done" ELSE "reading"]
  /\ UNCHANGED <<rows, milestones>>

sqlx_map_return ==
  /\ scan.at = "done"
  /\ scan' = Idle
  /\ UNCHANGED <<rows, milestones>>

(***************************************************************************)
(* Milestones: id is the primary key, hash is unique, delta may be NULL    *)
(***************************************************************************)
MilestoneInsertable(h, index) == \A m \in milestones : m.id # index /\ m.hash # h

sqlx_insert_milestone(h, index) ==
  /\ milestones' = IF MilestoneInsertable(h, index)
                   THEN milestones \cup {[id |-> index, hash |-> h, delta |-> {}]} ELSE milestones
  /\ UNCHANGED <<rows, scan>>

sqlx_find_milestone(h) == {m.id : m \in {n \in milestones : n.hash = h}}

sqlx_delete_milestones(hs) ==
  /\ milestones' = {m \in milestones : m.hash \notin hs}
  /\ UNCHANGED <<rows, scan>>

\* Without a milestone of that index the update changes no row and succeeds.
sqlx_insert_state_delta(delta, index) ==
  /\ milestones' = {IF m.id = index THEN [m EXCEPT !.delta = {delta}] ELSE m : m \in milestones}
  /\ UNCHANGED <<rows, scan>>

\* Empty when there is no row (an error) and when delta is NULL (a panic in from_row).
sqlx_load_state_delta(index) == UNION {m.delta : m \in {n \in milestones : n.id = index}}
=============================================================================
