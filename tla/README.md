# A verification project for bee-p

bee-p is a Rust prototype of an IOTA node. This directory holds TLA+ modules
that model its concurrent core and the algorithms it rests on, TLC
configurations that check them on small instances, and TLAPS proofs of the main
results for all instances.
`PROJECT.json` lists every run, mutant, finding, hazard and theorem, and maps
each definition to the source lines it models. All paths below are relative to
the repository.

## 1. Inventory

| component | state | operations | hard because |
|---|---|---|---|
| tangle store and solidifier (`bee-tangle`) | `vertices` and `approvers` (two DashMaps), the bounded solidifier channel, solid entry points, milestone map and indexes | `insert_transaction`, `is_solid_transaction`, the solidifier task's `propagate`, `init`, `drop`, graph walks | any number of tasks insert at once; maps, flags and channel have no common lock; the solidifier runs beside them |
| network (`bee-network`) | contact list, connected list, outbox, whitelist, internal event channel (10000), command channel (1000) | commands add, remove, connect, disconnect, send, multicast, broadcast; events new connection, lost connection, retry; reader and writer task per connection; TCP listener; shutdown | one worker awaits inside its handlers; events of old and new connections of one endpoint mix; retries race commands; bounded queues in a cycle |
| node (`bee-node`) | `peers`: endpoint id to byte channel and shutdown signal | a loop over the published events | only reader of the events and a sender of commands |
| peers (`bee-protocol` `peer`, `worker/peer`, `worker/sender.rs`) | `PeerManager::peers`, `handshaked_peers`; per session: handshaker, then peer worker; four sender workers | register, handshake, duplicate check, remove, send | keyed by endpoint id while several sessions of one id may be alive; a lookup is unwrapped |
| message framing (`bee-protocol/src/message`) | read context: header or payload, buffer | TLV header, (de)serialisation, compression, version negotiation | messages split over or sharing chunks; hand-over from handshaker to peer worker |
| transaction pipeline (`worker/transaction`, `worker/broadcaster.rs`) | `TinyHashCache`, `requested` | filter, validate, store, broadcast, trigger requests | reads `requested` before it removes from it; full cache |
| requesters, responders, protocol solidifiers | two `WaitPriorityQueue`s, `requested` | request from a random peer, answer, walk and request what is missing | requests lost and never repeated; checks stale when used; a guard kept across an await |
| milestones (`milestone`, `worker/milestone_validator.rs`, `worker/status.rs`) | last, solid and snapshot index, milestone map | validate a bundle, update the last index, trigger solidification, print the status | three indexes updated apart; unsigned differences |
| ledger (`bee-ledger`) | address to balance | apply a diff | fails in the middle |
| bundles (`bee-bundle`) | staged builders | build, seal, sign, attach, validate | index and value edges |
| signatures, hashes (`bee-signing`, `bee-crypto`) | none or a sponge | normalise, sign, verify, Merkle tree | index arithmetic |
| proof of work (`bee-pow`) | shared state of worker threads | search, cancel | found and cancelled race |
| start-up, configuration, snapshots, static peering | read once | read files, spawn workers, send `AddEndpoint` | order of start-up |
| storage (`bee-storage`) | two implementations of one trait: seven RocksDB column families, two Postgres tables | insert, find, mark, delete transactions and milestones, state deltas, scans | some writes bypass the log; two-step writes and crashes; paged scans beside writers; narrow columns |
| ternary (`bee-ternary`) | packed trit buffers; 384 bit and 243 trit integers | push, pop, get, set, slice, convert, add, subtract, halve | carries, signs, widths; every loop exists once per byte order |

How they interact: TCP tasks send internal events to the `EndpointWorker`, which
publishes `EndpointConnected`, `EndpointDisconnected` and `MessageReceived`; the
node turns these into sessions (`Protocol::register`) and bytes for them; a
session's task parses messages and passes transactions to the transaction
worker, which inserts them into the tangle and asks the requesters for missing
parents; the solidifier marks transactions solid and the milestone solidifier
moves the solid index; requesters, responders and the broadcaster send through
the sender workers, which send commands back to the `EndpointWorker`.

What makes the parts correct: a solid transaction has a complete past cone and
solidity is not lost; the network's lists agree with each other, with the
published events and with the tasks alive; a wanted peer is always retried; the
peer maps hold exactly the peers whose tasks are alive; requests go on until
everything has arrived; indexes never run backwards; conversions are inverse to
each other. The main hazards, each with its line, are in `PROJECT.json` under
`hazards`.

## 2. Modules

| module | models | built on |
|---|---|---|
| `Tangle` | `insert_transaction`, the solidifier, `drop` of `bee-tangle` | |
| `Solidification` | abstract specification of solidity, implemented by `Tangle` | |
| `Endpoint` | connection management of `bee-network` | |
| `Peering` | node loop, `PeerManager`, handshaker, peer worker, sender workers' lives | takes its events as `Endpoint` publishes them |
| `Sync` | transaction worker, milestone validator, protocol solidifiers, requesters, milestone map and indexes | the tangle as `Solidification` describes it, peers as `Peering` leaves them |
| `RequestQueue` | `WaitPriorityQueue`, its wakers and the requester's `select!` | the queue `Sync` keeps as a set |
| `TinyHashCache` | the filter of the transaction worker | what `Sync` calls `TxAgain` |
| `Messages`, `Framing` | message coding; the byte stream of a session through handshaker and peer worker | `Framing` on `Messages` |
| `Signing`, `Milestone` | seeds, normalisation, WOTS, MSS; a key that signs milestones and `MilestoneBuilder` | `Milestone` on `Signing`; the oracle of `Sync` |
| `Trits`, `TritBuf`, `BigInt` | encodings and conversions; a buffer under change; the big integers | `TritBuf` on `Trits` |
| `Transaction`, `Bundle` | transaction fields, trits, bytes; the outgoing and incoming builders | `Trits`; `Signing` |
| `CurlReference`, `Sponge`, `PearlDiver` | Curl by its definition; `CurlP` and `Kerl`; the bit-sliced Curl of the proof of work | `Sponge` on `BigInt`, both on `CurlReference` |
| `PearlSearch` | the threads of the proof of work and `cancel` | what a thread computes is in `PearlDiver` |
| `StorageBackend`, `RocksDbStorage`, `SqlxStorage`, `Storage` | the trait's data, its two implementations, both under the same calls | |
| `Ledger` | `LedgerWorker` | |
| `DataLemmas` | lemmas on membership in sequences, induction over the naturals, recursive functions | |
| `TangleProofs`, `EndpointProofs`, `PeeringProofs`, `SyncProofs` | theorems on the concurrent core | the modules above, `DataLemmas` |
| `PartsProofs`, `ValueProofs`, `StorageProofs` | theorems on `RequestQueue`, `PearlSearch`, `TinyHashCache`, `Messages` and `Framing`; on `Ledger`, `Signing`, `Bundle` and `Milestone`; on `Storage` | the same |
| `MCTangle`, `MCEndpoint`, `MCPeering`, `MCSync`, `MCParts` | instances for TLC | |

### Tangle

One action per access to a shared map or to the channel. A writer is at
`idle -> branch -> vertex -> send` inside `insert_transaction`: it pushes itself
to its parents' approvers (one access if trunk and branch are equal), inserts
the vertex, and, if the hash was new, sends it to the solidifier, waiting while
the channel is full. The solidifier pops its stack, checks trunk, checks branch,
sets the flag and pushes the approvers, each its own action, so that insertions
run in between. `drop` sends `None` and waits at the barrier. A transaction is
its hash; `Trunk` and `Branch` are the constants of the graph. `MaxInserts`
bounds how often each hash is inserted: a second insertion of a known hash is
possible in the code (the broadcast of a transaction requested from another
peer) and is modelled: it replaces the vertex and clears its flag.

### Endpoint

One action per command, event and task step of the `EndpointWorker`, the TCP
listener, the reader and writer tasks and the retry timers. The worker's
handlers that await (TCP connect, sends on the worker's own event channel, the
sends of `SendMessage`, `MulticastMessage` and `BroadcastMessage` on the byte
channels) are split at the awaits; all others are one action. The channels are
those of `futures::mpsc`: a send over the capacity queues its event and parks the
task until the receiver has taken an event. `wto` are the recipients the worker
has still to send to, `bytes` the chunks in each connection's channel. A writer is
at `wait`, for the next chunk or the end of its senders, or at `write`, inside
`write_all`, where a remote that does not read keeps it. `view` records the last
published event of each endpoint, `wanted` what the client asked for, and `cut`
the endpoints whose connection a `RemoveEndpoint` dropped, of which no
`EndpointDisconnected` is published.

### Peering

The node handles one event per action; a session's task is a program counter:
`await -> validated -> claimed -> handled -> peer -> remove -> unlist -> stopped`,
with `panicked` aside; `status` is the `HandshakeStatus` that decides how a
handshaker goes on after a chunk. `PeerManager::handshake` and `remove` are
two accesses each to two maps, hence two actions each. A session is signalled
when the node no longer has it under its endpoint id: a removal sends the
signal, a replacement drops its sender, and both resolve the future. The
contents of messages are left out but for the outcome of `validate_handshake`. A
chunk may hold several handshakes, which are handled one after the other: the
second one finds the peer that the first has listed and turns the status into
`Duplicate`, so that no peer worker is spawned and nobody removes the entry
(`Forsaken`). The sends awaited during a handshake are taken to return.

### Sync

Seven tasks, each a program counter with what it holds: the transaction worker
(`tpc`, from the insertion of a transaction to the hand-over of a milestone's
tail), the milestone validator (`vpc`), the milestone solidifier (`spc`), the
transaction solidifier (one action, `Walk`), the two requesters (`rpc`, `mpc`),
and the broadcaster, of which `casts` counts the events in its channel and
`unsent` the commands it has still to hand to the network. An action reaches
from one access to shared state to the next; reads that no other task can
disturb are joined, with the reason at the definition. The bounded channels keep
their order and their `futures::mpsc` semantics: a message over the bound is
queued and its sender waits (`Parked`). Of the two unbounded priority queues the
set of entries is kept. A milestone is an index with the bundle the coordinator
signed (`MsBundle`): just these bundles validate. From a transaction that is not
a tail, `trunk_walk_approvers` goes up through the first approver with the same
trunk and bundle field (`approver`) and no other, as its `break` has it. Peers
come, go, answer, broadcast unasked (`Public`) and lose requests; a milestone
request is answered with the tail alone, as the responder does. A transaction
that the cache has evicted comes through again (`TxAgain`, bounded) and loses
its flag, as module `Tangle` shows. A requester whose last peer leaves between
its check and its use panics and its task is gone. The sends that wait for the
network, of the broadcaster (`CommandTaken`) and of the heartbeats after a new
solid index (`HeartbeatTaken`), return when the network likes.

### RequestQueue, TinyHashCache

The requester's loop is `select -> stopPending | popPending -> waiting -> ...`:
`select!` polls its two futures in either order, a poll of `pop` takes the
greatest entry or leaves a waker, and the task sleeps only when both were
pending. `insert` pushes and wakes one waker. `wakers` counts the ones in the
deque (all are the requester's), `woken` is the executor's mark. The heap is a
bag ordered by milestone index. The question is whether a wake that was spent
on a waker nobody waits on any more can be the one that mattered.

`TinyHashCache` is the hash set with its order of insertion; two of the
transactions collide. `accepted` is the history of what was let through.

### Messages, Framing

`Messages` codes every message type into bytes of a small base, with the length
ranges of the TLV layer. In `Framing` one action is one turn of a read loop:
header, payload, or the end of a chunk, so chunks end anywhere. The handshaker
checks time (in `u64`, cast to `i64`), coordinator, weight, versions and
duplicates, and then leaves its buffer behind: what a chunk holds after the
handshake is lost to the peer worker. The property therefore promises the peer
worker the later messages only when that chunk ended with a message.

### Signing, Milestone

Hashes are terms: what was absorbed, wrapped once per squeeze. This makes the
sponge ideal (no collisions), which is the usual assumption about it, and leaves
the index arithmetic, which is the repository's own: chains of `MAX - tryte` and
`tryte - MIN` steps, sibling paths, leaf indexes, fragments under the security
level. The issuer of milestones is external: `issue` is `MssPrivateKey::sign` with
the signature, the index and the hash put where `MilestoneBuilder` reads them.
Loops are recursive functions: `PathFrom` is the walk of `sign` from the leaf to
the root, `Climb` the loop of `verify`, with bit `i` of the index for
`index & j`.

### Trits, TritBuf, BigInt

`Trits` has the packing of one to five trits a byte, with the `i8` arithmetic of
each encoding, slices, and the conversions to integers (with overflow tests),
trytes and serialised form. `TritBuf` pushes, pops, sets and re-encodes in any
order and keeps the plain sequence as history. `BigInt` has the digit loops of
`U384`/`I384` for both digit sizes and byte orders, and the conversions between
trits and bits, with the widths as parameters.

### Transaction, Bundle

A transaction is its trits, cut by the table of offsets; `from_trits`,
`into_trits` and compression are modelled with what they check and with the
carry of a number too large for its field into the next one. `Bundle` is the
outgoing builder's chain of consumed stages, each error and panic final, with
values in `i64` in a checking and a wrapping build. The sponge over the
essences is a parameter.

### CurlReference, Sponge, PearlDiver, PearlSearch

`Sponge` feeds `CurlP` (two buffers that change places) and `Kerl` (through
`BigInt`) the same calls of absorb, squeeze and reset; Keccak is external.
`PearlDiver` is the bit-sliced hash with its counters; a `u64` is the set of its
bits. `PearlSearch` is the threads: the main task spawns and joins, a thread
looks at the state, dives, and writes its outcome, and `cancel` reads and writes
between any two of these. Whether a dive finds a nonce is left open, and so is
when a thread's increment reports the end of its space: it counts on trits that
the hash has replaced.

### StorageBackend, RocksDbStorage, SqlxStorage, Storage

The RocksDB side has two copies of each family: what a read sees (`mem`) and
what a restart finds (`disk`), equal only for logged or flushed writes; an
operation with two writes is two steps, and a crash may fall between them. The
SQL side has rows in heap order, integer columns that wrap or refuse, and a scan
that reads page by page while others write. No statement has an `ORDER BY`, so
every write may leave the heap in any order. The widths of the columns are the
parameters `IntegerHalf`, `SmallHalf` and `U64Range`; a transaction's index and
timestamp are cut to an `i32` when they are bound and come back sign-extended.
`Storage` makes both sides take the same calls. `odd` collects the transactions
that were marked while not stored, or deleted: there the two sides are known to
differ. RocksDB and Postgres are external.

### Ledger

Events go through the channel one by one; a diff is applied address by address
in any order (it is a hash map), each change being skipped with a log line if it
would leave a negative balance. `Half` is 2^63; `opening` keeps the balances the
worker started from.

## 3. Runs

| run | shows |
|---|---|
| `tangle_safety` | the SOLID flag implies a complete past cone (`SolidPastConePresent`), also where hashes are inserted twice |
| `tangle_once` | where no hash is inserted twice: nothing is lost at rest (`NoLostSolidification`), `drop` waits for all (`DropDrains`), every complete transaction becomes and stays solid (`EventuallyConsistent`), and the tangle implements `Solidification`, its fairness included |
| `tangle_again` (violated) | a solid transaction inserted again is not solid any more, and nothing makes it so |
| `endpoint_safety` | published events follow the outbox (but for removals, section 5), connected implies a sender on its way, a wanted contact is never forgotten, with a channel that is full after one event |
| `endpoint_live` | if writes return, retries go on for ever, and no task outlives its connection's sender |
| `endpoint_removed` (violated) | a removed contact is connected again by an event still queued |
| `endpoint_loss` (violated) | a loss that overtakes its announcement leaves a dead connection in the outbox |
| `peering` | ghost peers only by a second handshake in one chunk, listed peers have all senders, entries are lost only through overlapping sessions; a signalled session ends, a disconnected peer that is no such ghost is forgotten |
| `peering_unwrap` (violated) | the unwrap of the handshaker can panic |
| `sync_safety` | the solid index never runs ahead of the tangle (`SolidIndexSound`), a node that counts as synced has everything it knows of (`SyncedIsComplete`), no complete milestone is overlooked (`MilestoneNotMissed`), unless another transaction with its bundle field has led the walk astray (`Rivalled`) |
| `sync_live` | if the network takes what it is given (`NetworkTakes`), the workers' bounded channels never block the transaction worker for good, even when requesters have panicked |
| `parts` | the components that do not run together, one per behaviour; see below |

The run `parts` starts with the choice of a component and then runs it alone.
The components share the variables `x1`, `x2`, ... of `MCParts`, but for
`RequestQueue`, `PearlSearch`, `TinyHashCache`, `Ledger`, `Storage`, `Framing`,
`Milestone` and `Bundle`, which keep their own: the run checks the very
definitions that the theorems are about.

| property | shows |
|---|---|
| `NoLostRequest` | a requester that sleeps has an empty queue, no pending shutdown, and a waker that the next request will use; wakers do not pile up |
| `FilterForgetsInOrder` | the cache is exactly the last digests let through; only capacity 0 panics |
| `FramesAreRead` | for every way to cut a stream, no message before or after the handshake is misread, repeated or skipped, as long as no handshake is refused, except the named loss at the hand-over |
| `SignedMilestonesVerify` | a milestone is accepted with its own hash and index and no other, as far as level and depth look, and not with fragments exchanged; no one-time key signs twice; normalized fragments sum to zero |
| `BigIntsAgree` | arithmetic, comparisons and conversions equal those of the integers, for the big-endian copies as far as section 5 leaves them |
| `BuffersReadBack` | a buffer reads back what was written, in every encoding and through every slice, and keeps its value in every conversion |
| `TransactionRoundTrips` | trits accepted as a transaction come back unchanged, also compressed; the rest is refused for the right reason |
| `BuiltBundlesAreSound` | a finished bundle is indexed, hashed, balanced, and signed where the right inputs were given |
| `SpongesAgree` | after any calls both sponges are where a fresh one would be, with an odd number of rounds and, for Kerl, whole hash lengths |
| `BitSlicesAgree` | every slot of the sliced Curl gives the hash that Curl gives, and a nonce is found just when a slot has the weight |
| `SearchOutcome` | found, cancelled, or every thread stopped by its increment, in any interleaving of threads and `cancel` |
| `BackendsAgree` | the two backends give the same answers over flushes and crashes, outside the named differences |
| `LedgerFollowsDiffs` | balances and answers are those of the diffs taken before; transfers keep the total unless a part is ignored |

Where the code departs from its documentation, the property claims nothing of that
case and its comment says so; where no document speaks, the property states what
the code does, so that a further departure violates it. Section 5 lists both.

**Bounds.** Tangle: one entry point and three transactions, with both forms of
insertion, a vertex reached over two paths and one approved twice; two writers;
a channel of two, so that writers wait and the solidifier is behind. Endpoint: a
contact and an inbound endpoint of the same IP, two connections (an old and a
new one of one endpoint, or one each way), capacity 1 for the safety run and 10
(never full with these bounds) for the liveness runs, three or four commands:
add, connect, then disconnect, remove or send, then connect again; byte channels
of capacity 0, where every send waits for the writer. Peering: two endpoint ids
of one peer and two sessions, of one id (overlap) or of both (duplicates), three
handshakes in chunks of one to three. Sync: a milestone of two transactions
whose tail also approves a third, which is its rival, one peer that comes and
goes, one transaction coming through again; for liveness a milestone of one
transaction and one lost request. All channels have capacity 0, where every send
waits. `parts`: digits of one or two bits and 3 to 6 trits give every carry,
borrow and sign, and all inputs are enumerated; buffers are one trit longer than
a byte; Merkle trees of depth 1 to 3, so the last key is used up, indexes of 3
bits and tags over both ends of their integer; bundles of three transactions,
where value limits and the supply are at the edge of a 3 bit integer; streams of
up to seven messages with handshakes that are early, late, wrong, repeated and
exactly half the clock away; two threads and two batches each; four storage
calls on two transactions that approve each other; three requests of which two
have the same priority; six transactions through caches of capacity 0 to 3; four
ledger events. `CHECK_DEADLOCK FALSE` is set throughout because all these
systems come to rest when the inputs are used up. Symmetry is used in the two
runs with invariants only.

**Fairness.** Weak fairness of every task that the executor runs: async-std
polls each woken task. `WorkerStop` has strong fairness, because `select!`
chooses at random among the ready branches, so a shutdown signal that is ready
again and again is taken. Nothing is assumed of remotes and clients: they need
not connect, send, close, read or command. What a property needs of them is its
hypothesis: `WritesReturn` (no writer stays in `write_all` for ever) for
`KeepsTrying`, the same of one connection for `DroppedSenderEnds`, and
`NetworkTakes` for `TransactionProcessed`. `parts` has no liveness property and
assumes no fairness. `endpoint_live` assumes that the event
channel does not fill up; a full one can park the worker, its only reader, on
its own send (hazard at `tcp/mod.rs:79`).

## 4. Proofs

All theorems hold for every value of the constants that satisfies the named
assumption of the module, which TLC evaluates on the instances:

* `TangleAssumption`, `EndpointAssumption`, `PeeringAssumption`,
  `SyncAssumption`: distinct `None`, functions with the right domains, natural
  bounds; for `Sync` also that a milestone's bundle is a chain of trunks with
  one bundle field, in which no transaction is twice, that a transaction is in one
  milestone's bundle and that the tails of milestones after the snapshot are not
  solid entry points.
* `AcyclicAssumption` (only `DropWaits` uses it): any set of transactions has one
  that approves no other of the set, solid entry points aside. A hash commits to
  its parents' hashes.
* `BatchesAssumption`: a thread looks at one batch of nonces at least.
  `CacheAssumption`: capacities are natural numbers.
* `LedgerAssumption`: diffs and opening balances have the types of the code, and
  `Accounts` lists every address once, so that there is a total to speak of.
* `BackendAssumption`, `SqlxAssumption`: finitely many transactions, natural
  indexes and timestamps, column widths that are positive and in order.
* `MessagesAssumption`: a byte has at least two values, sizes are natural numbers.
  `StreamsAssumption`: a peer sends messages whose fields have their types and
  whose length fits the two bytes of the header. A handshake may list any number
  of versions and a transaction may have any length, so messages that the size
  ranges refuse are among them.
* `SigningAssumption`: the lengths are positive. `BundleAssumption`: twice the
  supply is less than what an `i64` holds (2.8 * 10^15 against 9.2 * 10^18), so
  that one addition to a sum within the supply is exact; the tags number
  `3^TagLen`; fields that are set have the types of the code; the sponge takes any
  essence and gives trytes. Which hash it gives is left open.
* `MilestoneAssumption`: depths up to `DepthMax` (20 in the code), whose
  siblings fit into a fragment (27 hashes) and whose leaves are no more than the
  subseeds of a seed and than the indexes (2^32); indexes fit an `i64`; a
  fragment has two hashes at least. Hashes, tags, levels and the seed are
  arbitrary within their types.

Nothing else is assumed finite: not the writers, endpoints, sessions,
transactions of the tangle, threads, nor the number of calls.

* `TangleProofs!TypeCorrect`, from `TypeInv`: `TypeOK`, that a writer inside
  `insert_transaction` has a transaction, and that the hash under examination
  has a vertex.
* `SolidPastCone`. Inductive invariant `ConeInv`: `Checked` remembers what the
  solidifier has seen of the current hash's parents, since the flags it read may
  have been cleared when it writes. The cone of a new solid vertex is the vertex
  and the cones of its parents (`ConeStep`), and vertices are never removed.
* `NothingLost`, if every hash is inserted at most once (`AtMostOnce`).
  Inductive invariant `OnceInv`: a vertex with two solid parents that is not
  solid is in the channel, held by a writer about to send it, on the solidifier's
  stack, under examination, or an approver of a hash whose approvers are about
  to be pushed (`Pending`).
* `DropWaits`, under `AtMostOnce`: when `drop` returns, every vertex with a
  complete past cone is solid, however much was queued when it was called.
  `DropStages` follows the `None` that stops the solidifier through the channel:
  no writer is left when it is sent, so nothing is behind it. At rest
  `NoLostSolidification` speaks of one vertex and its parents; that a complete
  cone is solid throughout follows with `AcyclicAssumption` applied to the
  vertices of the cone that are not solid (`CompleteIsSolid`).
* `RefinesSolidification`: under `AtMostOnce` every step is a step of
  `Solidification` or a stutter (the safety part of the refinement).
* `EndpointProofs!TypeCorrect`, `ViewCorrect` (with `OutboxConnected`:
  what has a sender is listed; of removed endpoints it says only what the code
  publishes), `SenderCorrect` (with `Announced`: what
  is being announced is in the queue), `RetryCorrect` (with `Stopped`).
* `PeeringProofs!TypeCorrect` (with `Waiting`: a queued connection has no task
  yet), `NoGhost` (every entry is served or `Forsaken`) and `CanSend`
  (inductive together over `TypeInv`), and
  `SoundSessions`. Its invariant `SoundInv` says that for an endpoint whose
  sessions never overlapped at most one task is alive (`Alone`), that its entry
  in `peers` is there to be claimed (`Claimable`), and its entry in
  `handshaked_peers` is its own (`Holds`).
* `SyncProofs!TypeCorrect` (with `Holds`: a worker holds what it acts on, and
  the transaction worker has room for a tail). `SolidIndexCorrect`: its
  invariant `IndexInv` adds that solid transactions have their cones
  (`SolidCones`), that the target about to be stored has it too although its flag
  may be gone (`TargetCone`), and that milestones are known by their tails.
  `SyncedCorrect` adds `LastInv`: the last index is behind a known milestone
  only while the validator is about to move it. `NoMilestoneMissed`, from
  `PendingInv`: a complete, unknown milestone without a rival is with the validator,
  in its channel, or its last transaction is still with the transaction worker. The
  `approver` of each of its transactions is then the one before it in the bundle, so
  that the walk from any of them ends at the tail.
* `PartsProofs!RequestsAreNotLost`, for any set of requests, any
  priorities and any number of waiting entries. `NoLostRequest` alone is not
  inductive: it speaks of the sleeping requester, but a wake may come while the
  requester is between its two polls. `RequestInv` therefore says for every
  place of the loop how many wakers it can have left behind and, before the
  shutdown signal, that a wake and a waker exclude each other.
* `SearchEndsAsItSays`, for any number of threads and batches. `SearchInv`: a
  thread is done while the state is `Searching` only because its increment has
  stopped it, and a nonce that was found is about to be written or has changed
  the state, so the last look of `search_sync`, which comes after the joins,
  cannot miss one.
* `FilterForgetsTheOldest`, for any capacities and any transactions, colliding
  ones included. `CacheInv`: the deque is the end of the history, the set holds
  its entries and no others, and a digest is let through again only after
  `max_capacity` others, without which removing the oldest could remove a newer
  equal one.
* `ValueProofs!LedgerMeans`. What the code computes with casts between `i64` and
  `u64` is what `Meaning` says in whole numbers (`ChangeMeans`); the rest is
  induction over the history: `After`, the balances after each event, does not
  change when an event is appended (`AfterAppend`), and the total over `Accounts`
  is additive (`TotalAdds`).
* `StorageProofs!StorageInductive` and `BothBackends`, for any transactions, page
  size, column widths and any number of calls, flushes and crashes. `StorageInv`:
  - `RocksOK` states of both copies of the families what is promised after a
    crash, since `disk` may become `mem` at any time;
  - `RowsOK`: no hash has two rows and every column is as it was bound, so that
    a list answer in heap order can be taken apart;
  - `ScanOK`: an undisturbed scan has read exactly the rows before `start`;
  - `StoredOK`: the answers about stored transactions agree, and what is neither
    stored nor odd has no mark on the RocksDB side. Without the second half an
    insertion would break the first: `delete` leaves marks behind;
  - `MilestonesOK`: both copies hold the milestones and deltas of the SQL side.
* `PartsProofs!FramingInductive` and `StreamIsRead`, for any messages, field
  sizes, clocks and any way to cut the stream, up to a handshake that is
  refused. The lemmas on the coding come first: the digits of a number give it
  back (`NumberReadsBack`), a message is what its own bytes decode to
  (`MessageReadsBack`), and in the stream the message `k` lies between two
  boundaries (`StreamIs`). `FramesAreRead` speaks of whole messages;
  `FramingInv` says of every turn of the loop what makes it true:
  - `Reads`: the buffer of the context is the part of the stream from the start
    of the first unread message (after its header, if that has been read) to
    `position`, and the header held is the one of that message;
  - `HandshakesOK`: status and register are accounted for by the handshakes in
    the log. Without `registered = "now"` implying an accepted handshake, a
    duplicate could not be traced to two of them.

  For the `PeerWorker` this holds from every boundary its first chunk may begin
  at; if the handshaker's last chunk ended inside a message there is none, which
  is the named loss.
* `ValueProofs!BundleInductive` and `BuiltBundles`, for bundles of any length,
  any builders pushed, any inputs given to `sign`, and both kinds of build.
  `BuiltBundlesAreSound` speaks of the finished bundle only; `BundleInv` says what
  each stage hands to the next:
  - `SealedBundle`: all fields of the essence are there and typed, the indexes and
    the hash are in place, and the running sum ended at zero without an error. The
    hash is that of the essences *with* the incremented tag (`SealSeals`); later
    stages write only payloads, which no essence has, so it stays so
    (`SealedSame`);
  - `SignedBundle`: the payload `f - 1` places after the start of an input is
    fragment `f` of its signature. The starts are sums of security levels, so that
    no two inputs meet (`FragmentsAre`).

  From these: what lies at an input's place is its signature (`SignatureReadBack`),
  and a chain hashed `MAX - t` and then `t - MIN` times is one hashed
  `MAX - MIN` times (`RehashAdds`), so the key recovered is the key of the input
  (`SignatureRecovers`) and verification asks just whether the address is that
  key's. The running sum is the true sum unless a value is `i64::MIN`
  (`RunsExactly`), and the ledger diff, summed over its addresses in any order,
  is the sum over the transactions (`DiffAddsUp`, an exchange of two sums).
* `ValueProofs!MilestoneInductive` and `MilestonesVerify`, for keys of any level and
  depth. `MilestoneInv` says that the key is the one generated and that the `k`th
  milestone was signed with leaf `k - 1`; the rest is about the signature scheme:
  - *one-time keys*: adding one to a seed adds one to the number its trits write,
    modulo `3^n` (`IncrementCounts`), so the subseeds of the leaves differ
    (`SubseedsDiffer`), and with them all chunks of all keys (`ChunksDiffer`). Two
    chains meet only if they start with the same chunk and are equally long
    (`ChainsMeet`), so a public key is recovered from the signature just when the
    messages agree in every tryte under the level (`AddressMeets`, `VerifiesOwn`);
  - *the tree*: nodes of one level have different hashes (`NodesDiffer`, from
    the leaves up). The path of a leaf is at height `i` in node `leaf / 2^i` of
    its level (`NodesPlaced`), on the side that bit `i` of the leaf says
    (`GoesUp`). A climb with the leaf's siblings therefore ends in the root just
    when it starts with the leaf's key and the index has the leaf's bits
    (`ClimbMeets`), and the bits under the depth are the remainder by the number
    of leaves (`BitsAreMod`, `IndexCut`);
  - *exchanged fragments*: the first chunk would lie on the first chain of the key,
    and neither another chunk, nor padding, nor a public key, which is two hashes
    over several chunks, does (`SecondNotFirst`);
  - *normalization*: a sum that is not zero has a tryte that can still move towards
    zero (`SumSign`), so each of the `|sum|` moves counts (`NormalizedSum`).

Facts by induction over the naturals (the ledger, the stream, the sums and
chains of the bundle, the Merkle tree, the list answers of `StorageProofs`) use
it as a statement about sets (`DataLemmas!SetInduction`), and `RecursionExists`
gives the defining equation of a recursive function over `0..N`.

Only model-checked: liveness (`EventuallyConsistent`, `KeepsTrying`,
`DroppedSenderEnds`, `OrphanStops`, `DisconnectedIsForgotten`,
`TransactionProcessed`, the fairness part of the refinement), which needs
`ENABLED`; and of `parts` `BigIntsAgree`, `BuffersReadBack`,
`TransactionRoundTrips`, `SpongesAgree` and `BitSlicesAgree`. They compare
folds, most of them nested, with reference definitions; a proof is an induction
over data for each operator, which this prover does not do for library folds and
`RECURSIVE` operators. They are checked over all bounded inputs instead.

## 5. Findings

1. `tangle.rs:107`: a second insertion loses the SOLID flag for good
   (`tangle_again`).
2. `endpoint/worker.rs:269`: the connection of a removed contact can outlive it
   (`endpoint_removed`).
3. `tcp/mod.rs:77`: a connection lost before it is announced is never reported
   (`endpoint_loss`).
4. `handshaker.rs:148`: overlapping sessions of one endpoint id make the
   handshaker panic (`peering_unwrap`). `SoundSessions` proves that they are the
   only cause.

Where the code contradicts a comment, the property concerned holds back:

* `events.rs:78`: a dropped connection is signalled by `EndpointDisconnected`. The
  removal of a connected endpoint (`endpoint/worker.rs:261`) publishes
  `EndpointRemoved` alone, which the node only logs, so that its session goes on
  until something else ends it (`ViewMatchesOutbox`).
* `tangle.rs:271`: "there can't be a second approver that passes the filter". Any
  transaction with the bundle field of a milestone and one of its transactions as
  trunk is one; if it comes first, the walk misses the tail (`MilestoneNotMissed`).
* `message/v0/handshake.rs:32`: a difference in configuration closes the
  connection. The handshaker logs it and reads on, and accepts a later handshake
  (`FramesAreRead`).
* `u384/mod.rs:105`, `i384/mod.rs:379`: the big-endian `divide_by_two` shifts the
  top digit only, and the big-endian `sub_integer_inplace` subtracts from the top
  digit and, where it has to borrow, can step below index 0. The big-endian sign
  test looks at the lowest digit. No document speaks of the signed comparison,
  which in every copy reverses the order of two negative numbers with the same top
  digit (`BigIntsAgree`).
* `curlp.rs:57`: the transformation is applied `round` times. With an even number
  of rounds the squeeze reads the buffer of the round before; 27 and 81, the ones
  in use, are odd. `kerl.rs:70` and `:107` describe what becomes of a partial
  chunk; it is refused (`SpongesAgree`).
* `pearldiver.rs:245`: the nonce is that of the given slot. A hit is matched
  against 1 in slot 0 only, so that another slot gives a nonce of zeros (`:253`),
  and the last round writes `HASH_LEN` trits alone (`:206`). `:89`: without a hit
  the whole space was searched. The increment counts on the hashed state, and the
  space ends early (`BitSlicesAgree`, `SearchOutcome`).

Observations that no document of the repository speaks about:

* A second handshake in one chunk leaves a peer listed for good
  (`handshaker.rs:226`), and a remote that does not read stops the
  `EndpointWorker` in the middle of a send (`outbox.rs:99`).
* A milestone's signature is accepted with every index that agrees in the bits
  under the depth (`mss.rs:247`).
* `as_i8_slice` of a buffer with two to five trits a byte gives its bytes, not its
  trits, and the trits of `i64::MIN - 1` convert to `i64::MAX` (module `TritBuf`).
* In a release build `i64::MIN` passes the test against the supply
  (`transaction/builder.rs:166`); the outgoing builder does not compare
  signing inputs with addresses (`outgoing_bundle_builder.rs:259`).
* Bytes that follow the handshake in its chunk are dropped
  (`handshaker.rs:88`).
* After a crash the RocksDB side may have a transaction without its approvees or
  a milestone without its index; deleting leaves flags behind
  (`rocksdb/mod.rs:280`, `:486`, `:462`). The SQL side answers lists by position
  and narrows indexes and timestamps (`sqlx/mod.rs:428`, `:345`).
* A diff is applied in part if one of its changes is refused, and the first
  change of an unknown address is taken even if negative
  (`bee-ledger/src/worker.rs:38`).
* A cache of capacity 0 panics at its first insertion
  (`tiny_hash_cache.rs:67`).

## 6. Plan

All components with logic of their own have a module. What would come next, in
this order:

1. Theorems: the carries of `BigInt`, digit by digit, with its loops as recursive
   functions.
2. A refinement from `Endpoint` to the network that `Peering` assumes.
3. Does the node catch up if handshakes go on? Requests are sent once, an entry
   of `requested` can stay for ever and then stops the triggers, and the rest of a
   milestone's bundle is requested by nobody, so only new handshakes or
   broadcasts help. The instance of `Sync` has too many states for TLC's liveness
   check; a coarser one is needed.
4. The circle of waits as a whole: `EndpointWorker`, published events, node, byte
   channels of the sessions, transaction worker, broadcaster, command channel. Its
   parts wait in `Endpoint` and `Sync`, each for the other's hypothesis.

## 7. Not modelled

* The queues between node and `EndpointWorker` and the circle of plan item 4,
  and the DashMap guards kept across an await in `sender.rs`: hazards without a
  property.
* Merkle trees of depth 0, which `mss.rs:84` accepts: a tree of one leaf.
* The start of the network before its whitelist is initialised,
  `Protocol::shutdown` (never called by the node), the UDP stub.
* Start-up, configuration, status, metrics and logging: read once or only
  printed.
* Static peering (one loop of `AddEndpoint`), snapshot files, address parsing
  and DNS.
* `ed25519` (wraps a library), Keccak, RocksDB, Postgres: external.
* Walks and removals of the tangle that nothing calls; iterators, formatting and
  raw pointers of `bee-ternary`.
