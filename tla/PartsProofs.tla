---------------------------- MODULE PartsProofs ----------------------------
(***************************************************************************)
(* The theorems of the small components that MCParts checks: the queue of  *)
(* requests, the search for a nonce, the filter of transactions, and the   *)
(* messages and their framing.  Each is about its own specification, and   *)
(* they share nothing.                                                     *)
(***************************************************************************)
EXTENDS RequestQueue, PearlSearch, TinyHashCache, Framing, DataLemmas, FiniteSetTheorems,
        SequenceTheorems, TLAPS

-----------------------------------------------------------------------------
(* RequestQueue: RequestInv is inductive, whatever the requests and their  *)
(* number.                                                                 *)

(* The requester starts before its first poll, with nothing registered.    *)
LEMMA RequestInitial == RequestInit => RequestInv
<1> SUFFICES ASSUME RequestInit PROVE RequestInv
  OBVIOUS
<1>1. ~woken /\ woken \in BOOLEAN /\ shutdown \in BOOLEAN /\ listening \in BOOLEAN
  BY Zenon DEF RequestInit
<1>2. heap \in [Entry -> Nat] /\ wakers = 0 /\ task = "select"
  BY DEF RequestInit
<1> QED
  BY <1>1, <1>2 DEF RequestInv, RequestTypeOK, Places

(* The wakes that insert gives are enough.                                 *)
LEMMA InsertKeeps ==
  ASSUME RequestInv, NEW e \in Entry, insert(e)
  PROVE  RequestInv'
<1>1. RequestTypeOK'
  BY DEF insert, RequestInv, RequestTypeOK
<1>2. woken' <=> (woken \/ wakers > 0)
  BY DEF insert
<1>3. (wakers = 2 => wakers' = 1) /\ (wakers <= 1 => wakers' = 0)
  BY DEF insert, RequestInv, RequestTypeOK
<1>4. UNCHANGED <<task, shutdown, listening>>
  BY DEF insert
<1>5. task \in {"waiting", "popPending"} => woken'
  BY <1>2, <1>4 DEF RequestInv
<1> QED
  BY <1>1, <1>2, <1>3, <1>4, <1>5 DEF RequestInv, RequestTypeOK, Places

(* The turns of the requester and the shutdown signal.                     *)
LEMMA RequesterKeeps ==
  ASSUME RequestInv, 
         \/ Run \/ poll_pending \/ poll_shutdown \/ process_request \/ SendShutdown
         \/ \E e \in Entry : poll_ready(e)
  PROVE  RequestInv'
<1> USE DEF RequestInv, RequestTypeOK, Places
<1>1. CASE Run
  <2>1. woken' \in BOOLEAN /\ ~woken'
    BY <1>1, Zenon DEF Run
  <2>2. woken /\ task \in {"waiting", "busy"} /\ UNCHANGED <<heap, wakers, shutdown, listening>>
    BY <1>1 DEF Run
  <2>3. task' \in {"select", "busy"}
    BY <1>1 DEF Run
  <2> QED
    BY <2>1, <2>2, <2>3
<1>2. CASE poll_pending
  BY <1>2 DEF poll_pending, is_empty
<1>3. CASE poll_shutdown
  BY <1>3 DEF poll_shutdown, is_empty
<1>4. CASE process_request
  BY <1>4 DEF process_request, is_empty
<1>5. CASE SendShutdown
  BY <1>5 DEF SendShutdown, is_empty
<1>6. ASSUME NEW e \in Entry, poll_ready(e)
      PROVE  RequestInv'
  BY <1>6 DEF poll_ready, Greatest, is_empty
<1> QED
  BY <1>1, <1>2, <1>3, <1>4, <1>5, <1>6

LEMMA RequestStutter ==
  ASSUME RequestInv, UNCHANGED requestVars
  PROVE  RequestInv'
BY DEF requestVars, RequestInv, RequestTypeOK, Places, is_empty

THEOREM RequestInductive == RequestSpec => []RequestInv
<1>1. RequestInit => RequestInv
  BY RequestInitial
<1>2. RequestInv /\ [RequestNext]_requestVars => RequestInv'
  <2> SUFFICES ASSUME RequestInv, [RequestNext]_requestVars
               PROVE  RequestInv'
    OBVIOUS
  <2>1. ASSUME NEW e \in Entry, insert(e)
        PROVE  RequestInv'
    BY <2>1, InsertKeeps
  <2>2. CASE Run \/ poll_pending \/ poll_shutdown \/ process_request \/ SendShutdown
             \/ \E e \in Entry : poll_ready(e)
    BY <2>2, RequesterKeeps
  <2>3. CASE UNCHANGED requestVars
    BY <2>3, RequestStutter
  <2> QED
    BY <2>1, <2>2, <2>3 DEF RequestNext
<1> QED
  BY <1>1, <1>2, PTL DEF RequestSpec

(* No request and no shutdown signal is slept through, for any requests in *)
(* any order and however often the requester is woken for something else   *)
(* (WaitPriorityQueue::insert, WaitFut::poll, the requester's select!).    *)
THEOREM RequestsAreNotLost == RequestSpec => []NoLostRequest
<1>1. RequestInv => NoLostRequest
  BY DEF RequestInv, NoLostRequest, RequestTypeOK
<1> QED
  BY <1>1, RequestInductive, PTL

-----------------------------------------------------------------------------
(* SearchInv is inductive, for any number of threads, whenever each of     *)
(* them finds a nonce or is told that its space is exhausted.              *)

(* The values of PearlDiverState differ.                                   *)
LEMMA StatesDiffer ==
  /\ \A s, t : Shared(s) = Shared(t) => s = t
  /\ \A n, m : Completed(n) = Completed(m) => n = m
  /\ \A s, n : s # "Completed" => Shared(s) # Completed(n)
  /\ \A n \in Nonces : n # << >>
BY DEF Shared, Completed, Nonces

LEMMA SearchInitial == SearchInit => SearchInv
<1> SUFFICES ASSUME SearchInit PROVE SearchInv
  OBVIOUS
<1>1. SearchTypeOK
  BY BatchesAssumption DEF SearchInit, SearchTypeOK
<1> QED BY <1>1, StatesDiffer DEF SearchInit, SearchInv

(* search_sync starts the threads, joins them and looks at the state.      *)
LEMMA MainKeeps ==
  ASSUME SearchInv, Start \/ Join \/ LookAtState \/ Finish
  PROVE  SearchInv'
<1> USE StatesDiffer DEF SearchInv, SearchTypeOK, Fruitless
<1>1. CASE Start
  BY <1>1 DEF Start
<1>2. CASE Join
  BY <1>2 DEF Join
(* After the join nothing is about to be written: what was found shows.    *)
<1>3. CASE LookAtState
  <2>1. pdstate = Shared("Searching") => Fruitless
    <3>1. \A n \in found : n[1] \in Cores
      BY DEF Nonces
    <3> QED BY <1>3, <3>1 DEF LookAtState
  <2> QED BY <1>3, <2>1 DEF LookAtState
<1>4. CASE Finish
  BY <1>4 DEF Finish
<1> QED BY <1>1, <1>2, <1>3, <1>4

(* A thread looks at the state, searches a batch and writes what it found. *)
LEMMA ThreadKeeps ==
  ASSUME SearchInv, NEW c \in Cores,
         Spawn(c) \/ Check(c) \/ DiveFound(c) \/ DiveOn(c) \/ Exhaust(c) \/ Write(c)
  PROVE  SearchInv'
<1> USE StatesDiffer, BatchesAssumption DEF SearchInv, SearchTypeOK, Fruitless
<1>1. CASE Spawn(c)
  BY <1>1 DEF Spawn
<1>2. CASE Check(c)
  BY <1>2 DEF Check
<1>3. CASE DiveFound(c)
  BY <1>3 DEF DiveFound, Nonces
<1>4. CASE DiveOn(c)
  <2>1. /\ thread[c] = "dive" /\ batch[c] + 1 \in 1..Batches
        /\ thread' = [thread EXCEPT ![c] = "check"]
        /\ batch' = [batch EXCEPT ![c] = batch[c] + 1]
        /\ UNCHANGED <<pdstate, main, found, exhausted, cancel>>
    BY <1>4 DEF DiveOn
  <2>2. main = "spawn" /\ \A n \in found : n[1] \in Cores /\ n[1] # c
    BY <2>1 DEF Nonces
  <2> QED BY <2>1, <2>2
<1>5. CASE Exhaust(c)
  <2>1. /\ thread[c] = "dive" /\ exhausted' = exhausted \cup {c}
        /\ thread' = [thread EXCEPT ![c] = "done"]
        /\ UNCHANGED <<pdstate, main, batch, found, cancel>>
    BY <1>5 DEF Exhaust
  <2>2. main = "spawn" /\ \A n \in found : n[1] \in Cores /\ n[1] # c
    BY <2>1 DEF Nonces
  <2> QED BY <2>1, <2>2
<1>6. CASE Write(c)
  BY <1>6 DEF Write, Nonces
<1> QED BY <1>1, <1>2, <1>3, <1>4, <1>5, <1>6

(* cancel may write at any time after it has seen Searching.               *)
LEMMA CancelKeeps ==
  ASSUME SearchInv, CancelRead \/ CancelWrite
  PROVE  SearchInv'
<1> USE StatesDiffer DEF SearchInv, SearchTypeOK, Fruitless
<1>1. CASE CancelRead
  BY <1>1 DEF CancelRead
<1>2. CASE CancelWrite
  BY <1>2 DEF CancelWrite
<1> QED BY <1>1, <1>2

THEOREM SearchInductive == SearchSpec => []SearchInv
<1>1. SearchInv /\ [SearchNext]_searchVars => SearchInv'
  <2> SUFFICES ASSUME SearchInv, [SearchNext]_searchVars PROVE SearchInv'
    OBVIOUS
  <2>1. CASE UNCHANGED searchVars
    BY <2>1 DEF searchVars, SearchInv, SearchTypeOK, Fruitless
  <2> QED BY <2>1, MainKeeps, ThreadKeeps, CancelKeeps DEF SearchNext
<1> QED BY <1>1, SearchInitial, PTL DEF SearchSpec

(* However many threads search_sync starts, and however their checks and   *)
(* writes and the two halves of cancel interleave, it returns with the     *)
(* outcome its state names: no nonce only if inner_increment has stopped   *)
(* every thread (which need not mean that the space was searched) and      *)
(* none was found, otherwise one that was found, unless it was cancelled.  *)
THEOREM SearchEndsAsItSays == SearchSpec => []SearchOutcome
<1>1. SearchInv => SearchOutcome
  BY StatesDiffer DEF SearchInv, SearchTypeOK, SearchOutcome, Fruitless
<1> QED BY <1>1, SearchInductive, PTL

-----------------------------------------------------------------------------
(* CacheInv is inductive, for every capacity, every stream of transactions *)
(* and every digest function, collisions included.                         *)

LEMMA CacheInitial == CacheInit => CacheInv
<1> SUFFICES ASSUME CacheInit PROVE CacheInv
  OBVIOUS
<1>1. CacheTypeOK
  <2>1. cachePanic \in BOOLEAN
    BY Zenon DEF CacheInit
  <2> QED BY <2>1, CacheAssumption DEF CacheInit, CacheTypeOK
<1>2. Len(accepted) = 0 /\ Len(elem_order) = 0 /\ Kept = 0
  BY <1>1 DEF CacheInit, CacheTypeOK, Kept
<1>3. IsFiniteSet(cache) /\ Cardinality(cache) = 0
  BY FS_EmptySet DEF CacheInit
<1> QED BY <1>1, <1>2, <1>3 DEF CacheInit, CacheInv

(* insert while there is room: nothing is forgotten.                       *)
LEMMA InsertWithRoom ==
  ASSUME CacheInv, NEW h \in Digests, h \notin cache, Cardinality(cache) < max_capacity,
         Insert(h, cache, elem_order)
  PROVE  CacheInv'
<1> USE DEF CacheInv
<1>1. /\ accepted \in Seq(Digests) /\ elem_order \in Seq(Digests) /\ max_capacity \in Nat
      /\ Len(accepted) \in Nat
  BY DEF CacheTypeOK
<1>2. Len(accepted) < max_capacity /\ Kept = Len(accepted)
  BY <1>1 DEF Kept
<1>3. /\ accepted' = Append(accepted, h) /\ elem_order' = Append(elem_order, h)
      /\ cache' = cache \union {h} /\ UNCHANGED <<max_capacity, cachePanic>>
  BY DEF Insert
<1>4. CacheTypeOK'
  BY <1>3 DEF CacheTypeOK
<1>5. /\ Len(accepted') = Len(accepted) + 1 /\ Len(elem_order') = Len(accepted) + 1
      /\ Kept' = Len(accepted) + 1
      /\ accepted'[Len(accepted) + 1] = h /\ elem_order'[Len(accepted) + 1] = h
      /\ \A i \in 1..Len(accepted) : accepted'[i] = accepted[i] /\ elem_order'[i] = elem_order[i]
  BY <1>1, <1>2, <1>3 DEF Kept
<1>6. IsFiniteSet(cache') /\ Cardinality(cache') = Kept'
  BY <1>2, <1>3, <1>5, FS_AddElement
<1>7. \A i \in 1..Len(accepted) : elem_order[i] = accepted[i] /\ accepted[i] # h
  BY <1>1, <1>2
<1>8. \A i \in 1..Kept' : elem_order'[i] = accepted'[Len(accepted') - Kept' + i]
  <2> SUFFICES ASSUME NEW i \in 1..Kept' PROVE elem_order'[i] = accepted'[i]
    BY <1>1, <1>5
  <2>1. CASE i \in 1..Len(accepted)
    BY <1>5, <1>7, <2>1
  <2>2. CASE i = Len(accepted) + 1
    BY <1>5, <2>2
  <2> QED BY <1>1, <1>5, <2>1, <2>2
<1>9. cache' = {elem_order'[i] : i \in 1..Kept'}
  <2>1. 1..Kept' = (1..Kept) \union {Len(accepted) + 1}
    BY <1>1, <1>2, <1>5
  <2> QED BY <1>1, <1>2, <1>3, <1>5, <2>1
<1>10. \A i, j \in 1..Len(accepted') : i < j /\ accepted'[i] = accepted'[j] => j - i > max_capacity'
  BY <1>1, <1>3, <1>5, <1>7
<1> QED BY <1>1, <1>2, <1>3, <1>4, <1>5, <1>6, <1>8, <1>9, <1>10

(* insert into a full cache: the oldest digest goes, and only that one,    *)
(* because the digests in the queue differ.                                *)
LEMMA InsertWhenFull ==
  ASSUME CacheInv, NEW h \in Digests, h \notin cache, Cardinality(cache) >= max_capacity,
         elem_order # << >>, Insert(h, cache \ {Head(elem_order)}, Tail(elem_order))
  PROVE  CacheInv'
<1> USE DEF CacheInv
<1> DEFINE n == Len(accepted)
           c == max_capacity
<1>1. /\ accepted \in Seq(Digests) /\ elem_order \in Seq(Digests) /\ c \in Nat /\ n \in Nat
  BY DEF CacheTypeOK
<1>2. Kept = c /\ c <= n /\ c > 0 /\ Len(elem_order) = c
  BY <1>1 DEF Kept
<1>3. /\ accepted' = Append(accepted, h) /\ elem_order' = Append(Tail(elem_order), h)
      /\ cache' = (cache \ {Head(elem_order)}) \union {h} /\ UNCHANGED <<max_capacity, cachePanic>>
  BY DEF Insert
<1>4. CacheTypeOK'
  BY <1>3, <1>2, <1>1 DEF CacheTypeOK
<1>5. /\ Len(accepted') = n + 1 /\ accepted'[n + 1] = h
      /\ \A i \in 1..n : accepted'[i] = accepted[i]
  BY <1>1, <1>3
<1>6. /\ Len(elem_order') = c /\ elem_order'[c] = h /\ Head(elem_order) = elem_order[1]
      /\ \A i \in 1..(c - 1) : elem_order'[i] = elem_order[i + 1]
  BY <1>1, <1>2, <1>3
<1>7. Kept' = c
  BY <1>1, <1>2, <1>3, <1>5 DEF Kept
<1>8. \A i \in 1..c : elem_order[i] = accepted[n - c + i]
  BY <1>2
<1> HIDE DEF CacheInv
<1>9. \A i \in 1..Kept' : elem_order'[i] = accepted'[Len(accepted') - Kept' + i]
  <2> TAKE i \in 1..Kept'
  <2>1. CASE i = c
    BY <1>1, <1>2, <1>5, <1>6, <1>7, <2>1
  <2>2. CASE i # c
    <3>1. i \in 1..(c - 1) /\ i + 1 \in 1..c /\ n - c + (i + 1) \in 1..n
      BY <1>1, <1>2, <1>7, <2>2
    <3>2. Len(accepted') - Kept' + i = n - c + (i + 1)
      BY <1>1, <1>5, <1>7, <3>1
    <3> QED BY <1>5, <1>6, <1>8, <3>1, <3>2
  <2> QED BY <2>1, <2>2
<1>10. \A i \in 2..c : elem_order[i] # elem_order[1]
  <2> TAKE i \in 2..c
  <2>1. n - c + 1 \in 1..n /\ n - c + i \in 1..n /\ n - c + 1 < n - c + i /\ (n - c + i) - (n - c + 1) <= c
    BY <1>1, <1>2
  <2>2. elem_order[1] = accepted[n - c + 1] /\ elem_order[i] = accepted[n - c + i]
    BY <1>1, <1>2, <1>8
  <2>3. accepted[n - c + 1] = accepted[n - c + i] => (n - c + i) - (n - c + 1) > c
    BY <2>1 DEF CacheInv
  <2> QED BY <1>1, <2>1, <2>2, <2>3
<1>11. cache = {elem_order[i] : i \in 1..c} /\ IsFiniteSet(cache) /\ Cardinality(cache) = c
  BY <1>2 DEF CacheInv
<1>12. cache' = {elem_order'[i] : i \in 1..Kept'}
  <2>1. cache \ {elem_order[1]} = {elem_order[i] : i \in 2..c}
    BY <1>1, <1>2, <1>10, <1>11
  <2>2. {elem_order[i] : i \in 2..c} = {elem_order'[i] : i \in 1..(c - 1)}
    <3>1. \A i \in 2..c : i - 1 \in 1..(c - 1) /\ elem_order'[i - 1] = elem_order[i]
      BY <1>1, <1>2, <1>6
    <3>2. \A i \in 1..(c - 1) : i + 1 \in 2..c /\ elem_order'[i] = elem_order[i + 1]
      BY <1>1, <1>2, <1>6
    <3> QED BY <3>1, <3>2
  <2>3. 1..c = (1..(c - 1)) \union {c}
    BY <1>1, <1>2
  <2>4. {elem_order'[i] : i \in 1..c} = {elem_order'[i] : i \in 1..(c - 1)} \union {h}
    BY ONLY <1>6, <2>3
  <2> QED BY ONLY <1>3, <1>6, <1>7, <2>1, <2>2, <2>4
<1>13. IsFiniteSet(cache') /\ Cardinality(cache') = Kept'
  <2>1. elem_order[1] \in cache
    BY <1>1, <1>2, <1>11
  <2>2. IsFiniteSet(cache \ {elem_order[1]}) /\ Cardinality(cache \ {elem_order[1]}) = c - 1
    BY <1>11, <2>1, FS_RemoveElement
  <2>3. h \notin cache \ {elem_order[1]} /\ (c - 1) + 1 = c
    BY <1>1
  <2>4. cache' = (cache \ {elem_order[1]}) \union {h}
    BY <1>3, <1>6
  <2> QED BY <1>1, <1>7, <2>2, <2>3, <2>4, FS_AddElement
<1>14. \A i, j \in 1..Len(accepted') : i < j /\ accepted'[i] = accepted'[j] => j - i > max_capacity'
  <2> TAKE i, j \in 1..Len(accepted')
  <2> HAVE i < j /\ accepted'[i] = accepted'[j]
  <2>1. i \in 1..n /\ accepted'[i] = accepted[i]
    BY <1>1, <1>5
  <2>2. CASE j = n + 1
    <3>1. accepted[i] = h
      BY <1>5, <2>1, <2>2
    <3>2. CASE i > n - c
      <4>1. i - (n - c) \in 1..c /\ n - c + (i - (n - c)) = i
        BY ONLY <1>1, <1>2, <2>1, <3>2
      <4>2. elem_order[i - (n - c)] = accepted[i]
        BY <1>8, <4>1
      <4> QED BY <1>11, <3>1, <4>1, <4>2
    <3>3. CASE i <= n - c
      BY <1>1, <1>3, <2>1, <2>2, <3>3
    <3> QED BY <1>1, <2>1, <3>2, <3>3
  <2>3. CASE j # n + 1
    <3>1. j \in 1..n /\ accepted'[j] = accepted[j]
      BY <1>1, <1>5, <2>3
    <3> QED BY <1>3, <2>1, <3>1 DEF CacheInv
  <2> QED BY <2>2, <2>3
<1>15. (cachePanic' => max_capacity' = 0) /\ (max_capacity' = 0 => Len(accepted') = 0)
  BY <1>1, <1>2, <1>3 DEF CacheInv
<1> QED BY <1>4, <1>6, <1>7, <1>9, <1>12, <1>13, <1>14, <1>15 DEF CacheInv

THEOREM CacheInductive == CacheSpec => []CacheInv
<1>1. CacheInv /\ [CacheNext]_cacheVars => CacheInv'
  <2> SUFFICES ASSUME CacheInv, [CacheNext]_cacheVars PROVE CacheInv'
    OBVIOUS
  <2>1. CASE UNCHANGED cacheVars
    BY <2>1 DEF cacheVars, CacheInv, CacheTypeOK, Kept
  <2>2. ASSUME NEW b \in Bytes, cache_insert(b) PROVE CacheInv'
    <3>1. xx_hash[b] \in Digests /\ xx_hash[b] \notin cache
      BY <2>2 DEF cache_insert, contains, Digests
    <3>2. CASE Cardinality(cache) >= max_capacity
      BY <2>2, <3>1, <3>2, InsertWhenFull DEF cache_insert
    <3>3. CASE ~(Cardinality(cache) >= max_capacity)
      <4>1. Cardinality(cache) < max_capacity
        BY <3>3 DEF CacheInv, CacheTypeOK, Kept
      <4> QED BY <2>2, <3>1, <3>3, <4>1, InsertWithRoom DEF cache_insert
    <3> QED BY <3>2, <3>3
  <2>3. ASSUME NEW b \in Bytes, cache_insert_panics(b) PROVE CacheInv'
    <3>1. max_capacity = 0
      BY <2>3 DEF cache_insert_panics, CacheInv, CacheTypeOK, Kept
    <3>2. cachePanic' \in BOOLEAN /\ UNCHANGED <<max_capacity, cache, elem_order, accepted>>
      BY <2>3, Zenon DEF cache_insert_panics
    <3> QED BY <3>1, <3>2 DEF CacheInv, CacheTypeOK, Kept
  <2> QED BY <2>1, <2>2, <2>3 DEF CacheNext
<1> QED BY <1>1, CacheInitial, PTL DEF CacheSpec

(* The filter holds the last max_capacity transactions that came through,  *)
(* for every capacity: one comes through again only after max_capacity     *)
(* others, and pop_front finds a digest unless the capacity is zero.       *)
THEOREM FilterForgetsTheOldest == CacheSpec => []FilterForgetsInOrder
<1>1. ASSUME CacheInv PROVE FilterForgetsInOrder
  <2> DEFINE n == Len(accepted)
  <2>1. /\ accepted \in Seq(Digests) /\ elem_order \in Seq(Digests)
        /\ n \in Nat /\ Kept \in Nat /\ Kept <= n
    BY <1>1 DEF CacheInv, CacheTypeOK, Kept
  <2>2. elem_order = SubSeq(accepted, n - Kept + 1, n)
    <3>1. /\ SubSeq(accepted, n - Kept + 1, n) \in Seq(Digests)
          /\ Len(SubSeq(accepted, n - Kept + 1, n)) = Kept
          /\ \A i \in 1..Kept : SubSeq(accepted, n - Kept + 1, n)[i] = accepted[n - Kept + i]
      BY <2>1
    <3> QED BY <1>1, <2>1, <3>1 DEF CacheInv
  <2>3. DOMAIN elem_order = 1..Kept
    BY <1>1, <2>1 DEF CacheInv
  <2>4. elem_order = SubSeq(accepted, n - (IF n <= max_capacity THEN n ELSE max_capacity) + 1, n)
    BY <2>2 DEF Kept
  <2> QED BY <1>1, <2>3, <2>4 DEF CacheInv, FilterForgetsInOrder
<1> QED BY <1>1, CacheInductive, PTL

-----------------------------------------------------------------------------
(* Framing: FramingInv is inductive, for any streams of well-formed        *)
(* messages, any sizes of the fields and any way to cut the stream;        *)
(* FramesAreRead follows from it.  First, numbers and their bytes.         *)

LEMMA DivMod ==
  ASSUME NEW x \in Nat
  PROVE  x = ByteBase * (x \div ByteBase) + (x % ByteBase)
<1>1. ByteBase \in Nat /\ ByteBase > 1
  BY MessagesAssumption
<1> QED BY <1>1

LEMMA Widen ==
  ASSUME NEW S, NEW T, S \subseteq T, NEW s \in Seq(S)
  PROVE  s \in Seq(T)
<1> DEFINE f == [k \in 1..Len(s) |-> s[k]]
<1>1. s = f /\ Len(s) \in Nat /\ \A k \in 1..Len(s) : s[k] \in T
  OBVIOUS
<1>2. f \in Seq(T)
  BY <1>1
<1> QED BY <1>1, <1>2

LEMMA ShiftedIs ==
  ASSUME NEW n \in Nat, NEW size \in Nat
  PROVE  /\ Shifted(n, size) \in [0..size -> Nat]
         /\ Shifted(n, size)[0] = n
         /\ \A j \in 1..size : Shifted(n, size)[j] = Shifted(n, size)[j - 1] \div ByteBase
<1> DEFINE step == [p \in Nat \X Nat |-> p[2] \div ByteBase]
           F(g) == [j \in 0..size |-> IF j = 0 THEN n ELSE g[j - 1] \div ByteBase]
<1>1. ByteBase \in Nat /\ ByteBase > 1
  BY MessagesAssumption
<1>2. step \in [Nat \X Nat -> Nat]
  <2>1. \A x \in Nat : x \div ByteBase \in Nat
    BY <1>1
  <2> QED BY <2>1
<1>3. PICK w : Solves(w, Nat, n, step, size)
  <2> HIDE DEF step
  <2> QED BY <1>2, RecursionExists
<1>4. w \in [0..size -> Nat] /\ w[0] = n
  BY <1>3 DEF Solves
<1>5. \A j \in 1..size : w[j] = w[j - 1] \div ByteBase
  <2> SUFFICES ASSUME NEW j \in 1..size PROVE w[j] = w[j - 1] \div ByteBase
    OBVIOUS
  <2>1. j \in Nat /\ j - 1 \in 0..size /\ w[j - 1] \in Nat
    BY <1>4
  <2>2. w[j] = step[<<j, w[j - 1]>>]
    BY <1>3 DEF Solves
  <2> QED BY <2>1, <2>2
<1>6. w = F(w)
  <2>1. \A j \in 0..size : w[j] = F(w)[j]
    BY <1>4, <1>5
  <2> HIDE DEF F
  <2>2. F(w) = [j \in 0..size |-> F(w)[j]]
    BY DEF F
  <2> QED BY <1>4, <2>1, <2>2
<1>7. ASSUME NEW v, v = F(v) PROVE v = w
  <2>1. v[0] = w[0] /\ v = [j \in 0..size |-> v[j]]
    BY <1>4, <1>7
  <2>2. \A j \in 1..size : v[j - 1] = w[j - 1] => v[j] = w[j]
    <3> SUFFICES ASSUME NEW j \in 1..size, v[j - 1] = w[j - 1] PROVE v[j] = w[j]
      OBVIOUS
    <3>1. F(v)[j] = v[j - 1] \div ByteBase
      OBVIOUS
    <3> QED BY <1>5, <1>7, <3>1
  <2>3. \A j \in 0..size : v[j] = w[j]
    <3>1. v[0] = w[0]
      BY <2>1
    <3> HIDE DEF F, step
    <3>2. InStep(v, w, size)
      BY <2>2, <3>1 DEF InStep
    <3>3. SameTo(v, w, size)
      BY <3>2, StepsAgree
    <3> QED BY <3>3 DEF SameTo
  <2> QED BY <1>4, <2>1, <2>3
<1>8. Shifted(n, size) = w
  <2>1. Shifted(n, size) = CHOOSE g : g = F(g)
    BY DEF Shifted
  <2> HIDE DEF F
  <2> QED BY <1>6, <1>7, <2>1
<1> HIDE DEF F, step
<1> QED BY <1>4, <1>5, <1>8

LEMMA NumberIs ==
  ASSUME NEW bytes \in Seq(Nat)
  PROVE  \E w \in [0..Len(bytes) -> Nat] :
           /\ from_be_bytes(bytes) = w[Len(bytes)]
           /\ w[0] = 0
           /\ \A k \in 1..Len(bytes) : w[k] = ByteBase * w[k - 1] + bytes[k]
<1> DEFINE N == Len(bytes)
           step == [p \in Nat \X Nat |-> IF p[1] \in 1..N THEN ByteBase * p[2] + bytes[p[1]] ELSE p[2]]
           F(g) == [k \in 0..N |-> IF k = 0 THEN 0 ELSE ByteBase * g[k - 1] + bytes[k]]
<1>1. ByteBase \in Nat /\ N \in Nat /\ \A k \in 1..N : bytes[k] \in Nat
  BY MessagesAssumption
<1> HIDE DEF N
<1>2. step \in [Nat \X Nat -> Nat]
  <2>1. \A k \in 1..N, x \in Nat : ByteBase * x + bytes[k] \in Nat
    BY <1>1
  <2> QED BY <2>1
<1>3. PICK w : Solves(w, Nat, 0, step, N)
  <2> HIDE DEF step
  <2>1. 0 \in Nat
    OBVIOUS
  <2> QED BY <1>1, <1>2, <2>1, RecursionExists, Zenon
<1>4. w \in [0..N -> Nat] /\ w[0] = 0
  BY <1>3 DEF Solves
<1>5. \A k \in 1..N : w[k] = ByteBase * w[k - 1] + bytes[k]
  <2> SUFFICES ASSUME NEW k \in 1..N PROVE w[k] = ByteBase * w[k - 1] + bytes[k]
    OBVIOUS
  <2>1. k \in Nat /\ k - 1 \in 0..N /\ w[k - 1] \in Nat
    BY <1>1, <1>4
  <2>2. w[k] = step[<<k, w[k - 1]>>]
    BY <1>3 DEF Solves
  <2> QED BY <2>1, <2>2
<1>6. w = F(w)
  <2>1. \A k \in 0..N : w[k] = F(w)[k]
    BY <1>1, <1>4, <1>5
  <2> HIDE DEF F
  <2>2. F(w) = [k \in 0..N |-> F(w)[k]]
    BY DEF F
  <2> QED BY <1>4, <2>1, <2>2
<1>7. ASSUME NEW v, v = F(v) PROVE v = w
  <2>1. v[0] = w[0] /\ v = [k \in 0..N |-> v[k]]
    BY <1>1, <1>4, <1>7
  <2>2. \A k \in 1..N : v[k - 1] = w[k - 1] => v[k] = w[k]
    <3> SUFFICES ASSUME NEW k \in 1..N, v[k - 1] = w[k - 1] PROVE v[k] = w[k]
      OBVIOUS
    <3>1. F(v)[k] = ByteBase * v[k - 1] + bytes[k]
      BY <1>1
    <3> QED BY <1>5, <1>7, <3>1
  <2>3. \A k \in 0..N : v[k] = w[k]
    <3>1. N \in Nat /\ v[0] = w[0]
      BY <1>1, <2>1
    <3> HIDE DEF F, step, N
    <3>2. InStep(v, w, N)
      BY <2>2, <3>1 DEF InStep
    <3>3. SameTo(v, w, N)
      BY <3>1, <3>2, StepsAgree
    <3> QED BY <3>3 DEF SameTo
  <2> QED BY <1>4, <2>1, <2>3
<1>8. from_be_bytes(bytes) = w[N]
  <2>1. from_be_bytes(bytes) = (CHOOSE g : g = F(g))[N]
    BY DEF from_be_bytes, N
  <2> HIDE DEF F
  <2> QED BY <1>6, <1>7, <2>1
<1> HIDE DEF F, step
<1> QED BY <1>4, <1>5, <1>8 DEF N

(* The bytes of a number that fits are that number again.                  *)
LEMMA NumberReadsBack ==
  ASSUME NEW size \in Nat, NEW n \in Numbers(size)
  PROVE  /\ to_be_bytes(n, size) \in Seq(Byte) /\ Len(to_be_bytes(n, size)) = size
         /\ from_be_bytes(to_be_bytes(n, size)) = n
<1> DEFINE s == Shifted(n, size)
           bytes == to_be_bytes(n, size)
<1>1. ByteBase \in Nat /\ ByteBase > 1 /\ n \in Nat /\ s[size] = 0
  BY MessagesAssumption DEF Numbers
<1>2. s \in [0..size -> Nat] /\ s[0] = n /\ \A j \in 1..size : s[j] = s[j - 1] \div ByteBase
  BY <1>1, ShiftedIs
<1> HIDE DEF s
<1>3. bytes = [k \in 1..size |-> s[size - k] % ByteBase]
  BY DEF to_be_bytes, s
<1>4. \A k \in 1..size : s[size - k] % ByteBase \in Byte
  <2> SUFFICES ASSUME NEW k \in 1..size PROVE s[size - k] % ByteBase \in Byte
    OBVIOUS
  <2>1. s[size - k] \in Nat
    BY <1>2
  <2> QED BY <1>1, <2>1 DEF Byte
<1> HIDE DEF bytes
<1>5. bytes \in Seq(Byte) /\ Len(bytes) = size
  BY <1>3, <1>4
<1>6. Byte \subseteq Nat
  BY <1>1 DEF Byte
<1>7. bytes \in Seq(Nat)
  BY <1>5, <1>6, Widen
<1>8. PICK w \in [0..size -> Nat] :
        /\ from_be_bytes(bytes) = w[size]
        /\ w[0] = 0
        /\ \A k \in 1..size : w[k] = ByteBase * w[k - 1] + bytes[k]
  BY <1>5, <1>7, NumberIs, Zenon
<1> DEFINE back == [k \in 0..size |-> s[size - k]]
<1>9. \A k \in 1..size : back[k] = ByteBase * back[k - 1] + bytes[k]
  <2> SUFFICES ASSUME NEW k \in 1..size PROVE back[k] = ByteBase * back[k - 1] + bytes[k]
    OBVIOUS
  <2> DEFINE j == size - k
  <2>1. j \in 0..size /\ j + 1 \in 1..size /\ (j + 1) - 1 = j /\ size - (k - 1) = j + 1
    OBVIOUS
  <2>2. s[j] \in Nat /\ s[j + 1] = s[j] \div ByteBase
    <3> HIDE DEF j
    <3> QED BY <1>2, <2>1
  <2>3. s[j] = ByteBase * (s[j] \div ByteBase) + (s[j] % ByteBase)
    BY <2>2, DivMod
  <2>4. back[k] = s[j] /\ back[k - 1] = s[j + 1] /\ bytes[k] = s[j] % ByteBase
    BY <1>3, <2>1
  <2> HIDE DEF j, back
  <2> QED BY <2>2, <2>3, <2>4
<1>10. \A k \in 0..size : w[k] = back[k]
  <2>1. w[0] = back[0]
    BY <1>1, <1>8
  <2>2. \A k \in 1..size : w[k - 1] = back[k - 1] => w[k] = back[k]
    <3> HIDE DEF back
    <3> QED BY <1>8, <1>9
  <2> HIDE DEF back
  <2>3. InStep(w, back, size)
    BY <2>1, <2>2 DEF InStep
  <2>4. SameTo(w, back, size)
    BY <2>3, StepsAgree
  <2> QED BY <2>4 DEF SameTo
<1>11. w[size] = n
  BY <1>2, <1>10
<1> QED BY <1>5, <1>8, <1>11 DEF bytes

-----------------------------------------------------------------------------
(* Messages and their bytes.                                               *)

(* A concatenation is cut where its parts meet.                            *)
LEMMA Cut ==
  ASSUME NEW S, NEW a \in Seq(S), NEW b \in Seq(S)
  PROVE  /\ a \o b \in Seq(S) /\ Len(a \o b) = Len(a) + Len(b)
         /\ Lead(a \o b, Len(a)) = a
         /\ Rest(a \o b, Len(a)) = b
<1> DEFINE c == a \o b
<1>1. /\ c \in Seq(S) /\ Len(c) = Len(a) + Len(b) /\ Len(a) \in Nat /\ Len(b) \in Nat
      /\ \A i \in 1..Len(c) : c[i] = IF i <= Len(a) THEN a[i] ELSE b[i - Len(a)]
  BY ConcatProperties
<1> HIDE DEF c
<1>2. Lead(c, Len(a)) = a
  <2>1. \A i \in 1..Len(a) : c[i] \in S
    BY <1>1
  <2>2. /\ Lead(c, Len(a)) \in Seq(S) /\ Len(Lead(c, Len(a))) = Len(a)
        /\ \A i \in 1..Len(a) : Lead(c, Len(a))[i] = c[i]
    BY <1>1, <2>1 DEF Lead
  <2>3. \A i \in 1..Len(a) : Lead(c, Len(a))[i] = a[i]
    BY <1>1, <2>2
  <2> QED BY <1>1, <2>2, <2>3, SeqEqual
<1>3. Rest(c, Len(a)) = b
  <2>1. \A i \in (Len(a) + 1)..Len(c) : c[i] \in S
    BY <1>1
  <2>2. /\ Rest(c, Len(a)) \in Seq(S) /\ Len(Rest(c, Len(a))) = Len(b)
        /\ \A i \in 1..Len(b) : Rest(c, Len(a))[i] = c[Len(a) + i]
    <3>1. Rest(c, Len(a)) = SubSeq(c, Len(a) + 1, Len(c)) /\ Len(a) + 1 \in Int /\ Len(c) \in Int
      BY <1>1 DEF Rest
    <3>2. /\ Rest(c, Len(a)) \in Seq(S)
          /\ Len(Rest(c, Len(a))) = IF Len(a) + 1 <= Len(c) THEN Len(c) - (Len(a) + 1) + 1 ELSE 0
          /\ \A i \in 1..(Len(c) - (Len(a) + 1) + 1) : Rest(c, Len(a))[i] = c[(Len(a) + 1) + i - 1]
      BY <2>1, <3>1, SubSeqProperties
    <3>3. Len(c) - (Len(a) + 1) + 1 = Len(b) /\ (Len(b) = 0 <=> ~(Len(a) + 1 <= Len(c)))
      BY <1>1
    <3>4. \A i \in 1..Len(b) : (Len(a) + 1) + i - 1 = Len(a) + i
      BY <1>1
    <3> QED BY <3>2, <3>3, <3>4
  <2>3. \A i \in 1..Len(b) : Rest(c, Len(a))[i] = b[i]
    <3>1. \A i \in 1..Len(b) : /\ Len(a) + i \in 1..Len(c) /\ ~(Len(a) + i <= Len(a))
                              /\ (Len(a) + i) - Len(a) = i
      BY <1>1
    <3> QED BY <1>1, <2>2, <3>1
  <2> QED BY <1>1, <2>2, <2>3, SeqEqual
<1> QED BY <1>1, <1>2, <1>3 DEF c

LEMMA HandshakeReadsBack ==
  ASSUME NEW m \in Message, m.type = "Handshake"
  PROVE  /\ into_bytes(m) \in Seq(Byte)
         /\ from_bytes(m.type, into_bytes(m)) = m
<1> DEFINE p == to_be_bytes(m.port, PORT_SIZE)
           t == to_be_bytes(m.timestamp, TIMESTAMP_SIZE)
           c == m.coordinator
           w == <<m.mwm>>
           v == m.versions
           bytes == into_bytes(m)
<1>1. m \in [type : {"Handshake"}, port : Numbers(PORT_SIZE), timestamp : Numbers(TIMESTAMP_SIZE),
             coordinator : ByteStrings(COORDINATOR_SIZE), mwm : Byte, versions : Seq(Byte)]
  BY DEF Message
<1>2. /\ m.port \in Numbers(PORT_SIZE) /\ m.timestamp \in Numbers(TIMESTAMP_SIZE)
      /\ c \in Seq(Byte) /\ Len(c) = COORDINATOR_SIZE /\ m.mwm \in Byte /\ v \in Seq(Byte)
  BY <1>1 DEF ByteStrings
<1>3. PORT_SIZE \in Nat /\ TIMESTAMP_SIZE \in Nat /\ COORDINATOR_SIZE \in Nat
  BY MessagesAssumption
<1>4. p \in Seq(Byte) /\ Len(p) = PORT_SIZE /\ from_be_bytes(p) = m.port
  BY <1>2, <1>3, NumberReadsBack
<1>5. t \in Seq(Byte) /\ Len(t) = TIMESTAMP_SIZE /\ from_be_bytes(t) = m.timestamp
  BY <1>2, <1>3, NumberReadsBack
<1>6. w \in Seq(Byte) /\ Len(w) = 1 /\ w[1] = m.mwm
  BY <1>2
<1>7. bytes = (((p \o t) \o c) \o w) \o v
  BY DEF into_bytes, Handshake_into_bytes
<1> HIDE DEF p, t, c, w, v, bytes
<1>8. bytes = p \o (t \o (c \o (w \o v)))
  <2>0. \A x, y, z \in Seq(Byte) : (x \o y) \o z = x \o (y \o z)
    BY ConcatAssociative
  <2>1. w \o v \in Seq(Byte) /\ c \o (w \o v) \in Seq(Byte) /\ p \o t \in Seq(Byte) /\ (p \o t) \o c \in Seq(Byte)
    BY <1>2, <1>4, <1>5, <1>6, Cut
  <2>2. bytes = ((p \o t) \o c) \o (w \o v)
    <3> DEFINE a == (p \o t) \o c
    <3>1. a \in Seq(Byte) /\ w \in Seq(Byte) /\ v \in Seq(Byte) /\ bytes = (a \o w) \o v
      BY <1>2, <1>6, <1>7, <2>1
    <3> HIDE DEF a
    <3>2. (a \o w) \o v = a \o (w \o v)
      BY <2>0, <3>1
    <3> QED BY <3>1, <3>2 DEF a
  <2>3. bytes = (p \o t) \o (c \o (w \o v))
    <3>1. ((p \o t) \o c) \o (w \o v) = (p \o t) \o (c \o (w \o v))
      <4> DEFINE x == p \o t
                 z == w \o v
      <4>1. x \in Seq(Byte) /\ c \in Seq(Byte) /\ z \in Seq(Byte)
        BY <1>2, <2>1
      <4> HIDE DEF x, z
      <4>2. (x \o c) \o z = x \o (c \o z)
        BY <2>0, <4>1
      <4> QED BY <4>2 DEF x, z
    <3> QED BY <2>2, <3>1
  <2> DEFINE z == c \o (w \o v)
  <2>4. p \in Seq(Byte) /\ t \in Seq(Byte) /\ z \in Seq(Byte) /\ bytes = (p \o t) \o z
    BY <1>4, <1>5, <2>1, <2>3
  <2> HIDE DEF z
  <2>5. (p \o t) \o z = p \o (t \o z)
    BY <2>0, <2>4
  <2> QED BY <2>4, <2>5 DEF z
<1> DEFINE mwm == w \o v
           coo == c \o mwm
           stamp == t \o coo
<1>9. mwm \in Seq(Byte) /\ Rest(mwm, 1) = v /\ mwm[1] = m.mwm
  <2>1. mwm \in Seq(Byte) /\ Rest(mwm, 1) = v
    BY <1>2, <1>6, Cut
  <2>2. 1 \in 1..(Len(w) + Len(v)) /\ 1 <= Len(w)
    BY <1>2, <1>6
  <2>3. mwm[1] = w[1]
    BY <1>2, <1>6, <2>2, ConcatProperties
  <2> QED BY <1>6, <2>1, <2>3
<1> HIDE DEF mwm
<1>10. coo \in Seq(Byte) /\ Lead(coo, COORDINATOR_SIZE) = c /\ Rest(coo, COORDINATOR_SIZE) = mwm
  BY <1>2, <1>9, Cut
<1> HIDE DEF coo
<1>11. stamp \in Seq(Byte) /\ Lead(stamp, TIMESTAMP_SIZE) = t /\ Rest(stamp, TIMESTAMP_SIZE) = coo
  BY <1>5, <1>10, Cut
<1> HIDE DEF stamp
<1>12. bytes \in Seq(Byte) /\ Lead(bytes, PORT_SIZE) = p /\ Rest(bytes, PORT_SIZE) = stamp
  <2>1. bytes = p \o stamp
    BY <1>8 DEF stamp, coo, mwm
  <2> QED BY <1>4, <1>11, <2>1, Cut
<1>13. from_bytes(m.type, bytes) =
         [type |-> "Handshake", port |-> m.port, timestamp |-> m.timestamp, coordinator |-> c,
          mwm |-> m.mwm, versions |-> v]
  BY <1>4, <1>5, <1>9, <1>10, <1>11, <1>12 DEF from_bytes, Handshake_from_bytes
<1>14. m = [type |-> "Handshake", port |-> m.port, timestamp |-> m.timestamp, coordinator |-> m.coordinator,
            mwm |-> m.mwm, versions |-> m.versions]
  BY <1>1
<1> QED BY <1>12, <1>13, <1>14 DEF bytes, c, v

(* Every message can be read from its bytes.                               *)
LEMMA MessageReadsBack ==
  ASSUME NEW m \in Message
  PROVE  /\ m.type \in DOMAIN ID
         /\ into_bytes(m) \in Seq(Byte)
         /\ from_bytes(m.type, into_bytes(m)) = m
<1>1. INDEX_SIZE \in Nat /\ HASH_SIZE \in Nat
  BY MessagesAssumption
<1>2. CASE m.type = "Handshake"
  BY <1>2, HandshakeReadsBack DEF ID
<1>3. CASE m.type = "LegacyGossip"
  <2>1. m \in [type : {"LegacyGossip"}, transaction : Seq(Byte), hash : ByteStrings(HASH_SIZE)]
    BY <1>3 DEF Message
  <2>2. /\ m.transaction \in Seq(Byte) /\ m.hash \in Seq(Byte) /\ Len(m.hash) = HASH_SIZE
        /\ m = [type |-> "LegacyGossip", transaction |-> m.transaction, hash |-> m.hash]
    BY <2>1 DEF ByteStrings
  <2> DEFINE bytes == m.transaction \o m.hash
  <2>3. /\ bytes \in Seq(Byte) /\ Len(bytes) = Len(m.transaction) + Len(m.hash)
        /\ Lead(bytes, Len(m.transaction)) = m.transaction /\ Rest(bytes, Len(m.transaction)) = m.hash
    BY <2>2, Cut
  <2> HIDE DEF bytes
  <2>4. Len(bytes) - HASH_SIZE = Len(m.transaction)
    BY <1>1, <2>2, <2>3
  <2>5. into_bytes(m) = bytes
    BY <1>3 DEF into_bytes, LegacyGossip_into_bytes, bytes
  <2>6. from_bytes(m.type, bytes) = m
    BY <1>3, <2>2, <2>3, <2>4 DEF from_bytes, LegacyGossip_from_bytes
  <2> QED BY <1>3, <2>3, <2>5, <2>6 DEF ID
<1>4. CASE m.type = "MilestoneRequest"
  <2>1. m \in [type : {"MilestoneRequest"}, index : Numbers(INDEX_SIZE)]
    BY <1>4 DEF Message
  <2>2. m.index \in Numbers(INDEX_SIZE) /\ m = [type |-> "MilestoneRequest", index |-> m.index]
    BY <2>1
  <2> DEFINE bytes == to_be_bytes(m.index, INDEX_SIZE)
  <2>3. bytes \in Seq(Byte) /\ Len(bytes) = INDEX_SIZE /\ from_be_bytes(bytes) = m.index
    BY <1>1, <2>2, NumberReadsBack
  <2> HIDE DEF bytes
  <2>4. Lead(bytes, INDEX_SIZE) = bytes
    BY <2>3, SubSeqFull DEF Lead
  <2>5. into_bytes(m) = bytes
    BY <1>4 DEF into_bytes, MilestoneRequest_into_bytes, bytes
  <2>6. from_bytes(m.type, bytes) = m
    BY <1>4, <2>2, <2>3, <2>4 DEF from_bytes, MilestoneRequest_from_bytes
  <2> QED BY <1>4, <2>3, <2>5, <2>6 DEF ID
<1>5. CASE m.type = "TransactionBroadcast"
  <2>1. m \in [type : {"TransactionBroadcast"}, transaction : Seq(Byte)]
    BY <1>5 DEF Message
  <2>2. m.transaction \in Seq(Byte) /\ m = [type |-> "TransactionBroadcast", transaction |-> m.transaction]
    BY <2>1
  <2>3. into_bytes(m) = m.transaction
    BY <1>5 DEF into_bytes, TransactionBroadcast_into_bytes
  <2>4. from_bytes(m.type, m.transaction) = m
    BY <1>5, <2>2 DEF from_bytes, TransactionBroadcast_from_bytes
  <2> QED BY <1>5, <2>2, <2>3, <2>4 DEF ID
<1>6. CASE m.type = "TransactionRequest"
  <2>1. m \in [type : {"TransactionRequest"}, hash : ByteStrings(HASH_SIZE)]
    BY <1>6 DEF Message
  <2>2. /\ m.hash \in Seq(Byte) /\ Len(m.hash) = HASH_SIZE
        /\ m = [type |-> "TransactionRequest", hash |-> m.hash]
    BY <2>1 DEF ByteStrings
  <2>3. Lead(m.hash, HASH_SIZE) = m.hash
    BY <2>2, SubSeqFull DEF Lead
  <2>4. into_bytes(m) = m.hash
    BY <1>6 DEF into_bytes, TransactionRequest_into_bytes
  <2>5. from_bytes(m.type, m.hash) = m
    BY <1>6, <2>2, <2>3 DEF from_bytes, TransactionRequest_from_bytes
  <2> QED BY <1>6, <2>2, <2>4, <2>5 DEF ID
<1>7. CASE m.type = "Heartbeat"
  <2>1. m \in [type : {"Heartbeat"}, solid : Numbers(INDEX_SIZE), snapshot : Numbers(INDEX_SIZE)]
    BY <1>7 DEF Message
  <2>2. /\ m.solid \in Numbers(INDEX_SIZE) /\ m.snapshot \in Numbers(INDEX_SIZE)
        /\ m = [type |-> "Heartbeat", solid |-> m.solid, snapshot |-> m.snapshot]
    BY <2>1
  <2> DEFINE one == to_be_bytes(m.solid, INDEX_SIZE)
             two == to_be_bytes(m.snapshot, INDEX_SIZE)
             bytes == one \o two
  <2>3. one \in Seq(Byte) /\ Len(one) = INDEX_SIZE /\ from_be_bytes(one) = m.solid
    BY <1>1, <2>2, NumberReadsBack
  <2>4. two \in Seq(Byte) /\ Len(two) = INDEX_SIZE /\ from_be_bytes(two) = m.snapshot
    BY <1>1, <2>2, NumberReadsBack
  <2> HIDE DEF one, two
  <2>5. bytes \in Seq(Byte) /\ Lead(bytes, INDEX_SIZE) = one /\ Rest(bytes, INDEX_SIZE) = two
    BY <2>3, <2>4, Cut
  <2>6. Lead(two, INDEX_SIZE) = two
    BY <2>4, SubSeqFull DEF Lead
  <2> HIDE DEF bytes
  <2>7. into_bytes(m) = bytes
    BY <1>7 DEF into_bytes, Heartbeat_into_bytes, bytes, one, two
  <2>8. from_bytes(m.type, bytes) = m
    BY <1>7, <2>2, <2>3, <2>4, <2>5, <2>6 DEF from_bytes, Heartbeat_from_bytes
  <2> QED BY <1>7, <2>5, <2>7, <2>8 DEF ID
<1>8. m.type \in {"Handshake", "LegacyGossip", "MilestoneRequest", "TransactionBroadcast",
                  "TransactionRequest", "Heartbeat"}
  BY DEF Message
<1> QED BY <1>2, <1>3, <1>4, <1>5, <1>6, <1>7, <1>8

HeaderOf(m) == [message_type |-> ID[m.type], message_length |-> Len(into_bytes(m))]

(* A message whose length fits its header, cut after the header.           *)
LEMMA TlvIs ==
  ASSUME NEW m \in Message, Len(into_bytes(m)) < ByteBase * ByteBase
  PROVE  /\ tlv_into_bytes(m) \in Seq(Nat)
         /\ Len(tlv_into_bytes(m)) = HEADER_SIZE + Len(into_bytes(m))
         /\ Header_from_bytes(Lead(tlv_into_bytes(m), HEADER_SIZE)) = HeaderOf(m)
         /\ Rest(tlv_into_bytes(m), HEADER_SIZE) = into_bytes(m)
<1> DEFINE payload == into_bytes(m)
           n == Len(payload)
           two == to_be_bytes(n, LENGTH_SIZE)
           header == <<ID[m.type]>> \o two
<1>1. ByteBase \in Nat /\ ByteBase > 1 /\ Byte \subseteq Nat
  BY MessagesAssumption DEF Byte
<1>2. payload \in Seq(Byte) /\ payload \in Seq(Nat) /\ n \in Nat /\ n < ByteBase * ByteBase
  <2>1. payload \in Seq(Byte)
    BY MessageReadsBack
  <2>2. payload \in Seq(Nat)
    <3> HIDE DEF payload
    <3> QED BY <1>1, <2>1, Widen
  <2> QED BY <2>1, <2>2
<1> HIDE DEF payload, n
<1>3. n \in Numbers(LENGTH_SIZE)
  <2> DEFINE q == n \div ByteBase
  <2>1. Shifted(n, 2)[1] = q /\ Shifted(n, 2)[2] = q \div ByteBase
    <3>1. Shifted(n, 2)[0] = n /\ \A j \in 1..2 : Shifted(n, 2)[j] = Shifted(n, 2)[j - 1] \div ByteBase
      <4>1. 2 \in Nat
        OBVIOUS
      <4> QED BY <1>2, <4>1, ShiftedIs, Zenon
    <3>2. Shifted(n, 2)[1] = Shifted(n, 2)[0] \div ByteBase /\ Shifted(n, 2)[2] = Shifted(n, 2)[1] \div ByteBase
      BY <3>1
    <3> QED BY <3>1, <3>2
  <2>2. q \in Nat /\ n = ByteBase * q + (n % ByteBase) /\ n % ByteBase \in Nat
    BY <1>1, <1>2, DivMod
  <2> HIDE DEF q
  <2>3. q < ByteBase
    BY <1>1, <1>2, <2>2
  <2>4. q \div ByteBase = 0
    <3>1. \A x \in Nat : x < ByteBase => x \div ByteBase = 0
      BY <1>1
    <3> QED BY <2>2, <2>3, <3>1
  <2> QED BY <1>2, <2>1, <2>4 DEF Numbers, LENGTH_SIZE
<1>4. two \in Seq(Nat) /\ Len(two) = 2 /\ from_be_bytes(two) = n
  <2>1. LENGTH_SIZE = 2 /\ LENGTH_SIZE \in Nat
    BY DEF LENGTH_SIZE
  <2> QED BY <1>1, <1>3, <2>1, NumberReadsBack, Widen
<1>5. ID[m.type] \in Nat
  BY MessageReadsBack DEF ID
<1>6. tlv_into_bytes(m) = header \o payload
  <2>1. n % (ByteBase * ByteBase) = n
    <3> DEFINE M == ByteBase * ByteBase
    <3>1. M \in Nat /\ n < M
      BY <1>1, <1>2
    <3> HIDE DEF M
    <3>2. \A x \in 0..(M - 1) : x % M = x
      BY <3>1
    <3> QED BY <1>2, <3>1, <3>2 DEF M
  <2> QED BY <2>1 DEF tlv_into_bytes, Header_to_bytes, payload, n
<1> HIDE DEF two
<1>7. header \in Seq(Nat) /\ Len(header) = 3 /\ header[1] = ID[m.type] /\ Rest(header, 1) = two
  <2>1. <<ID[m.type]>> \in Seq(Nat) /\ Len(<<ID[m.type]>>) = 1
    BY <1>5
  <2>2. header \in Seq(Nat) /\ Len(header) = 1 + 2 /\ Rest(header, 1) = two
    <3> DEFINE one == <<ID[m.type]>>
    <3>1. one \in Seq(Nat) /\ Len(one) = 1 /\ header = one \o two
      BY <2>1
    <3> HIDE DEF one, header
    <3>2. one \o two \in Seq(Nat) /\ Len(one \o two) = Len(one) + Len(two) /\ Rest(one \o two, Len(one)) = two
      <4>1. one \in Seq(Nat) /\ two \in Seq(Nat)
        BY <1>4, <3>1
      <4> QED BY <4>1, Cut, Zenon
    <3> QED BY <1>4, <3>1, <3>2
  <2>3. header[1] = ID[m.type]
    <3>1. 1 \in 1..(1 + 2)
      OBVIOUS
    <3> QED BY <1>4, <2>1, <3>1, ConcatProperties
  <2> QED BY <2>2, <2>3
<1> HIDE DEF header
<1>8. /\ header \o payload \in Seq(Nat) /\ Len(header \o payload) = 3 + n
      /\ Lead(header \o payload, 3) = header /\ Rest(header \o payload, 3) = payload
  BY <1>2, <1>7, Cut DEF n
<1>9. Header_from_bytes(header) = HeaderOf(m)
  BY <1>4, <1>7 DEF Header_from_bytes, HeaderOf, TYPE_SIZE, n, payload
<1>10. HEADER_SIZE = 3
  BY DEF HEADER_SIZE, TYPE_SIZE, LENGTH_SIZE
<1> QED BY <1>6, <1>8, <1>9, <1>10 DEF payload, n

-----------------------------------------------------------------------------
(* The stream and its boundaries.                                          *)

Sendable(ms) ==
  ms \in Seq(Message) /\ \A k \in 1..Len(ms) : Len(into_bytes(ms[k])) < ByteBase * ByteBase

LEMMA PrefixIs ==
  ASSUME NEW ms, Sendable(ms)
  PROVE  /\ PrefixBytes(ms) \in [0..Len(ms) -> Seq(Nat)]
         /\ PrefixBytes(ms)[0] = << >>
         /\ \A k \in 1..Len(ms) : PrefixBytes(ms)[k] = PrefixBytes(ms)[k - 1] \o tlv_into_bytes(ms[k])
<1> DEFINE N == Len(ms)
           D == Seq(Nat)
           step == [p \in Nat \X D |-> IF p[1] \in 1..N THEN p[2] \o tlv_into_bytes(ms[p[1]]) ELSE p[2]]
           F(g) == [k \in 0..N |-> IF k = 0 THEN << >> ELSE g[k - 1] \o tlv_into_bytes(ms[k])]
<1>1. N \in Nat /\ \A k \in 1..N : tlv_into_bytes(ms[k]) \in D
  BY TlvIs DEF Sendable
<1> HIDE DEF N
<1>2. step \in [Nat \X D -> D]
  <2>1. \A k \in 1..N, x \in D : x \o tlv_into_bytes(ms[k]) \in D
    BY <1>1
  <2> HIDE DEF D
  <2> QED BY <2>1
<1>3. PICK w : Solves(w, D, << >>, step, N)
  <2>1. << >> \in D
    OBVIOUS
  <2> HIDE DEF step, D
  <2> QED BY <1>1, <1>2, <2>1, RecursionExists
<1>4. w \in [0..N -> D] /\ w[0] = << >>
  BY <1>3 DEF Solves
<1> HIDE DEF D
<1>5. \A k \in 1..N : w[k] = w[k - 1] \o tlv_into_bytes(ms[k])
  <2> SUFFICES ASSUME NEW k \in 1..N PROVE w[k] = w[k - 1] \o tlv_into_bytes(ms[k])
    OBVIOUS
  <2>1. k \in Nat /\ k - 1 \in 0..N /\ w[k - 1] \in D
    BY <1>1, <1>4
  <2>2. w[k] = step[<<k, w[k - 1]>>]
    BY <1>3 DEF Solves
  <2> QED BY <2>1, <2>2
<1>6. w = F(w)
  <2>1. \A k \in 0..N : w[k] = F(w)[k]
    BY <1>1, <1>4, <1>5
  <2> HIDE DEF F
  <2>2. F(w) = [k \in 0..N |-> F(w)[k]]
    BY DEF F
  <2> QED BY <1>4, <2>1, <2>2
<1>7. ASSUME NEW v, v = F(v) PROVE v = w
  <2>1. v[0] = w[0] /\ v = [k \in 0..N |-> v[k]]
    BY <1>1, <1>4, <1>7
  <2>2. \A k \in 1..N : v[k - 1] = w[k - 1] => v[k] = w[k]
    <3> SUFFICES ASSUME NEW k \in 1..N, v[k - 1] = w[k - 1] PROVE v[k] = w[k]
      OBVIOUS
    <3>1. F(v)[k] = v[k - 1] \o tlv_into_bytes(ms[k])
      <4>1. k \in 0..N /\ k # 0
        BY <1>1
      <4> QED BY <4>1, Zenon
    <3> QED BY <1>5, <1>7, <3>1
  <2>3. \A k \in 0..N : v[k] = w[k]
    <3>1. N \in Nat /\ v[0] = w[0]
      BY <1>1, <2>1
    <3> HIDE DEF F, step, N
    <3>2. InStep(v, w, N)
      BY <2>2, <3>1 DEF InStep
    <3>3. SameTo(v, w, N)
      BY <3>1, <3>2, StepsAgree
    <3> QED BY <3>3 DEF SameTo
  <2> QED BY <1>4, <2>1, <2>3
<1>8. PrefixBytes(ms) = w
  <2>1. PrefixBytes(ms) = CHOOSE g : g = F(g)
    BY DEF PrefixBytes, N
  <2> HIDE DEF F
  <2> QED BY <1>6, <1>7, <2>1
<1> HIDE DEF F, step
<1> QED BY <1>4, <1>5, <1>8 DEF N, D

(* Where message k + 1 begins and ends in the whole stream, and its bytes. *)
LEMMA StreamIs ==
  ASSUME NEW ms, Sendable(ms)
  PROVE  LET at(k) == Len(PrefixBytes(ms)[k])
         IN  /\ Encoded(ms) \in Seq(Nat) /\ at(0) = 0
             /\ \A k \in 0..Len(ms) : at(k) \in 0..Len(Encoded(ms))
             /\ at(Len(ms)) = Len(Encoded(ms))
             /\ \A k \in 0..(Len(ms) - 1) :
                  /\ at(k + 1) = at(k) + HEADER_SIZE + Len(into_bytes(ms[k + 1]))
                  /\ \A i \in 1..(at(k + 1) - at(k)) : Encoded(ms)[at(k) + i] = tlv_into_bytes(ms[k + 1])[i]
<1> DEFINE N == Len(ms)
           b == PrefixBytes(ms)
           at(k) == Len(b[k])
           w(k) == tlv_into_bytes(ms[k])
<1>1. N \in Nat /\ Encoded(ms) = b[N]
  BY DEF Sendable, Encoded
<1>2. /\ \A k \in 0..N : b[k] \in Seq(Nat) /\ at(k) \in Nat
      /\ b[0] = << >> /\ \A k \in 1..N : b[k] = b[k - 1] \o w(k)
  <2>1. b \in [0..N -> Seq(Nat)] /\ b[0] = << >> /\ \A k \in 1..N : b[k] = b[k - 1] \o w(k)
    BY PrefixIs, Zenon
  <2> HIDE DEF b, w
  <2> QED BY <1>1, <2>1
<1>3. \A k \in 1..N : w(k) \in Seq(Nat) /\ Len(w(k)) = HEADER_SIZE + Len(into_bytes(ms[k])) /\ Len(w(k)) \in Nat
  BY TlvIs DEF Sendable
<1> HIDE DEF N, b, w
<1>4. \A k \in 0..(N - 1) :
        /\ at(k + 1) = at(k) + Len(w(k + 1))
        /\ \A i \in 1..at(k) : b[k + 1][i] = b[k][i]
        /\ \A i \in 1..Len(w(k + 1)) : b[k + 1][at(k) + i] = w(k + 1)[i]
  <2> SUFFICES ASSUME NEW k \in 0..(N - 1)
               PROVE  /\ at(k + 1) = at(k) + Len(w(k + 1))
                      /\ \A i \in 1..at(k) : b[k + 1][i] = b[k][i]
                      /\ \A i \in 1..Len(w(k + 1)) : b[k + 1][at(k) + i] = w(k + 1)[i]
    OBVIOUS
  <2>1. k \in 0..N /\ k + 1 \in 1..N /\ (k + 1) - 1 = k
    BY <1>1
  <2> DEFINE old == b[k]
             new == b[k + 1]
             more == w(k + 1)
  <2>2. new = old \o more /\ old \in Seq(Nat) /\ more \in Seq(Nat) /\ Len(old) \in Nat /\ Len(more) \in Nat
    BY <1>2, <1>3, <2>1
  <2> HIDE DEF old, new, more
  <2>3. /\ Len(new) = Len(old) + Len(more)
        /\ \A i \in 1..(Len(old) + Len(more)) : new[i] = IF i <= Len(old) THEN old[i] ELSE more[i - Len(old)]
    BY <2>2, ConcatProperties
  <2>4. \A i \in 1..Len(old) : new[i] = old[i]
    BY <2>2, <2>3
  <2>5. \A i \in 1..Len(more) : new[Len(old) + i] = more[i]
    <3>1. \A i \in 1..Len(more) : /\ Len(old) + i \in 1..(Len(old) + Len(more))
                                /\ ~(Len(old) + i <= Len(old)) /\ (Len(old) + i) - Len(old) = i
      BY <2>2
    <3> QED BY <2>3, <3>1
  <2> QED BY <2>3, <2>4, <2>5 DEF old, new, more
(* A prefix stays one: by induction on the length of the longer one.       *)
<1>5. \A k \in 0..N, j \in 0..N : k <= j => at(k) <= at(j) /\ \A i \in 1..at(k) : b[j][i] = b[k][i]
  <2> DEFINE S == {j \in Nat : j <= N => \A k \in 0..j : at(k) <= at(j) /\ \A i \in 1..at(k) : b[j][i] = b[k][i]}
  <2>1. 0 \in S
    BY <1>1, <1>2
  <2>2. ASSUME NEW j \in Nat, j \in S PROVE j + 1 \in S
    <3> SUFFICES ASSUME j + 1 <= N, NEW k \in 0..(j + 1)
                 PROVE  at(k) <= at(j + 1) /\ \A i \in 1..at(k) : b[j + 1][i] = b[k][i]
      OBVIOUS
    <3>1. CASE k = j + 1
      BY <1>1, <1>2, <3>1
    <3>2. CASE k \in 0..j
      <4>1. at(k) <= at(j) /\ \A i \in 1..at(k) : b[j][i] = b[k][i]
        BY <1>1, <2>2, <3>2
      <4>2. j \in 0..(N - 1) /\ j + 1 \in 1..N /\ k \in 0..N
        BY <1>1, <3>2
      <4>3. at(j + 1) = at(j) + Len(w(j + 1)) /\ Len(w(j + 1)) \in Nat /\ at(j) \in Nat /\ at(k) \in Nat
        <5>1. j \in 0..N
          BY <1>1, <4>2
        <5> QED BY <1>2, <1>3, <1>4, <4>2, <5>1
      <4>4. \A i \in 1..at(j) : b[j + 1][i] = b[j][i]
        BY <1>4, <4>2
      <4>5. \A i \in 1..at(k) : i \in 1..at(j)
        BY <4>1, <4>3
      <4> HIDE DEF at
      <4>6. at(k) <= at(j + 1)
        BY <4>1, <4>3
      <4> QED BY <4>1, <4>4, <4>5, <4>6
    <3> QED BY <3>1, <3>2
  <2>3. Nat \subseteq S
    <3> HIDE DEF S
    <3> QED BY <2>1, <2>2, SetInduction
  <2>4. ASSUME NEW k \in 0..N, NEW j \in 0..N, k <= j
        PROVE  at(k) <= at(j) /\ \A i \in 1..at(k) : b[j][i] = b[k][i]
    <3>1. j \in S /\ j <= N /\ k \in 0..j
      BY <1>1, <2>3, <2>4
    <3> QED BY <3>1
  <2> QED BY <2>4
<1>6. Encoded(ms) \in Seq(Nat) /\ at(0) = 0 /\ at(N) = Len(Encoded(ms))
  BY <1>1, <1>2
<1>7. \A k \in 0..N : at(k) \in 0..Len(Encoded(ms))
  <2> SUFFICES ASSUME NEW k \in 0..N PROVE at(k) \in 0..Len(Encoded(ms))
    OBVIOUS
  <2>1. N \in 0..N /\ k <= N
    BY <1>1
  <2>2. at(k) \in Nat /\ at(N) \in Nat
    BY <1>2, <2>1
  <2>3. at(k) <= at(N)
    BY <1>5, <2>1
  <2> HIDE DEF at
  <2> QED BY <1>6, <2>2, <2>3
<1>8. ASSUME NEW k \in 0..(N - 1)
      PROVE  /\ at(k + 1) = at(k) + HEADER_SIZE + Len(into_bytes(ms[k + 1]))
             /\ \A i \in 1..(at(k + 1) - at(k)) : Encoded(ms)[at(k) + i] = w(k + 1)[i]
  <2>1. k \in 0..N /\ k + 1 \in 1..N /\ k + 1 \in 0..N /\ N \in 0..N /\ k + 1 <= N
    BY <1>1
  <2> DEFINE a == at(k)
             l == Len(w(k + 1))
  <2>2. a \in Nat /\ l \in Nat /\ at(k + 1) = a + l /\ l = HEADER_SIZE + Len(into_bytes(ms[k + 1]))
    BY <1>2, <1>3, <1>4, <2>1
  <2>3. \A i \in 1..(a + l) : Encoded(ms)[i] = b[k + 1][i]
    <3>1. \A i \in 1..at(k + 1) : b[N][i] = b[k + 1][i]
      BY <1>5, <2>1
    <3> HIDE DEF at
    <3> QED BY <1>1, <2>2, <3>1
  <2>4. \A i \in 1..l : b[k + 1][a + i] = w(k + 1)[i]
    BY <1>4
  <2>5. into_bytes(ms[k + 1]) \in Seq(Byte) /\ Len(into_bytes(ms[k + 1])) \in Nat /\ HEADER_SIZE = 3
    <3>1. ms[k + 1] \in Message
      BY <2>1 DEF Sendable, N
    <3> QED BY <3>1, MessageReadsBack DEF HEADER_SIZE, TYPE_SIZE, LENGTH_SIZE
  <2> HIDE DEF a, l
  <2>6. \A i \in 1..l : a + i \in 1..(a + l)
    BY <2>2
  <2>7. (a + l) - a = l /\ a + l = a + HEADER_SIZE + Len(into_bytes(ms[k + 1]))
    BY <2>2, <2>5
  <2> HIDE DEF at
  <2> QED BY <2>2, <2>3, <2>4, <2>6, <2>7 DEF a
<1> QED BY <1>6, <1>7, <1>8 DEF N, b, w

(* The bytes from a + 1 to p: their number, what begins and what ends them *)
(* and what comes after them.                                              *)
LEMMA WindowIs ==
  ASSUME NEW B \in Seq(Nat), NEW a \in Nat, NEW p \in 0..Len(B), a <= p
  PROVE  /\ SubSeq(B, a + 1, p) \in Seq(Nat) /\ Len(SubSeq(B, a + 1, p)) = p - a
         /\ \A i \in 1..(p - a) : SubSeq(B, a + 1, p)[i] = B[a + i]
<1> DEFINE m == a + 1
<1>1. m \in Int /\ p \in Int /\ \A i \in m..p : B[i] \in Nat
  OBVIOUS
<1>2. /\ SubSeq(B, a + 1, p) \in Seq(Nat)
      /\ Len(SubSeq(B, a + 1, p)) = IF a + 1 <= p THEN p - (a + 1) + 1 ELSE 0
      /\ \A i \in 1..(p - (a + 1) + 1) : SubSeq(B, a + 1, p)[i] = B[(a + 1) + i - 1]
  <2> HIDE DEF m
  <2>1. /\ SubSeq(B, m, p) \in Seq(Nat)
        /\ Len(SubSeq(B, m, p)) = IF m <= p THEN p - m + 1 ELSE 0
        /\ \A i \in 1..(p - m + 1) : SubSeq(B, m, p)[i] = B[m + i - 1]
    BY <1>1, SubSeqProperties, SMTT(60)
  <2> QED BY <2>1 DEF m
<1>3. p - (a + 1) + 1 = p - a /\ (~(a + 1 <= p) => p - a = 0)
  OBVIOUS
<1>4. \A i \in 1..(p - a) : (a + 1) + i - 1 = a + i
  OBVIOUS
<1> QED BY <1>2, <1>3, <1>4

LEMMA WindowRest ==
  ASSUME NEW B \in Seq(Nat), NEW a \in Nat, NEW p \in 0..Len(B), a <= p, NEW n \in 0..(p - a)
  PROVE  Rest(SubSeq(B, a + 1, p), n) = SubSeq(B, a + n + 1, p)
<1> DEFINE w == SubSeq(B, a + 1, p)
           l == Rest(w, n)
           r == SubSeq(B, a + n + 1, p)
           d == p - (a + n)
<1>1. w \in Seq(Nat) /\ Len(w) = p - a /\ \A i \in 1..(p - a) : w[i] = B[a + i]
  BY WindowIs
<1>2. n \in Nat /\ p \in Nat /\ a + n \in Nat /\ a + n <= p /\ p - a \in Nat /\ n <= p - a
  OBVIOUS
<1>3. r \in Seq(Nat) /\ Len(r) = d /\ \A i \in 1..d : r[i] = B[a + n + i]
  BY <1>2, WindowIs
<1> HIDE DEF w, r
<1>4. l \in Seq(Nat) /\ Len(l) = (p - a) - n /\ \A i \in 1..((p - a) - n) : l[i] = w[n + i]
  <2> DEFINE q == p - a
  <2>1. l = SubSeq(w, n + 1, q) /\ q \in 0..Len(w) /\ n <= q
    BY <1>1, <1>2 DEF Rest
  <2> HIDE DEF q, l
  <2>2. l \in Seq(Nat) /\ Len(l) = q - n /\ \A i \in 1..(q - n) : l[i] = w[n + i]
    BY <1>1, <1>2, <2>1, WindowIs
  <2> QED BY <2>2 DEF q
<1> HIDE DEF l
<1>5. d = (p - a) - n
  OBVIOUS
<1>6. \A i \in 1..d : l[i] = r[i]
  <2>1. \A i \in 1..d : n + i \in 1..(p - a) /\ a + (n + i) = a + n + i /\ i \in 1..((p - a) - n)
    OBVIOUS
  <2> HIDE DEF d
  <2> QED BY <1>1, <1>3, <1>4, <2>1
<1> HIDE DEF d
<1>7. l = r
  BY <1>3, <1>4, <1>5, <1>6, SeqEqual
<1> QED BY <1>7 DEF l, r, w

LEMMA WindowLead ==
  ASSUME NEW B \in Seq(Nat), NEW a \in Nat, NEW p \in 0..Len(B), a <= p, NEW n \in 0..(p - a),
         NEW t \in Seq(Nat), Len(t) = n, \A i \in 1..n : B[a + i] = t[i]
  PROVE  Lead(SubSeq(B, a + 1, p), n) = t
<1> DEFINE w == SubSeq(B, a + 1, p)
<1>1. w \in Seq(Nat) /\ Len(w) = p - a /\ \A i \in 1..(p - a) : w[i] = B[a + i]
  BY WindowIs
<1>2. n \in Nat /\ n <= Len(w) /\ \A i \in 1..n : i \in 1..(p - a)
  BY <1>1
<1> HIDE DEF w
<1>3. Lead(w, n) \in Seq(Nat) /\ Len(Lead(w, n)) = n /\ \A i \in 1..n : Lead(w, n)[i] = w[i]
  BY <1>1, <1>2 DEF Lead
<1>4. \A i \in 1..n : Lead(w, n)[i] = t[i]
  BY <1>1, <1>2, <1>3
<1>5. Lead(w, n) = t
  BY <1>3, <1>4, SeqEqual
<1> QED BY <1>5 DEF w

LEMMA WindowMore ==
  ASSUME NEW B \in Seq(Nat), NEW a \in Nat, NEW p \in 0..Len(B), a <= p, NEW n \in 0..(Len(B) - p)
  PROVE  SubSeq(B, a + 1, p) \o SubSeq(B, p + 1, p + n) = SubSeq(B, a + 1, p + n)
<1>1. a + 1 \in 1..(Len(B) + 1) /\ p \in ((a + 1) - 1)..Len(B) /\ p + n \in p..Len(B)
  OBVIOUS
<1> QED BY <1>1, ConcatAdjacentSubSeq

-----------------------------------------------------------------------------
(* One reader: what Reads says, of given values.                           *)

IsContext(ctx) ==
  /\ ctx = [state |-> ctx.state, header |-> ctx.header, buffer |-> ctx.buffer]
  /\ ctx.state \in {"Header", "Payload"}
Bound(msgs, k) == Len(PrefixBytes(msgs)[k])
UsedUp(ctx) ==
  IF ctx.state = "Header" THEN Len(ctx.buffer) < HEADER_SIZE ELSE ~(Len(ctx.buffer) >= ctx.header.message_length)
At(msgs, k, ctx) == Bound(msgs, k) + (IF ctx.state = "Payload" THEN HEADER_SIZE ELSE 0)

ReadsAt(ms, types, from, msgs, ctx, pos) ==
  /\ ms \in Seq(Message \cup {Invalid})
  /\ from + Len(ms) <= Len(msgs)
  /\ \A k \in DOMAIN ms : ms[k] = Outcome(msgs[from + k], types)
  /\ At(msgs, from + Len(ms), ctx) <= pos
  /\ ctx.buffer = SubSeq(Encoded(msgs), At(msgs, from + Len(ms), ctx) + 1, pos)
  /\ ctx.state = "Payload" =>
       from + Len(ms) < Len(msgs) /\ ctx.header = HeaderOf(msgs[from + Len(ms) + 1])

(* The message that is read next, in the stream.                           *)
LEMMA NextMessage ==
  ASSUME NEW msgs, Sendable(msgs), NEW k \in 0..(Len(msgs) - 1), NEW m, m = msgs[k + 1]
  PROVE  /\ m \in Message /\ Len(into_bytes(m)) < ByteBase * ByteBase /\ Len(into_bytes(m)) \in Nat
         /\ k + 1 \in 0..Len(msgs) /\ Bound(msgs, k) \in Nat
         /\ Bound(msgs, k + 1) = Bound(msgs, k) + HEADER_SIZE + Len(into_bytes(m))
         /\ into_bytes(m) \in Seq(Nat)
         /\ \A i \in 1..Len(into_bytes(m)) :
              Encoded(msgs)[Bound(msgs, k) + HEADER_SIZE + i] = into_bytes(m)[i]
         /\ \E t \in Seq(Nat) :
              /\ Len(t) = HEADER_SIZE /\ Header_from_bytes(t) = HeaderOf(m)
              /\ \A i \in 1..HEADER_SIZE : Encoded(msgs)[Bound(msgs, k) + i] = t[i]
<1> DEFINE L == Len(into_bytes(m))
           a == Bound(msgs, k)
           B == Encoded(msgs)
           tlv == tlv_into_bytes(m)
<1>1. k + 1 \in 1..Len(msgs) /\ k + 1 \in 0..Len(msgs) /\ k \in 0..Len(msgs)
  BY DEF Sendable
<1>2. m \in Message /\ L < ByteBase * ByteBase
  BY <1>1 DEF Sendable
<1>3. Byte \subseteq Nat
  BY MessagesAssumption DEF Byte
<1>4. into_bytes(m) \in Seq(Nat) /\ L \in Nat
  <2>1. into_bytes(m) \in Seq(Byte)
    BY <1>2, MessageReadsBack
  <2> DEFINE bytes == into_bytes(m)
  <2> HIDE DEF bytes
  <2>2. bytes \in Seq(Nat) /\ Len(bytes) \in Nat
    <3>1. bytes \in Seq(Byte)
      BY <2>1 DEF bytes
    <3>2. bytes \in Seq(Nat)
      BY <1>3, <3>1, Widen, Zenon
    <3> QED BY <3>2
  <2> QED BY <2>2 DEF bytes
<1>5. /\ tlv \in Seq(Nat) /\ Len(tlv) = HEADER_SIZE + L
      /\ Header_from_bytes(Lead(tlv, HEADER_SIZE)) = HeaderOf(m) /\ Rest(tlv, HEADER_SIZE) = into_bytes(m)
  <2> QED BY <1>2, TlvIs
<1>6. /\ a \in Nat /\ Bound(msgs, k + 1) = a + HEADER_SIZE + L
      /\ \A i \in 1..(Bound(msgs, k + 1) - a) : B[a + i] = tlv[i]
  <2>1. a \in 0..Len(Encoded(msgs)) /\ Bound(msgs, k + 1) = a + HEADER_SIZE + L
    BY <1>1, StreamIs DEF Bound
  <2>2. \A i \in 1..(Bound(msgs, k + 1) - a) : B[a + i] = tlv[i]
    BY StreamIs DEF Bound
  <2> HIDE DEF a, B, tlv, L
  <2> QED BY <2>1, <2>2
<1>7. HEADER_SIZE = 3
  BY DEF HEADER_SIZE, TYPE_SIZE, LENGTH_SIZE
<1> HIDE DEF L, a, B, tlv
<1>8. \A i \in 1..(3 + L) : B[a + i] = tlv[i]
  <2>1. Bound(msgs, k + 1) - a = 3 + L
    BY <1>4, <1>6, <1>7
  <2> QED BY <1>6, <2>1
<1>9. Lead(tlv, 3) \in Seq(Nat) /\ Len(Lead(tlv, 3)) = 3 /\ \A i \in 1..3 : Lead(tlv, 3)[i] = tlv[i]
  <2>1. 3 <= Len(tlv) /\ \A i \in 1..3 : tlv[i] \in Nat
    BY <1>4, <1>5, <1>7
  <2> QED BY <1>5, <2>1 DEF Lead
<1>10. \A i \in 1..3 : B[a + i] = Lead(tlv, 3)[i]
  <2>1. \A i \in 1..3 : i \in 1..(3 + L)
    BY <1>4
  <2> QED BY <1>8, <1>9, <2>1
<1>11. \A i \in 1..L : B[a + 3 + i] = into_bytes(m)[i]
  <2>1. tlv \in Seq(Nat) /\ Len(tlv) \in 0..Len(tlv) /\ 0 <= Len(tlv) /\ 0 \in Nat /\ 3 \in 0..(Len(tlv) - 0)
    BY <1>4, <1>5, <1>7
  <2>2. \A i \in 1..L : Rest(tlv, 3)[i] = tlv[3 + i]
    <3>1. Rest(tlv, 3) = SubSeq(tlv, 3 + 1, Len(tlv)) /\ Len(tlv) = 3 + L
      BY <1>5, <1>7 DEF Rest
    <3>2. \A i \in (3 + 1)..(3 + L) : tlv[i] \in Nat
      BY <1>4, <1>5, <1>7
    <3>3. \A i \in 1..((3 + L) - (3 + 1) + 1) : Rest(tlv, 3)[i] = tlv[(3 + 1) + i - 1]
      <4>1. 3 + 1 \in Int /\ 3 + L \in Int
        BY <1>4
      <4> QED BY <3>1, <3>2, <4>1, SubSeqProperties
    <3>4. (3 + L) - (3 + 1) + 1 = L /\ \A i \in 1..L : (3 + 1) + i - 1 = 3 + i
      BY <1>4
    <3> QED BY <3>3, <3>4
  <2>3. \A i \in 1..L : 3 + i \in 1..(3 + L) /\ a + (3 + i) = a + 3 + i
    BY <1>4, <1>6
  <2> QED BY <1>5, <1>7, <1>8, <2>2, <2>3
<1> QED BY <1>1, <1>2, <1>4, <1>5, <1>6, <1>7, <1>9, <1>10, <1>11 DEF L, a, B

LEMMA FreshReads ==
  ASSUME NEW msgs, Sendable(msgs), NEW types, NEW k \in 0..Len(msgs)
  PROVE  ReadsAt(<< >>, types, k, msgs, Fresh, Bound(msgs, k)) /\ UsedUp(Fresh) /\ IsContext(Fresh)
<1>1. Bound(msgs, k) \in 0..Len(Encoded(msgs)) /\ Encoded(msgs) \in Seq(Nat)
  BY StreamIs DEF Bound
<1>2. Len(<< >>) = 0 /\ k + 0 = k /\ << >> \in Seq(Message \cup {Invalid}) /\ DOMAIN << >> = {} /\ k <= Len(msgs)
  BY DEF Sendable
<1>3. Fresh.state = "Header" /\ Fresh.buffer = << >> /\ IsContext(Fresh)
  BY DEF Fresh, IsContext
<1>4. At(msgs, k, Fresh) = Bound(msgs, k)
  BY <1>1, <1>3 DEF At
<1>5. SubSeq(Encoded(msgs), Bound(msgs, k) + 1, Bound(msgs, k)) = << >>
  <2>1. Bound(msgs, k) + 1 \in Int /\ Bound(msgs, k) \in Int /\ Bound(msgs, k) < Bound(msgs, k) + 1
    BY <1>1
  <2> QED BY <2>1, SubSeqEmpty
<1>6. UsedUp(Fresh)
  BY <1>2, <1>3 DEF UsedUp, HEADER_SIZE, TYPE_SIZE, LENGTH_SIZE
<1>7. Bound(msgs, k) <= Bound(msgs, k)
  BY <1>1
<1>8. ReadsAt(<< >>, types, k, msgs, Fresh, Bound(msgs, k))
  BY <1>2, <1>3, <1>4, <1>5, <1>7 DEF ReadsAt
<1> QED BY <1>3, <1>6, <1>8

(* More bytes arrive.                                                      *)
LEMMA ReceiveReads ==
  ASSUME NEW msgs, Sendable(msgs), NEW types, NEW from \in Nat, NEW ms, NEW ctx, IsContext(ctx),
         NEW pos \in 0..Len(Encoded(msgs)), NEW n \in 0..(Len(Encoded(msgs)) - pos),
         NEW more, more = [ctx EXCEPT !.buffer = @ \o SubSeq(Encoded(msgs), pos + 1, pos + n)],
         ReadsAt(ms, types, from, msgs, ctx, pos)
  PROVE  ReadsAt(ms, types, from, msgs, more, pos + n)
<1> DEFINE B == Encoded(msgs)
           next == from + Len(ms)
           a == At(msgs, next, ctx)
<1>1. ms \in Seq(Message \cup {Invalid}) /\ next <= Len(msgs) /\ a <= pos /\ ctx.buffer = SubSeq(B, a + 1, pos)
  BY DEF ReadsAt
<1>2. B \in Seq(Nat) /\ a \in Nat
  <2>1. next \in 0..Len(msgs)
    BY <1>1 DEF Sendable
  <2>2. B \in Seq(Nat) /\ Bound(msgs, next) \in 0..Len(B)
    <3> HIDE DEF next
    <3> QED BY <2>1, StreamIs DEF Bound
  <2> QED BY <2>2 DEF At, HEADER_SIZE, TYPE_SIZE, LENGTH_SIZE
<1>3. more.state = ctx.state /\ more.header = ctx.header /\ more.buffer = ctx.buffer \o SubSeq(B, pos + 1, pos + n)
  BY DEF IsContext
<1>4. At(msgs, next, more) = a
  BY <1>3 DEF At
<1> HIDE DEF B, next, a
<1>5. more.buffer = SubSeq(B, a + 1, pos + n)
  <2>1. pos \in 0..Len(B) /\ n \in 0..(Len(B) - pos)
    BY DEF B
  <2>2. SubSeq(B, a + 1, pos) \o SubSeq(B, pos + 1, pos + n) = SubSeq(B, a + 1, pos + n)
    BY <1>1, <1>2, <2>1, WindowMore
  <2> QED BY <1>1, <1>3, <2>2
<1>6. a <= pos + n
  <2>1. pos \in Nat /\ n \in Nat
    OBVIOUS
  <2> QED BY <1>1, <1>2, <2>1
<1> QED BY <1>3, <1>4, <1>5, <1>6 DEF ReadsAt, B, next, a

(* What a reader has before it: the message it is in, its length, and      *)
(* where its bytes are.                                                    *)
Before(ms, from, msgs, ctx, pos) ==
  LET next == from + Len(ms)
      a == At(msgs, next, ctx)
  IN  /\ ms \in Seq(Message \cup {Invalid}) /\ Len(ms) \in Nat /\ next \in 0..Len(msgs) /\ next \in Nat
      /\ a \in Nat /\ a <= pos /\ Encoded(msgs) \in Seq(Nat)
      /\ ctx.buffer = SubSeq(Encoded(msgs), a + 1, pos) /\ Len(ctx.buffer) = pos - a
      /\ next = Len(msgs) => a = Len(Encoded(msgs)) /\ ctx.state = "Header"

LEMMA ReaderIs ==
  ASSUME NEW msgs, Sendable(msgs), NEW types, NEW from \in Nat, NEW ms, NEW ctx, IsContext(ctx),
         NEW pos \in 0..Len(Encoded(msgs)), ReadsAt(ms, types, from, msgs, ctx, pos)
  PROVE  Before(ms, from, msgs, ctx, pos)
<1> DEFINE B == Encoded(msgs)
           next == from + Len(ms)
           a == At(msgs, next, ctx)
<1>1. ms \in Seq(Message \cup {Invalid}) /\ next <= Len(msgs) /\ a <= pos /\ ctx.buffer = SubSeq(B, a + 1, pos)
  BY DEF ReadsAt
<1>2. Len(ms) \in Nat /\ Len(msgs) \in Nat
  BY <1>1 DEF Sendable
<1>3. next \in 0..Len(msgs) /\ next \in Nat
  BY <1>1, <1>2
<1>4. ctx.state = "Payload" => next < Len(msgs)
  BY DEF ReadsAt
<1>5. B \in Seq(Nat) /\ Bound(msgs, next) \in 0..Len(B) /\ Bound(msgs, Len(msgs)) = Len(B)
  <2> HIDE DEF next
  <2> QED BY <1>3, StreamIs DEF Bound
<1>6. a \in Nat
  BY <1>5 DEF At, HEADER_SIZE, TYPE_SIZE, LENGTH_SIZE
<1>7. Len(ctx.buffer) = pos - a
  <2> HIDE DEF B, a
  <2>1. pos \in 0..Len(B)
    BY DEF B
  <2> QED BY <1>1, <1>5, <1>6, <2>1, WindowIs
<1>8. next = Len(msgs) => a = Len(B) /\ ctx.state = "Header"
  <2> SUFFICES ASSUME next = Len(msgs) PROVE a = Len(B) /\ ctx.state = "Header"
    OBVIOUS
  <2>1. ctx.state = "Header"
    <3> HIDE DEF next
    <3> QED BY <1>2, <1>4 DEF IsContext
  <2> QED BY <1>5, <2>1 DEF At
<1> QED BY <1>1, <1>2, <1>3, <1>5, <1>6, <1>7, <1>8 DEF Before

(* A header is complete.                                                   *)
LEMMA HeaderReads ==
  ASSUME NEW msgs, Sendable(msgs), NEW types, NEW from \in Nat, NEW ms, NEW ctx, IsContext(ctx),
         NEW pos \in 0..Len(Encoded(msgs)), ReadsAt(ms, types, from, msgs, ctx, pos),
         ctx.state = "Header", Len(ctx.buffer) >= HEADER_SIZE
  PROVE  ReadsAt(ms, types, from, msgs,
                 [state |-> "Payload", header |-> Header_from_bytes(Lead(ctx.buffer, HEADER_SIZE)),
                  buffer |-> Rest(ctx.buffer, HEADER_SIZE)], pos)
<1> DEFINE B == Encoded(msgs)
           next == from + Len(ms)
           a == At(msgs, next, ctx)
           new == [state |-> "Payload", header |-> Header_from_bytes(Lead(ctx.buffer, HEADER_SIZE)),
                   buffer |-> Rest(ctx.buffer, HEADER_SIZE)]
<1>1. /\ ms \in Seq(Message \cup {Invalid}) /\ next \in 0..Len(msgs) /\ next \in Nat
      /\ a \in Nat /\ a <= pos /\ B \in Seq(Nat)
      /\ ctx.buffer = SubSeq(B, a + 1, pos) /\ Len(ctx.buffer) = pos - a
      /\ next = Len(msgs) => a = Len(B)
  <2>1. Before(ms, from, msgs, ctx, pos)
    BY ReaderIs
  <2> QED BY <2>1 DEF Before
<1>2. HEADER_SIZE = 3
  BY DEF HEADER_SIZE, TYPE_SIZE, LENGTH_SIZE
<1>3. a = Bound(msgs, next)
  <2>1. Bound(msgs, next) \in 0..Len(B)
    <3> HIDE DEF next
    <3> QED BY <1>1, StreamIs DEF Bound
  <2> QED BY <2>1 DEF At
<1>4. pos \in 0..Len(B) /\ pos \in Nat /\ Len(B) \in Nat /\ Len(msgs) \in Nat
  BY <1>1 DEF Sendable
<1> HIDE DEF B, next, a
<1>5. 3 \in 0..(pos - a) /\ a + 3 <= pos /\ next \in 0..(Len(msgs) - 1) /\ next < Len(msgs)
  BY <1>1, <1>2, <1>4
<1>6. PICK t \in Seq(Nat) : /\ Len(t) = 3 /\ Header_from_bytes(t) = HeaderOf(msgs[next + 1])
                            /\ \A i \in 1..3 : B[a + i] = t[i]
  <2> DEFINE m == msgs[next + 1]
  <2>1. \E t \in Seq(Nat) :
          /\ Len(t) = HEADER_SIZE /\ Header_from_bytes(t) = HeaderOf(m)
          /\ \A i \in 1..HEADER_SIZE : Encoded(msgs)[Bound(msgs, next) + i] = t[i]
    <3>1. m = msgs[next + 1]
      OBVIOUS
    <3> HIDE DEF m
    <3> QED BY <1>5, <3>1, NextMessage
  <2> QED BY <1>2, <1>3, <2>1 DEF B
<1>7. Lead(ctx.buffer, 3) = t /\ Rest(ctx.buffer, 3) = SubSeq(B, a + 3 + 1, pos)
  <2>1. Len(t) = 3 /\ t \in Seq(Nat) /\ \A i \in 1..3 : B[a + i] = t[i]
    BY <1>6
  <2>2. Lead(SubSeq(B, a + 1, pos), 3) = t
    BY <1>1, <1>4, <1>5, <2>1, WindowLead
  <2>3. Rest(SubSeq(B, a + 1, pos), 3) = SubSeq(B, a + 3 + 1, pos)
    BY <1>1, <1>4, <1>5, WindowRest
  <2> QED BY <1>1, <2>2, <2>3
<1>8. /\ new.state = "Payload" /\ new.header = HeaderOf(msgs[next + 1])
      /\ new.buffer = SubSeq(B, a + 3 + 1, pos)
  BY <1>2, <1>6, <1>7
<1> HIDE DEF new
<1>9. At(msgs, next, new) = a + 3
  BY <1>2, <1>3, <1>8 DEF At
<1>10. ReadsAt(ms, types, from, msgs, new, pos)
  <2>1. /\ ms \in Seq(Message \cup {Invalid}) /\ next <= Len(msgs)
        /\ \A k \in DOMAIN ms : ms[k] = Outcome(msgs[from + k], types)
    BY DEF ReadsAt, next
  <2> QED BY <1>5, <1>8, <1>9, <2>1 DEF ReadsAt, next, B
<1> QED BY <1>10 DEF new

LEMMA OutcomeTyped ==
  ASSUME NEW m \in Message, NEW types
  PROVE  Outcome(m, types) \in Message \cup {Invalid} /\ m # Invalid
<1>1. m.type # "Invalid"
  BY DEF Message
<1> QED BY <1>1 DEF Outcome, Invalid

(* A payload is complete.                                                  *)
LEMMA PayloadReads ==
  ASSUME NEW msgs, Sendable(msgs), NEW types, NEW from \in Nat, NEW ms, NEW ctx, IsContext(ctx),
         NEW pos \in 0..Len(Encoded(msgs)), ReadsAt(ms, types, from, msgs, ctx, pos),
         ctx.state = "Payload", Len(ctx.buffer) >= ctx.header.message_length
  PROVE  LET m == msgs[from + Len(ms) + 1]
         IN  /\ m \in Message /\ ctx.header = HeaderOf(m)
             /\ Lead(ctx.buffer, ctx.header.message_length) = into_bytes(m)
             /\ ReadsAt(Append(ms, Outcome(m, types)), types, from, msgs,
                        [ctx EXCEPT !.state = "Header", !.buffer = Rest(@, ctx.header.message_length)], pos)
<1> DEFINE B == Encoded(msgs)
           next == from + Len(ms)
           m == msgs[next + 1]
           L == Len(into_bytes(m))
           a == At(msgs, next, ctx)
           new == [ctx EXCEPT !.state = "Header", !.buffer = Rest(@, ctx.header.message_length)]
           out == Append(ms, Outcome(m, types))
<1>1. /\ ms \in Seq(Message \cup {Invalid}) /\ next \in 0..Len(msgs) /\ next \in Nat /\ Len(ms) \in Nat
      /\ a \in Nat /\ a <= pos /\ B \in Seq(Nat)
      /\ ctx.buffer = SubSeq(B, a + 1, pos) /\ Len(ctx.buffer) = pos - a
  <2>1. Before(ms, from, msgs, ctx, pos)
    BY ReaderIs
  <2> QED BY <2>1 DEF Before
<1>2. HEADER_SIZE = 3
  BY DEF HEADER_SIZE, TYPE_SIZE, LENGTH_SIZE
<1>3. a = Bound(msgs, next) + 3
  BY <1>2 DEF At
<1>4. pos \in 0..Len(B) /\ pos \in Nat /\ Len(B) \in Nat /\ Len(msgs) \in Nat
  BY <1>1 DEF Sendable
<1>5. next < Len(msgs) /\ ctx.header = HeaderOf(m)
  BY DEF ReadsAt
<1>6. next \in 0..(Len(msgs) - 1) /\ ctx.header.message_length = L
  <2>1. ctx.header.message_length = L
    BY <1>5 DEF HeaderOf
  <2> HIDE DEF next
  <2> QED BY <1>1, <1>4, <1>5, <2>1
<1> HIDE DEF next
<1>7. /\ m \in Message /\ L \in Nat /\ into_bytes(m) \in Seq(Nat) /\ Bound(msgs, next) \in Nat
      /\ Bound(msgs, next + 1) = Bound(msgs, next) + HEADER_SIZE + L
      /\ \A i \in 1..L : B[Bound(msgs, next) + HEADER_SIZE + i] = into_bytes(m)[i]
  <2>1. m = msgs[next + 1]
    OBVIOUS
  <2> HIDE DEF m
  <2> QED BY <1>6, <2>1, NextMessage
<1> HIDE DEF B, m, L, a
<1>8. L \in 0..(pos - a) /\ a + L <= pos /\ Bound(msgs, next + 1) = a + L
  <2> DEFINE bound == Bound(msgs, next)
             len == Len(ctx.buffer)
  <2>1. len >= L /\ len = pos - a /\ a = bound + 3 /\ Bound(msgs, next + 1) = bound + 3 + L /\ bound \in Nat
    BY <1>1, <1>2, <1>3, <1>6, <1>7
  <2> HIDE DEF bound, len
  <2> QED BY <1>1, <1>4, <1>7, <2>1
<1>9. Lead(ctx.buffer, L) = into_bytes(m) /\ Rest(ctx.buffer, L) = SubSeq(B, a + L + 1, pos)
  <2>1. \A i \in 1..L : B[a + i] = into_bytes(m)[i]
    BY <1>2, <1>3, <1>7
  <2> DEFINE bytes == into_bytes(m)
  <2>2. bytes \in Seq(Nat) /\ Len(bytes) = L
    BY <1>7 DEF L
  <2> HIDE DEF bytes
  <2>3. \A i \in 1..L : B[a + i] = bytes[i]
    BY <2>1 DEF bytes
  <2>4. Lead(ctx.buffer, L) = bytes /\ Rest(ctx.buffer, L) = SubSeq(B, a + L + 1, pos)
    <3>1. Lead(SubSeq(B, a + 1, pos), L) = bytes
      BY <1>1, <1>4, <1>8, <2>2, <2>3, WindowLead
    <3>2. Rest(SubSeq(B, a + 1, pos), L) = SubSeq(B, a + L + 1, pos)
      BY <1>1, <1>4, <1>8, WindowRest
    <3> QED BY <1>1, <3>1, <3>2
  <2> QED BY <2>4 DEF bytes
<1>10. new.state = "Header" /\ new.buffer = SubSeq(B, a + L + 1, pos)
  BY <1>6, <1>9 DEF IsContext
<1> HIDE DEF new
<1>11. Outcome(m, types) \in Message \cup {Invalid}
  BY <1>7, OutcomeTyped
<1>12. /\ out \in Seq(Message \cup {Invalid}) /\ Len(out) = Len(ms) + 1 /\ DOMAIN out = 1..(Len(ms) + 1)
       /\ out[Len(ms) + 1] = Outcome(m, types) /\ \A k \in 1..Len(ms) : out[k] = ms[k]
  BY <1>1, <1>11
<1> HIDE DEF out
<1>13. from + Len(out) = next + 1
  BY <1>1, <1>12 DEF next
<1>14. At(msgs, next + 1, new) = a + L
  <2>1. a + L + 0 = a + L
    BY <1>1, <1>7
  <2> QED BY <1>8, <1>10, <2>1 DEF At
<1>15. \A k \in DOMAIN out : out[k] = Outcome(msgs[from + k], types)
  <2> SUFFICES ASSUME NEW k \in 1..(Len(ms) + 1) PROVE out[k] = Outcome(msgs[from + k], types)
    BY <1>12
  <2>1. CASE k = Len(ms) + 1
    <3>1. from + k = next + 1
      BY <1>1, <2>1 DEF next
    <3> QED BY <1>12, <2>1, <3>1 DEF m
  <2>2. CASE k \in 1..Len(ms)
    <3>1. ms[k] = Outcome(msgs[from + k], types)
      <4>1. k \in DOMAIN ms
        BY <1>1, <2>2
      <4> QED BY <4>1 DEF ReadsAt
    <3> QED BY <1>12, <2>2, <3>1
  <2>3. k = Len(ms) + 1 \/ k \in 1..Len(ms)
    BY <1>1
  <2> QED BY <2>1, <2>2, <2>3
<1>16. next + 1 <= Len(msgs)
  BY <1>1, <1>4, <1>5
<1>17. ReadsAt(out, types, from, msgs, new, pos)
  BY <1>8, <1>10, <1>12, <1>13, <1>14, <1>15, <1>16 DEF ReadsAt, B
<1> QED BY <1>5, <1>6, <1>7, <1>9, <1>17 DEF next, m, out, new, L

-----------------------------------------------------------------------------
(* What the two readers make of a whole message.                           *)

LEMMA TlvReads ==
  ASSUME NEW m \in Message, NEW type \in DOMAIN ID
  PROVE  /\ HeaderOf(m).message_type = ID[type] <=> type = m.type
         /\ tlv_from_bytes(type, HeaderOf(m), into_bytes(m)) =
              IF type = m.type /\ Len(into_bytes(m)) \in size_range(m.type) THEN m ELSE Invalid
<1>1. m.type \in DOMAIN ID /\ from_bytes(m.type, into_bytes(m)) = m
  BY MessageReadsBack
<1>2. HeaderOf(m).message_type = ID[m.type] /\ HeaderOf(m).message_length = Len(into_bytes(m))
  BY DEF HeaderOf
<1>3. \A t, u \in DOMAIN ID : ID[t] = ID[u] => t = u
  BY DEF ID
<1>4. HeaderOf(m).message_type = ID[type] <=> type = m.type
  BY <1>1, <1>2, <1>3
<1> QED BY <1>1, <1>2, <1>4 DEF tlv_from_bytes

LEMMA HandshakerOutcome ==
  ASSUME NEW m \in Message
  PROVE  LET t == tlv_from_bytes("Handshake", HeaderOf(m), into_bytes(m))
             isHandshake == HeaderOf(m).message_type = ID["Handshake"] /\ t # Invalid
         IN  /\ isHandshake => t = m /\ m.type = "Handshake" /\ m # Invalid
             /\ (IF isHandshake THEN t ELSE Invalid) = Outcome(m, {"Handshake"})
<1> DEFINE t == tlv_from_bytes("Handshake", HeaderOf(m), into_bytes(m))
<1>1. "Handshake" \in DOMAIN ID
  BY DEF ID
<1>2. /\ HeaderOf(m).message_type = ID["Handshake"] <=> "Handshake" = m.type
      /\ t = IF "Handshake" = m.type /\ Len(into_bytes(m)) \in size_range(m.type) THEN m ELSE Invalid
  BY <1>1, TlvReads
<1>3. m # Invalid
  BY OutcomeTyped
<1> HIDE DEF t
<1> QED BY <1>2, <1>3 DEF Outcome, t

LEMMA PeerOutcome ==
  ASSUME NEW m \in Message
  PROVE  LET types == {t \in Handled : ID[t] = HeaderOf(m).message_type}
         IN  (IF types = {} THEN Invalid
              ELSE tlv_from_bytes(CHOOSE t \in types : TRUE, HeaderOf(m), into_bytes(m)))
               = Outcome(m, Handled)
<1> DEFINE types == {t \in Handled : ID[t] = HeaderOf(m).message_type}
           one == CHOOSE t \in types : TRUE
<1>1. Handled \subseteq DOMAIN ID
  BY DEF Handled, ID
<1>2. \A t \in types : t = m.type /\ t \in Handled
  BY <1>1, TlvReads
<1>3. m.type \in Handled => m.type \in types
  BY <1>1, TlvReads
<1>4. CASE types = {}
  BY <1>3, <1>4 DEF Outcome
<1>5. CASE types # {}
  <2>1. one \in types
    BY <1>5
  <2> HIDE DEF types, one
  <2>2. one = m.type /\ m.type \in Handled
    BY <1>2, <2>1
  <2>3. tlv_from_bytes(one, HeaderOf(m), into_bytes(m)) =
          IF Len(into_bytes(m)) \in size_range(m.type) THEN m ELSE Invalid
    BY <1>1, <2>2, TlvReads
  <2> QED BY <1>5, <2>2, <2>3 DEF Outcome, types, one
<1> QED BY <1>4, <1>5

-----------------------------------------------------------------------------
(* The invariant, of explicit values.                                      *)

LEMMA SentIs ==
  ASSUME sent \in Streams
  PROVE  Sendable(sent)
BY StreamsAssumption DEF Sendable

ReaderOK(ms, types, from, msgs, ctx, pos, rdg) ==
  ReadsAt(ms, types, from, msgs, ctx, pos) /\ (~rdg => UsedUp(ctx))

LEMMA HandshakerReads ==
  /\ Reads(log.handshaker, {"Handshake"}, 0)
       <=> ReaderOK(log.handshaker, {"Handshake"}, 0, sent, context, position, reading)
  /\ Reads(log.handshaker, {"Handshake"}, 0)'
       <=> ReaderOK(log'.handshaker, {"Handshake"}, 0, sent', context', position', reading')
BY DEF Reads, ReaderOK, ReadsAt, At, Bound, Boundary, ChunkUsedUp, PayloadComplete, UsedUp, HeaderOf

LEMMA PeerReads ==
  ASSUME NEW k
  PROVE  /\ Reads(log.peer, Handled, k)
              <=> ReaderOK(log.peer, Handled, k, sent, context, position, reading)
         /\ Reads(log.peer, Handled, k)'
              <=> ReaderOK(log'.peer, Handled, k, sent', context', position', reading')
BY DEF Reads, ReaderOK, ReadsAt, At, Bound, Boundary, ChunkUsedUp, PayloadComplete, UsedUp, HeaderOf

GoodAt(o, m) ==
  /\ m.type = "Handshake" /\ m # Invalid
  /\ SkewAccepted(m) /\ m.coordinator = COORDINATOR /\ m.mwm = MWM
  /\ common_supported_version(MESSAGES_VERSIONS, m.versions) # 0
  /\ o = "Inbound" \/ (o = "Outbound" /\ m.port = Port)

LEMMA GoodIs ==
  /\ Good = {k \in DOMAIN log.handshaker : GoodAt(origin, log.handshaker[k])}
  /\ Good' = {k \in DOMAIN log'.handshaker : GoodAt(origin', log'.handshaker[k])}
BY DEF Good, GoodHandshake, validate_handshake, GoodAt

Goods(o, ms) == {k \in DOMAIN ms : GoodAt(o, ms[k])}
Handshakes(ms, o, st, rg, rd, db) ==
  /\ ms \in Seq(Message \cup {Invalid})
  /\ st \in {"Awaiting", "Done", "Duplicate"} /\ rg \in {"no", "before", "now"}
  /\ rg = "now" \/ st # "Awaiting" => Goods(o, ms) # {}
  /\ st = "Duplicate" => rg = "before" \/ \E j, k \in Goods(o, ms) : j < k
  /\ rd = "peer" => st # "Awaiting"
  /\ rd = "closed" => st = "Duplicate"
  /\ rd = "panicked" => db

PeerOK(ms, from, msgs, ctx, pos, rdg) ==
  \A k \in 0..Len(msgs) : Bound(msgs, k) = from => ReaderOK(ms, Handled, k, msgs, ctx, pos, rdg)

Typed(msgs, pos, rdg, rd, ctx, l) ==
  /\ msgs \in Streams /\ pos \in 0..Len(Encoded(msgs)) /\ rdg \in BOOLEAN
  /\ rd \in {"handshaker", "peer", "closed", "panicked"}
  /\ IsContext(ctx)
  /\ l = [handshaker |-> l.handshaker, peer |-> l.peer]

LEMMA HandshakesAre ==
  /\ HandshakesOK <=> Handshakes(log.handshaker, origin, status, registered, reader, debugBuild)
  /\ HandshakesOK' <=> Handshakes(log'.handshaker, origin', status', registered', reader', debugBuild')
BY GoodIs DEF HandshakesOK, Handshakes, Goods

LEMMA InvIs ==
  /\ FramingInv <=>
       /\ Typed(sent, position, reading, reader, context, log)
       /\ Handshakes(log.handshaker, origin, status, registered, reader, debugBuild)
       /\ reader = "handshaker" =>
            /\ ReaderOK(log.handshaker, {"Handshake"}, 0, sent, context, position, reading)
            /\ log.peer = << >>
       /\ reader = "peer" => PeerOK(log.peer, base, sent, context, position, reading)
  /\ FramingInv' <=>
       /\ Typed(sent', position', reading', reader', context', log')
       /\ Handshakes(log'.handshaker, origin', status', registered', reader', debugBuild')
       /\ reader' = "handshaker" =>
            /\ ReaderOK(log'.handshaker, {"Handshake"}, 0, sent', context', position', reading')
            /\ log'.peer = << >>
       /\ reader' = "peer" => PeerOK(log'.peer, base', sent', context', position', reading')
<1>1. /\ (\A k \in 0..Len(sent) : Boundary(k) = base => Reads(log.peer, Handled, k))
           <=> PeerOK(log.peer, base, sent, context, position, reading)
      /\ (\A k \in 0..Len(sent) : Boundary(k) = base => Reads(log.peer, Handled, k))'
           <=> PeerOK(log'.peer, base', sent', context', position', reading')
  <2>1. \A k : /\ Boundary(k) = Bound(sent, k) /\ Boundary(k)' = Bound(sent', k)
    BY DEF Boundary, Bound
  <2>2. \A k : /\ Reads(log.peer, Handled, k)
                    <=> ReaderOK(log.peer, Handled, k, sent, context, position, reading)
               /\ Reads(log.peer, Handled, k)'
                    <=> ReaderOK(log'.peer, Handled, k, sent', context', position', reading')
    BY PeerReads
  <2> QED BY <2>1, <2>2 DEF PeerOK
<1> QED BY <1>1, HandshakesAre, HandshakerReads DEF FramingInv, Typed, IsContext

-----------------------------------------------------------------------------
LEMMA FramingInitial ==
  ASSUME FramingInit
  PROVE  FramingInv
<1>1. sent \in Streams /\ Sendable(sent)
  BY SentIs DEF FramingInit
<1>2. Bound(sent, 0) = 0 /\ 0 \in 0..Len(sent) /\ Encoded(sent) \in Seq(Nat) /\ Len(Encoded(sent)) \in Nat
  BY <1>1, StreamIs, PrefixIs DEF Bound, Sendable
<1>3. ReadsAt(<< >>, {"Handshake"}, 0, sent, Fresh, 0) /\ UsedUp(Fresh) /\ IsContext(Fresh)
  <2>1. ReadsAt(<< >>, {"Handshake"}, 0, sent, Fresh, Bound(sent, 0)) /\ UsedUp(Fresh) /\ IsContext(Fresh)
    BY <1>1, <1>2, FreshReads
  <2> QED BY <1>2, <2>1
<1>4. Typed(sent, position, reading, reader, context, log)
  <2>1. log = [handshaker |-> log.handshaker, peer |-> log.peer]
    BY DEF FramingInit
  <2>2. position \in 0..Len(Encoded(sent)) /\ IsContext(context)
    BY <1>2, <1>3 DEF FramingInit
  <2> QED BY <1>1, <2>1, <2>2 DEF FramingInit, Typed
<1>5. Handshakes(log.handshaker, origin, status, registered, reader, debugBuild)
  <2>1. << >> \in Seq(Message \cup {Invalid})
    OBVIOUS
  <2> QED BY <2>1 DEF FramingInit, Handshakes
<1>6. ReaderOK(log.handshaker, {"Handshake"}, 0, sent, context, position, reading) /\ log.peer = << >>
  BY <1>3 DEF FramingInit, ReaderOK
<1> QED BY <1>4, <1>5, <1>6, InvIs DEF FramingInit

LEMMA ReceiveKeeps ==
  ASSUME FramingInv, Receive
  PROVE  FramingInv'
<1>1. /\ Typed(sent, position, reading, reader, context, log) /\ Sendable(sent)
      /\ Handshakes(log.handshaker, origin, status, registered, reader, debugBuild)
  BY InvIs, SentIs DEF Typed
<1>2. PICK n \in 1..(Len(Encoded(sent)) - position) :
        /\ context' = [context EXCEPT !.buffer = @ \o SubSeq(Encoded(sent), position + 1, position + n)]
        /\ position' = position + n
  BY DEF Receive
<1>3. /\ reading' = TRUE /\ reader' = reader /\ sent' = sent /\ base' = base /\ log' = log
      /\ origin' = origin /\ status' = status /\ registered' = registered /\ debugBuild' = debugBuild
  BY DEF Receive
<1>4. /\ position \in 0..Len(Encoded(sent)) /\ n \in 0..(Len(Encoded(sent)) - position)
      /\ position' \in 0..Len(Encoded(sent))
  <2>1. position \in 0..Len(Encoded(sent)) /\ Len(Encoded(sent)) \in Nat
    BY <1>1, StreamIs DEF Typed
  <2> QED BY <1>2, <2>1
<1>5. IsContext(context) /\ IsContext(context')
  <2>1. IsContext(context)
    BY <1>1 DEF Typed
  <2> QED BY <1>2, <2>1 DEF IsContext
<1>6. Typed(sent', position', reading', reader', context', log')
  BY <1>1, <1>3, <1>4, <1>5 DEF Typed
<1>7. ASSUME NEW ms, NEW types, NEW from \in Nat, ReadsAt(ms, types, from, sent, context, position)
      PROVE  ReaderOK(ms, types, from, sent, context', position', TRUE)
  <2>1. ReadsAt(ms, types, from, sent, context', position + n)
    BY <1>1, <1>2, <1>4, <1>5, <1>7, ReceiveReads
  <2> QED BY <1>2, <2>1 DEF ReaderOK
<1>8. reader' = "handshaker" =>
        /\ ReaderOK(log'.handshaker, {"Handshake"}, 0, sent', context', position', reading')
        /\ log'.peer = << >>
  BY <1>3, <1>7, InvIs DEF ReaderOK
<1>9. reader' = "peer" => PeerOK(log'.peer, base', sent', context', position', reading')
  BY <1>3, <1>7, InvIs DEF ReaderOK, PeerOK
<1> QED BY <1>1, <1>3, <1>6, <1>8, <1>9, InvIs

LEMMA ReadHeaderKeeps ==
  ASSUME FramingInv, ReadHeader
  PROVE  FramingInv'
<1>1. /\ Typed(sent, position, reading, reader, context, log) /\ Sendable(sent)
      /\ Handshakes(log.handshaker, origin, status, registered, reader, debugBuild)
  BY InvIs, SentIs DEF Typed
<1>2. /\ context.state = "Header" /\ Len(context.buffer) >= HEADER_SIZE
      /\ context' = [state |-> "Payload", header |-> Header_from_bytes(Lead(context.buffer, HEADER_SIZE)),
                     buffer |-> Rest(context.buffer, HEADER_SIZE)]
  BY DEF ReadHeader
<1>3. /\ reading' = TRUE /\ reader' = reader /\ sent' = sent /\ base' = base /\ log' = log
      /\ position' = position /\ origin' = origin /\ status' = status /\ registered' = registered
      /\ debugBuild' = debugBuild
  BY <1>1 DEF ReadHeader, Typed
<1>4. IsContext(context) /\ IsContext(context') /\ position \in 0..Len(Encoded(sent))
  BY <1>1, <1>2 DEF IsContext, Typed
<1>5. Typed(sent', position', reading', reader', context', log')
  BY <1>1, <1>3, <1>4 DEF Typed
<1>6. ASSUME NEW ms, NEW types, NEW from \in Nat, ReadsAt(ms, types, from, sent, context, position)
      PROVE  ReaderOK(ms, types, from, sent, context', position, TRUE)
  <2>1. ReadsAt(ms, types, from, sent, context', position)
    BY <1>1, <1>2, <1>4, <1>6, HeaderReads
  <2> QED BY <2>1 DEF ReaderOK
<1>7. reader' = "handshaker" =>
        /\ ReaderOK(log'.handshaker, {"Handshake"}, 0, sent', context', position', reading')
        /\ log'.peer = << >>
  BY <1>3, <1>6, InvIs DEF ReaderOK
<1>8. reader' = "peer" => PeerOK(log'.peer, base', sent', context', position', reading')
  BY <1>3, <1>6, InvIs DEF ReaderOK, PeerOK
<1> QED BY <1>1, <1>3, <1>5, <1>7, <1>8, InvIs

LEMMA LogReads ==
  ASSUME NEW ms \in Seq(Message \cup {Invalid}), NEW m \in Message, NEW types, NEW o
  PROVE  /\ Append(ms, Outcome(m, types)) \in Seq(Message \cup {Invalid})
         /\ Goods(o, ms) \subseteq Goods(o, Append(ms, Outcome(m, types)))
         /\ GoodAt(o, Outcome(m, types)) =>
              Len(ms) + 1 \in Goods(o, Append(ms, Outcome(m, types))) /\ \A j \in Goods(o, ms) : j < Len(ms) + 1
<1> DEFINE x == Outcome(m, types)
<1>1. x \in Message \cup {Invalid}
  BY OutcomeTyped
<1> HIDE DEF x
<1>2. /\ Append(ms, x) \in Seq(Message \cup {Invalid}) /\ DOMAIN ms = 1..Len(ms) /\ Len(ms) \in Nat
      /\ DOMAIN Append(ms, x) = 1..(Len(ms) + 1)
      /\ Append(ms, x)[Len(ms) + 1] = x /\ \A k \in 1..Len(ms) : Append(ms, x)[k] = ms[k]
  BY <1>1
<1>3. \A k \in 1..Len(ms) : k \in 1..(Len(ms) + 1) /\ k < Len(ms) + 1
  BY <1>2
<1>4. Len(ms) + 1 \in 1..(Len(ms) + 1)
  BY <1>2
<1> QED BY <1>2, <1>3, <1>4 DEF Goods, x

(* A payload is read by the handshaker or by the PeerWorker.               *)
LEMMA PayloadKeeps ==
  ASSUME FramingInv, reading, context.state = "Payload", PayloadComplete,
         NEW ms, NEW types, NEW from \in Nat, ReadsAt(ms, types, from, sent, context, position),
         context' = [context EXCEPT !.state = "Header", !.buffer = Rest(@, context.header.message_length)]
  PROVE  LET m == sent[from + Len(ms) + 1]
         IN  /\ m \in Message /\ context.header = HeaderOf(m) /\ Payload = into_bytes(m)
             /\ ReadsAt(Append(ms, Outcome(m, types)), types, from, sent, context', position)
             /\ IsContext(context') /\ ms \in Seq(Message \cup {Invalid})
<1>1. Typed(sent, position, reading, reader, context, log) /\ Sendable(sent)
  BY InvIs, SentIs DEF Typed
<1>2. IsContext(context) /\ position \in 0..Len(Encoded(sent))
  BY <1>1 DEF Typed
<1>3. Len(context.buffer) >= context.header.message_length
  BY DEF PayloadComplete
<1>4. LET m == sent[from + Len(ms) + 1]
      IN  /\ m \in Message /\ context.header = HeaderOf(m)
          /\ Lead(context.buffer, context.header.message_length) = into_bytes(m)
          /\ ReadsAt(Append(ms, Outcome(m, types)), types, from, sent,
                     [context EXCEPT !.state = "Header", !.buffer = Rest(@, context.header.message_length)],
                     position)
  BY <1>1, <1>2, <1>3, PayloadReads
<1>5. IsContext(context')
  BY <1>2 DEF IsContext
<1>6. ms \in Seq(Message \cup {Invalid})
  BY DEF ReadsAt
<1> QED BY <1>4, <1>5, <1>6 DEF Payload

LEMMA HandshakerProcessKeeps ==
  ASSUME FramingInv, HandshakerProcess
  PROVE  FramingInv'
<1> DEFINE ms == log.handshaker
           m == sent[0 + Len(ms) + 1]
           t == tlv_from_bytes("Handshake", context.header, Payload)
           isHandshake == context.header.message_type = ID["Handshake"] /\ t # Invalid
           out == Outcome(m, {"Handshake"})
<1>1. /\ Typed(sent, position, reading, reader, context, log)
      /\ Handshakes(ms, origin, status, registered, reader, debugBuild)
      /\ ReadsAt(ms, {"Handshake"}, 0, sent, context, position) /\ log.peer = << >>
      /\ reader = "handshaker" /\ reading /\ context.state = "Payload" /\ PayloadComplete
  BY InvIs DEF HandshakerProcess, ReaderOK
<1>2. CASE isHandshake /\ ValidationPanics(t)
  <2>1. /\ reader' = "panicked" /\ debugBuild' = debugBuild /\ origin' = origin /\ sent' = sent
        /\ position' = position /\ reading' = reading /\ context' = context /\ status' = status
        /\ registered' = registered /\ log' = log
    BY <1>2 DEF HandshakerProcess
  <2>2. debugBuild
    BY <1>2 DEF ValidationPanics
  <2>3. Handshakes(log'.handshaker, origin', status', registered', reader', debugBuild')
    BY <1>1, <2>1, <2>2 DEF Handshakes
  <2>4. Typed(sent', position', reading', reader', context', log')
    BY <1>1, <2>1 DEF Typed
  <2> QED BY <2>1, <2>3, <2>4, InvIs
<1>3. CASE ~(isHandshake /\ ValidationPanics(t))
  <2>1. /\ IF isHandshake /\ validate_handshake(t)
           THEN /\ status' = IF registered = "no" THEN "Done" ELSE "Duplicate"
                /\ registered' = IF registered = "no" THEN "now" ELSE registered
           ELSE status' = status /\ registered' = registered
        /\ reader' = reader
        /\ PayloadRead(IF isHandshake THEN t ELSE Invalid)
    BY <1>3 DEF HandshakerProcess
  <2>2. /\ context' = [context EXCEPT !.state = "Header", !.buffer = Rest(@, context.header.message_length)]
        /\ log' = [log EXCEPT !["handshaker"] = Append(@, IF isHandshake THEN t ELSE Invalid)]
        /\ debugBuild' = debugBuild /\ origin' = origin /\ sent' = sent /\ position' = position
        /\ reading' = reading
    BY <1>1, <2>1 DEF PayloadRead
  <2>3. /\ m \in Message /\ context.header = HeaderOf(m) /\ Payload = into_bytes(m)
        /\ ReadsAt(Append(ms, out), {"Handshake"}, 0, sent, context', position)
        /\ IsContext(context') /\ ms \in Seq(Message \cup {Invalid})
    <3>1. 0 \in Nat
      OBVIOUS
    <3> QED BY <1>1, <2>2, <3>1, PayloadKeeps
  <2>4. /\ isHandshake => t = m /\ m.type = "Handshake" /\ m # Invalid
        /\ (IF isHandshake THEN t ELSE Invalid) = out
    BY <2>3, HandshakerOutcome
  <2>5. isHandshake /\ validate_handshake(t) => GoodAt(origin, out)
    BY <2>4 DEF validate_handshake, GoodAt
  <2> HIDE DEF m, t, isHandshake, out, ms
  <2>6. log' = [handshaker |-> Append(ms, out), peer |-> << >>]
    <3>1. log = [handshaker |-> ms, peer |-> << >>]
      BY <1>1 DEF Typed, ms
    <3> QED BY <2>2, <2>4, <3>1
  <2>7. log'.handshaker = Append(ms, out) /\ log'.peer = << >>
        /\ log' = [handshaker |-> log'.handshaker, peer |-> log'.peer]
    BY <2>6
  <2>8. /\ Append(ms, out) \in Seq(Message \cup {Invalid})
        /\ Goods(origin, ms) \subseteq Goods(origin, Append(ms, out))
        /\ GoodAt(origin, out) =>
             /\ Len(ms) + 1 \in Goods(origin, Append(ms, out))
             /\ \A j \in Goods(origin, ms) : j < Len(ms) + 1
    BY <2>3, LogReads DEF out
  <2>9. Handshakes(Append(ms, out), origin, status', registered', reader, debugBuild)
    <3>1. CASE isHandshake /\ validate_handshake(t)
      BY <1>1, <2>1, <2>5, <2>8, <3>1 DEF Handshakes
    <3>2. CASE ~(isHandshake /\ validate_handshake(t))
      BY <1>1, <2>1, <2>8, <3>2 DEF Handshakes
    <3> QED BY <3>1, <3>2
  <2>10. ReaderOK(Append(ms, out), {"Handshake"}, 0, sent, context', position, reading)
    BY <1>1, <2>3 DEF ReaderOK
  <2>11. Typed(sent', position', reading', reader', context', log')
    BY <1>1, <2>1, <2>2, <2>3, <2>7 DEF Typed
  <2> QED BY <1>1, <2>1, <2>2, <2>7, <2>9, <2>10, <2>11, InvIs
<1> QED BY <1>2, <1>3

LEMMA PeerProcessKeeps ==
  ASSUME FramingInv, PeerProcess
  PROVE  FramingInv'
<1> DEFINE ms == log.peer
           types == {t \in Handled : ID[t] = context.header.message_type}
           read == IF types = {} THEN Invalid
                   ELSE tlv_from_bytes(CHOOSE t \in types : TRUE, context.header, Payload)
<1>1. /\ Typed(sent, position, reading, reader, context, log)
      /\ Handshakes(log.handshaker, origin, status, registered, reader, debugBuild)
      /\ PeerOK(ms, base, sent, context, position, reading)
      /\ reader = "peer" /\ reading /\ context.state = "Payload" /\ PayloadComplete
  BY InvIs DEF PeerProcess
<1>2. /\ context' = [context EXCEPT !.state = "Header", !.buffer = Rest(@, context.header.message_length)]
      /\ log' = [log EXCEPT !["peer"] = Append(@, read)]
      /\ debugBuild' = debugBuild /\ origin' = origin /\ sent' = sent /\ position' = position
      /\ reading' = reading /\ base' = base /\ reader' = reader /\ status' = status
      /\ registered' = registered
  BY <1>1 DEF PeerProcess, PayloadRead
<1>3. ASSUME NEW k \in 0..Len(sent), Bound(sent, k) = base
      PROVE  ReaderOK(Append(ms, read), Handled, k, sent, context', position, reading)
  <2> DEFINE m == sent[k + Len(ms) + 1]
  <2>1. ReadsAt(ms, Handled, k, sent, context, position) /\ k \in Nat
    BY <1>1, <1>3 DEF PeerOK, ReaderOK
  <2>2. /\ m \in Message /\ context.header = HeaderOf(m) /\ Payload = into_bytes(m)
        /\ ReadsAt(Append(ms, Outcome(m, Handled)), Handled, k, sent, context', position)
    BY <1>1, <1>2, <2>1, PayloadKeeps
  <2>3. read = Outcome(m, Handled)
    BY <2>2, PeerOutcome
  <2> QED BY <1>1, <2>2, <2>3 DEF ReaderOK
<1> HIDE DEF ms, read
<1>4. /\ log'.handshaker = log.handshaker /\ log'.peer = Append(ms, read)
      /\ log' = [handshaker |-> log'.handshaker, peer |-> log'.peer]
  <2> DEFINE h == log.handshaker
  <2>1. log = [handshaker |-> h, peer |-> ms]
    BY <1>1 DEF Typed, ms
  <2> HIDE DEF h
  <2>2. log.handshaker = h
    BY DEF h
  <2>3. log' = [handshaker |-> h, peer |-> Append(ms, read)]
    BY <1>2, <2>1
  <2> QED BY <2>2, <2>3
<1>5. IsContext(context')
  BY <1>1, <1>2 DEF Typed, IsContext
<1>6. Typed(sent', position', reading', reader', context', log')
  BY <1>1, <1>2, <1>4, <1>5 DEF Typed
<1>7. PeerOK(log'.peer, base', sent', context', position', reading')
  BY <1>2, <1>3, <1>4 DEF PeerOK
<1> QED BY <1>1, <1>2, <1>4, <1>6, <1>7, InvIs

LEMMA EndOfChunkKeeps ==
  ASSUME FramingInv, EndOfChunk
  PROVE  FramingInv'
<1>1. /\ Typed(sent, position, reading, reader, context, log) /\ Sendable(sent)
      /\ Handshakes(log.handshaker, origin, status, registered, reader, debugBuild)
  BY InvIs, SentIs DEF Typed
<1>2. /\ debugBuild' = debugBuild /\ origin' = origin /\ sent' = sent /\ position' = position
      /\ status' = status /\ registered' = registered /\ log' = log /\ reading' = FALSE
      /\ UsedUp(context)
  BY DEF EndOfChunk, ChunkUsedUp, PayloadComplete, UsedUp
<1>3. CASE reader = "handshaker" /\ status # "Awaiting"
  <2>1. reader' = (IF status = "Done" THEN "peer" ELSE "closed") /\ context' = Fresh /\ base' = position
    BY <1>3 DEF EndOfChunk
  <2>2. log.peer = << >>
    BY <1>3, InvIs
  <2>3. Handshakes(log'.handshaker, origin', status', registered', reader', debugBuild')
    BY <1>1, <1>2, <1>3, <2>1 DEF Handshakes
  <2>4. ASSUME NEW k \in 0..Len(sent), Bound(sent, k) = position
        PROVE  ReaderOK(<< >>, Handled, k, sent, Fresh, position, FALSE)
    <3>1. ReadsAt(<< >>, Handled, k, sent, Fresh, Bound(sent, k)) /\ UsedUp(Fresh)
      BY <1>1, FreshReads
    <3> QED BY <2>4, <3>1 DEF ReaderOK
  <2>5. PeerOK(log'.peer, base', sent', context', position', reading')
    BY <1>2, <2>1, <2>2, <2>4 DEF PeerOK
  <2>6. IsContext(Fresh)
    BY DEF IsContext, Fresh
  <2>7. Typed(sent', position', reading', reader', context', log')
    BY <1>1, <1>2, <2>1, <2>6 DEF Typed
  <2> QED BY <2>1, <2>3, <2>5, <2>7, InvIs
<1>4. CASE ~(reader = "handshaker" /\ status # "Awaiting")
  <2>1. reader' = reader /\ context' = context /\ base' = base
    BY <1>4 DEF EndOfChunk
  <2>2. Typed(sent', position', reading', reader', context', log')
    BY <1>1, <1>2, <2>1 DEF Typed
  <2>3. reader = "handshaker" =>
          ReaderOK(log.handshaker, {"Handshake"}, 0, sent, context, position, FALSE) /\ log.peer = << >>
    BY <1>2, InvIs DEF ReaderOK
  <2>4. reader = "peer" => PeerOK(log.peer, base, sent, context, position, FALSE)
    BY <1>2, InvIs DEF ReaderOK, PeerOK
  <2> QED BY <1>1, <1>2, <2>1, <2>2, <2>3, <2>4, InvIs
<1> QED BY <1>3, <1>4

LEMMA FramingStep ==
  ASSUME FramingInv, [FramingNext]_framingVars
  PROVE  FramingInv'
<1>1. CASE Receive
  BY <1>1, ReceiveKeeps
<1>2. CASE ReadHeader
  BY <1>2, ReadHeaderKeeps
<1>3. CASE HandshakerProcess
  BY <1>3, HandshakerProcessKeeps
<1>4. CASE PeerProcess
  BY <1>4, PeerProcessKeeps
<1>5. CASE EndOfChunk
  BY <1>5, EndOfChunkKeeps
<1>6. CASE UNCHANGED framingVars
  <2>1. /\ debugBuild' = debugBuild /\ origin' = origin /\ sent' = sent /\ position' = position
        /\ reader' = reader /\ reading' = reading /\ context' = context /\ status' = status
        /\ registered' = registered /\ base' = base /\ log' = log
    BY <1>6 DEF framingVars
  <2> QED BY <2>1, InvIs
<1> QED BY <1>1, <1>2, <1>3, <1>4, <1>5, <1>6 DEF FramingNext

\* Every turn of the read loops (the message_handler of handshaker.rs and of peer.rs) leaves in
\* the read context exactly the bytes received of the messages not yet read, with the header of
\* the one being read, and a status that the handshakes read account for; for every stream of
\* well-formed messages, every way to cut it and every size of the fields.
THEOREM FramingInductive == FramingSpec => []FramingInv
<1>1. FramingInit => FramingInv
  BY FramingInitial
<1>2. FramingInv /\ [FramingNext]_framingVars => FramingInv'
  BY FramingStep
<1> QED BY <1>1, <1>2, PTL DEF FramingSpec

-----------------------------------------------------------------------------
(* Between two chunks no complete message is left.                         *)
LEMMA NothingLeft ==
  ASSUME NEW msgs, Sendable(msgs), NEW types, NEW from \in Nat, NEW ms, NEW ctx, IsContext(ctx),
         NEW pos \in 0..Len(Encoded(msgs)), ReadsAt(ms, types, from, msgs, ctx, pos), UsedUp(ctx)
  PROVE  from + Len(ms) = Len(msgs) \/ Bound(msgs, from + Len(ms) + 1) > pos
<1> DEFINE next == from + Len(ms)
           m == msgs[next + 1]
           L == Len(into_bytes(m))
           a == At(msgs, next, ctx)
           bound == Bound(msgs, next)
           end == Bound(msgs, next + 1)
           len == Len(ctx.buffer)
<1>1. next \in 0..Len(msgs) /\ len = pos - a /\ a \in Nat
  <2>1. Before(ms, from, msgs, ctx, pos)
    BY ReaderIs
  <2> QED BY <2>1 DEF Before
<1>2. HEADER_SIZE = 3 /\ Len(msgs) \in Nat
  BY DEF HEADER_SIZE, TYPE_SIZE, LENGTH_SIZE, Sendable
<1>3. pos \in Int
  OBVIOUS
<1>4. CASE next # Len(msgs)
  <2>1. next \in 0..(Len(msgs) - 1)
    <3> HIDE DEF next
    <3> QED BY <1>1, <1>2, <1>4
  <2>2. L \in Nat /\ bound \in Nat /\ end = bound + 3 + L
    <3>1. m = msgs[next + 1]
      OBVIOUS
    <3>2. /\ L \in Nat /\ Bound(msgs, next) \in Nat
          /\ Bound(msgs, next + 1) = Bound(msgs, next) + HEADER_SIZE + L
      <4> HIDE DEF next, m
      <4> QED BY <2>1, <3>1, NextMessage
    <3> QED BY <1>2, <3>2
  <2>3. CASE ctx.state = "Header"
    <3>1. a = bound /\ len < 3
      BY <1>2, <2>2, <2>3 DEF At, UsedUp
    <3> HIDE DEF a, bound, end, len, L
    <3>2. end > pos
      BY <1>1, <1>3, <2>2, <3>1
    <3> QED BY <3>2 DEF end
  <2>4. CASE ctx.state = "Payload"
    <3>1. a = bound + 3 /\ ~(len >= L)
      <4>1. ctx.header.message_length = L
        BY <2>4 DEF ReadsAt, HeaderOf
      <4> QED BY <1>2, <2>4, <4>1 DEF At, UsedUp
    <3> HIDE DEF a, bound, end, len, L
    <3>2. end > pos
      BY <1>1, <1>3, <2>2, <3>1
    <3> QED BY <3>2 DEF end
  <2> QED BY <2>3, <2>4 DEF IsContext
<1> QED BY <1>4

LEMMA ReadFromIs ==
  ASSUME sent \in Streams, IsContext(context), position \in 0..Len(Encoded(sent)),
         NEW ms, NEW types, NEW from \in Nat,
         ReaderOK(ms, types, from, sent, context, position, reading)
  PROVE  ReadFrom(ms, types, from)
<1>1. Sendable(sent) /\ Len(sent) \in Nat
  BY SentIs DEF Sendable
<1>2. ReadsAt(ms, types, from, sent, context, position) /\ (~reading => UsedUp(context))
  BY DEF ReaderOK
<1>3. Len(ms) <= Len(sent) - from /\ \A k \in DOMAIN ms : ms[k] = Outcome(sent[from + k], types)
  <2>1. /\ ms \in Seq(Message \cup {Invalid}) /\ from + Len(ms) <= Len(sent)
        /\ \A k \in DOMAIN ms : ms[k] = Outcome(sent[from + k], types)
    BY <1>2 DEF ReadsAt
  <2> QED BY <1>1, <2>1
<1>4. ~reading => from + Len(ms) = Len(sent) \/ Bound(sent, from + Len(ms) + 1) > position
  BY <1>1, <1>2, NothingLeft
<1> QED BY <1>3, <1>4 DEF ReadFrom, Boundary, Bound

LEMMA InvMeans ==
  ASSUME FramingInv
  PROVE  FramesAreRead
<1>1. /\ Typed(sent, position, reading, reader, context, log) /\ HandshakesOK
      /\ reader = "handshaker" =>
           ReaderOK(log.handshaker, {"Handshake"}, 0, sent, context, position, reading)
      /\ reader = "peer" => PeerOK(log.peer, base, sent, context, position, reading)
  BY InvIs, HandshakesAre
<1>2. sent \in Streams /\ IsContext(context) /\ position \in 0..Len(Encoded(sent))
  BY <1>1 DEF Typed
<1>3. reader = "handshaker" => ReadFrom(log.handshaker, {"Handshake"}, 0)
  BY <1>1, <1>2, ReadFromIs
<1>4. reader = "peer" => \A k \in 0..Len(sent) : Boundary(k) = base => ReadFrom(log.peer, Handled, k)
  <2> SUFFICES ASSUME reader = "peer", NEW k \in 0..Len(sent), Boundary(k) = base
               PROVE  ReadFrom(log.peer, Handled, k)
    OBVIOUS
  <2>1. Bound(sent, k) = base /\ k \in Nat
    BY DEF Boundary, Bound
  <2>2. ReaderOK(log.peer, Handled, k, sent, context, position, reading)
    BY <1>1, <2>1 DEF PeerOK
  <2> QED BY <1>2, <2>1, <2>2, ReadFromIs
<1>5. reader = "peer" => \E k \in DOMAIN log.handshaker : GoodHandshake(log.handshaker[k])
  BY <1>1 DEF HandshakesOK, Good
<1>6. reader = "closed" => Good # {} /\ (registered = "before" \/ \E j, k \in Good : j < k)
  BY <1>1 DEF HandshakesOK
<1>7. reader = "panicked" => debugBuild
  BY <1>1 DEF HandshakesOK
<1> QED BY <1>3, <1>4, <1>5, <1>6, <1>7 DEF FramesAreRead, Good

\* However the network cuts the stream into chunks, handshaker.rs and peer.rs read each message
\* that lies before, or after, the chunk the handshake is accepted in, and none is left complete
\* between two chunks, as long as no handshake was refused; and what they do with a connection
\* is accounted for by the handshakes read.
THEOREM StreamIsRead == FramingSpec => []FramesAreRead
BY FramingInductive, InvMeans, PTL
=============================================================================
