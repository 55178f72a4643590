---------------------------- MODULE RequestQueue ----------------------------
(***************************************************************************)
(* The WaitPriorityQueue of bee-protocol, between the tasks that ask for   *)
(* transactions and the one requester task that pops it inside a select!   *)
(* with its shutdown signal.  A waker is the right to schedule that task;  *)
(* the executor runs it once for any number of wakes.                      *)
(***************************************************************************)
EXTENDS Integers

CONSTANTS Entry,     \* the requests
          Index,     \* Index[e]: the milestone index that orders them
          MaxWaiting \* bound: how often an entry may wait at once

VARIABLES heap,      \* BinaryHeap: how often each entry is in it
          wakers,    \* VecDeque<Waker>: all of them the requester's
          task,      \* where the requester is
          woken,     \* it is scheduled to run
          shutdown,  \* the signal has been sent
          listening  \* the oneshot holds the requester's waker

requestVars == <<heap, wakers, task, woken, shutdown, listening>>

(* "select" has polled neither branch, "popPending" and "stopPending" one  *)
(* of them; "waiting" has returned Pending to the executor; "busy" awaits  *)
(* in process_request.                                                     *)
Places == {"select", "popPending", "stopPending", "waiting", "busy", "stopped"}

RequestTypeOK ==
  /\ heap \in [Entry -> Nat]
  /\ wakers \in Nat
  /\ task \in Places
  /\ woken \in BOOLEAN /\ shutdown \in BOOLEAN /\ listening \in BOOLEAN

RequestInit ==
  /\ heap = [e \in Entry |-> 0]
  /\ wakers = 0
  /\ task = "select"
  /\ woken = FALSE /\ shutdown = FALSE /\ listening = FALSE

is_empty == \A e \in Entry : heap[e] = 0

(* cmp compares the index only: of equals the heap may give any.           *)
Greatest(e) == heap[e] > 0 /\ \A f \in Entry : heap[f] > 0 => Index[f] <= Index[e]

-----------------------------------------------------------------------------
(* A mutant: the waker is dropped without a wake when the heap was not     *)
(* empty.                                                                  *)
insert_wake_first(e) ==
  /\ heap[e] < MaxWaiting
  /\ heap' = [heap EXCEPT ![e] = @ + 1]
  /\ wakers' = IF wakers > 0 THEN wakers - 1 ELSE 0
  /\ woken' = (woken \/ (wakers > 0 /\ ~is_empty))
  /\ UNCHANGED <<task, shutdown, listening>>

(* Push, then wake one waker, under one lock.                              *)
insert(e) ==
  /\ heap[e] < MaxWaiting
  /\ heap' = [heap EXCEPT ![e] = @ + 1]
  /\ wakers' = IF wakers > 0 THEN wakers - 1 ELSE 0
  /\ woken' = (woken \/ wakers > 0)
  /\ UNCHANGED <<task, shutdown, listening>>

(* The executor polls a task that was woken.  One that awaits a send takes *)
(* the wake without looking at the queue.                                  *)
Run ==
  /\ woken
  /\ task \in {"waiting", "busy"}
  /\ woken' = FALSE
  /\ task' = IF task = "waiting" THEN "select" ELSE "busy"
  /\ UNCHANGED <<heap, wakers, shutdown, listening>>

(* WaitFut::poll with an entry: the select! ends, the branch runs.         *)
poll_ready(e) ==
  /\ task \in {"select", "stopPending"}
  /\ Greatest(e)
  /\ heap' = [heap EXCEPT ![e] = @ - 1]
  /\ task' = "busy"
  /\ UNCHANGED <<wakers, woken, shutdown, listening>>

poll_pending ==
  /\ task \in {"select", "stopPending"}
  /\ is_empty
  /\ wakers' = wakers + 1
  /\ task' = IF task = "select" THEN "popPending" ELSE "waiting"
  /\ UNCHANGED <<heap, woken, shutdown, listening>>

(* select! polls its branches in random order.                             *)
poll_shutdown ==
  /\ task \in {"select", "popPending"}
  /\ IF shutdown
     THEN task' = "stopped" /\ UNCHANGED listening
     ELSE /\ listening' = TRUE
          /\ task' = IF task = "select" THEN "stopPending" ELSE "waiting"
  /\ UNCHANGED <<heap, wakers, woken, shutdown>>

(* The branch ends and the loop builds a new WaitFut.                      *)
process_request ==
  /\ task = "busy"
  /\ task' = "select"
  /\ UNCHANGED <<heap, wakers, woken, shutdown, listening>>

SendShutdown ==
  /\ ~shutdown
  /\ shutdown' = TRUE
  /\ woken' = (woken \/ listening)
  /\ UNCHANGED <<heap, wakers, task, listening>>

RequestNext ==
  \/ \E e \in Entry : insert(e) \/ poll_ready(e)
  \/ Run \/ poll_pending \/ poll_shutdown \/ process_request \/ SendShutdown

RequestSpec == RequestInit /\ [][RequestNext]_requestVars

-----------------------------------------------------------------------------
(* A requester that sleeps is woken by the next request and has been woken *)
(* if there is something to do: neither a request nor the shutdown signal  *)
(* is slept through, although a wake may be spent on another await and     *)
(* each turn of the loop leaves a new waker (WaitPriorityQueue::insert and *)
(* WaitFut::poll).  The wakers left behind do not pile up.                 *)
NoLostRequest ==
  /\ task = "waiting" /\ ~woken => is_empty /\ ~shutdown /\ wakers > 0 /\ listening
  /\ wakers <= 2

(* The inductive form: what has been polled in this turn, and the wakers   *)
(* that each place can have left behind.  Before the shutdown signal a     *)
(* wake and a waker exclude each other.                                    *)
RequestInv ==
  /\ RequestTypeOK
  /\ task \in {"select", "stopPending", "busy"} /\ ~shutdown => wakers = 0 /\ ~woken
  /\ task \in {"popPending", "waiting"} /\ ~shutdown => (woken <=> wakers = 0)
  /\ task \in {"popPending", "waiting"} /\ ~woken => is_empty /\ wakers > 0
  /\ task \in {"stopPending", "waiting"} => listening /\ (shutdown => woken)
  /\ task = "stopPending" => wakers = 0
  /\ task \in {"select", "busy", "waiting"} \/ ~shutdown => wakers <= 1
  /\ wakers <= 2
=============================================================================
