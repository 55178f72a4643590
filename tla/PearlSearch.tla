----------------------------- MODULE PearlSearch -----------------------------
(***************************************************************************)
(* The search of bee-pow's PearlDiver: one thread is in search_sync, which *)
(* starts a thread per core, another may call cancel; they share one state *)
(* behind a lock.  Whether a batch of candidates holds a nonce is a free   *)
(* choice, and so is after which batch inner_increment reports that the    *)
(* thread's space is exhausted: it counts on trits that transform has      *)
(* replaced by the hash.  A nonce is known by the thread and the batch it  *)
(* was found in.                                                           *)
(***************************************************************************)
EXTENDS Integers

CONSTANTS Cores,    \* the threads
          Batches   \* bound: batches a thread looks at

ASSUME BatchesAssumption == Batches \in Nat \ {0}

VARIABLES pdstate,  \* PearlDiverState
          main,     \* where search_sync is
          thread,   \* where the threads are
          batch,    \* the state each of them looks at
          found,    \* history: the nonces found
          exhausted, \* history: the threads that inner_increment has stopped
          cancel    \* where cancel is

searchVars == <<pdstate, main, thread, batch, found, exhausted, cancel>>

Nonces == Cores \X (1..Batches)

(* Completed(Option<NonceTrits>), and the states without a value.          *)
Completed(nonce) == [state |-> "Completed", nonce |-> nonce]
Shared(s) == [state |-> s, nonce |-> << >>]

SearchInit ==
  /\ pdstate = Shared("Created")
  /\ main = "start"
  /\ thread = [c \in Cores |-> "unborn"]
  /\ batch = [c \in Cores |-> 1]
  /\ found = {}
  /\ exhausted = {}
  /\ cancel = "idle"

Start ==
  /\ main = "start"
  /\ pdstate = Shared("Created")
  /\ pdstate' = Shared("Searching")
  /\ main' = "spawn"
  /\ UNCHANGED <<thread, batch, found, exhausted, cancel>>

Spawn(c) ==
  /\ main = "spawn"
  /\ thread[c] = "unborn"
  /\ thread' = [thread EXCEPT ![c] = "check"]
  /\ UNCHANGED <<pdstate, main, batch, found, exhausted, cancel>>

(* The scope ends when its threads have.                                   *)
Join ==
  /\ main = "spawn"
  /\ \A c \in Cores : thread[c] = "done"
  /\ main' = "joined"
  /\ UNCHANGED <<pdstate, thread, batch, found, exhausted, cancel>>

(* Mutant: the search is completed whatever the state is.                  *)
AlwaysFinish ==
  /\ main = "joined"
  /\ main' = "finish"
  /\ UNCHANGED <<pdstate, thread, batch, found, exhausted, cancel>>

LookAtState ==
  /\ main = "joined"
  /\ main' = IF pdstate = Shared("Searching") THEN "finish" ELSE "end"
  /\ UNCHANGED <<pdstate, thread, batch, found, exhausted, cancel>>

Finish ==
  /\ main = "finish"
  /\ pdstate' = Completed(<< >>)
  /\ main' = "end"
  /\ UNCHANGED <<thread, batch, found, exhausted, cancel>>

Check(c) ==
  /\ thread[c] = "check"
  /\ thread' = [thread EXCEPT ![c] = IF pdstate = Shared("Searching") THEN "dive" ELSE "done"]
  /\ UNCHANGED <<pdstate, main, batch, found, exhausted, cancel>>

DiveFound(c) ==
  /\ thread[c] = "dive"
  /\ thread' = [thread EXCEPT ![c] = "write"]
  /\ found' = found \cup {<<c, batch[c]>>}
  /\ UNCHANGED <<pdstate, main, batch, exhausted, cancel>>

(* No nonce, and the increment has one trit without a carry.               *)
DiveOn(c) ==
  /\ thread[c] = "dive"
  /\ batch[c] < Batches
  /\ thread' = [thread EXCEPT ![c] = "check"]
  /\ batch' = [batch EXCEPT ![c] = @ + 1]
  /\ UNCHANGED <<pdstate, main, found, exhausted, cancel>>

(* No nonce, and every trit has a carry.                                   *)
Exhaust(c) ==
  /\ thread[c] = "dive"
  /\ thread' = [thread EXCEPT ![c] = "done"]
  /\ exhausted' = exhausted \cup {c}
  /\ UNCHANGED <<pdstate, main, batch, found, cancel>>

Write(c) ==
  /\ thread[c] = "write"
  /\ pdstate' = Completed(<<c, batch[c]>>)
  /\ thread' = [thread EXCEPT ![c] = "done"]
  /\ UNCHANGED <<main, batch, found, exhausted, cancel>>

(* cancel reads under one lock and writes under another.                   *)
CancelRead ==
  /\ cancel = "idle"
  /\ pdstate = Shared("Searching")
  /\ cancel' = "write"
  /\ UNCHANGED <<pdstate, main, thread, batch, found, exhausted>>

CancelWrite ==
  /\ cancel = "write"
  /\ pdstate' = Shared("Cancelled")
  /\ cancel' = "done"
  /\ UNCHANGED <<main, thread, batch, found, exhausted>>

SearchNext ==
  \/ Start \/ Join \/ LookAtState \/ Finish \/ CancelRead \/ CancelWrite
  \/ \E c \in Cores : Spawn(c) \/ Check(c) \/ DiveFound(c) \/ DiveOn(c) \/ Exhaust(c) \/ Write(c)

SearchSpec == SearchInit /\ [][SearchNext]_searchVars

-----------------------------------------------------------------------------
(* When search_sync returns, the search is over: completed without a nonce *)
(* only if inner_increment has stopped every thread and none of them found *)
(* one, completed with a nonce some thread found, or cancelled; a nonce    *)
(* that was found is lost only to cancel, which may overwrite it.          *)
SearchOutcome ==
  main = "end" =>
    /\ pdstate \in {Completed(<< >>), Shared("Cancelled")} \cup {Completed(n) : n \in Nonces}
    /\ \A c \in Cores : thread[c] = "done"
    /\ pdstate = Completed(<< >>) => found = {} /\ exhausted = Cores
    /\ found # {} => pdstate \in {Completed(n) : n \in found} \cup {Shared("Cancelled")}
    /\ pdstate = Shared("Cancelled") => cancel = "done"

(* The inductive form.  A thread is done while the state is Searching only *)
(* because the increment has stopped it; a nonce that was found is about   *)
(* to be written or has changed the state; and once the last look has seen *)
(* Searching, there is none.                                               *)
SearchTypeOK ==
  /\ pdstate \in {Shared(s) : s \in {"Created", "Searching", "Cancelled"}}
                   \cup {Completed(<< >>)} \cup {Completed(n) : n \in Nonces}
  /\ main \in {"start", "spawn", "joined", "finish", "end"}
  /\ thread \in [Cores -> {"unborn", "check", "dive", "write", "done"}]
  /\ batch \in [Cores -> 1..Batches]
  /\ found \subseteq Nonces
  /\ exhausted \subseteq Cores
  /\ cancel \in {"idle", "write", "done"}

Fruitless == found = {} /\ exhausted = Cores

SearchInv ==
  /\ SearchTypeOK
  /\ pdstate = Shared("Created") <=> main = "start"
  /\ main = "start" => cancel = "idle" /\ found = {} /\ \A c \in Cores : thread[c] = "unborn"
  /\ main \in {"joined", "finish", "end"} => \A c \in Cores : thread[c] = "done"
  /\ \A c \in Cores : thread[c] = "write" => <<c, batch[c]>> \in found
  /\ \A n \in found : thread[n[1]] = "write" \/ (thread[n[1]] = "done" /\ pdstate # Shared("Searching"))
  /\ pdstate = Shared("Searching") => \A c \in Cores : thread[c] = "done" => c \in exhausted
  /\ pdstate = Shared("Cancelled") => cancel = "done"
  /\ pdstate = Completed(<< >>) => main = "end" /\ Fruitless
  /\ \A n \in Nonces : pdstate = Completed(n) => n \in found
  /\ main = "finish" => Fruitless
  /\ main = "end" => pdstate # Shared("Searching")
=============================================================================
