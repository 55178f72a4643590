------------------------------- MODULE Ledger -------------------------------
(***************************************************************************)
(* The LedgerWorker of bee-ledger: balances of type u64 that diffs of type *)
(* i64 change, events in a channel, answers over oneshots.                 *)
(***************************************************************************)
EXTENDS Integers, Sequences, FiniteSets

CONSTANTS Address, Diffs, States,
          Accounts,    \* the addresses in some order, each of them once
          Half,        \* 2^63: an i64 is at least -Half and below Half, a u64 below 2 * Half
          MaxEvents    \* bound: events sent

Entries(values) == UNION {[known -> values] : known \in SUBSET Address}
Signeds == (-Half)..(Half - 1)
Unsigneds == 0..(2 * Half - 1)

ASSUME LedgerAssumption ==
  /\ Half \in Nat \ {0}
  /\ Diffs \subseteq Entries(Signeds)
  /\ States \subseteq Entries(Unsigneds)
  /\ Accounts \in Seq(Address)
  /\ \A a \in Address : Cardinality({i \in DOMAIN Accounts : Accounts[i] = a}) = 1

VARIABLES overflowChecks,  \* the build panics on overflow, or wraps
          state,           \* address -> u64
          receiver,        \* the channel
          opening,         \* history: the balances at the start
          handled,         \* history: the events taken from it
          answers,         \* what the GetBalance events were answered
          ledger           \* "running", "stopped" or "panicked"

ledgerVars == <<overflowChecks, state, receiver, opening, handled, answers, ledger>>

None == -1

AsSigned(u) == IF u >= Half THEN u - 2 * Half ELSE u
AsUnsigned(v) == v % (2 * Half)
Overflows(v) == v \notin Signeds

ApplyDiff(diff) == [type |-> "ApplyDiff", diff |-> diff]
GetBalance(address) == [type |-> "GetBalance", address |-> address]
Events == {ApplyDiff(d) : d \in Diffs} \union {GetBalance(a) : a \in Address}

LedgerInit ==
  /\ overflowChecks \in BOOLEAN
  /\ state \in States
  /\ opening = state
  /\ receiver = << >>
  /\ handled = << >>
  /\ answers = << >>
  /\ ledger = "running"

-----------------------------------------------------------------------------
(* A mutant: the balance is checked after it was made unsigned again.      *)
unsigned_check(known, balance, value) ==
  IF known THEN AsUnsigned(AsSigned(balance) + value) ELSE AsUnsigned(value)

(* One round of apply_diff.  The entry of an unknown address is the change *)
(* itself, made unsigned; a change that would leave less than nothing is   *)
(* ignored, the others of its diff are not.                                *)
apply_change(known, balance, value) ==
  LET sum == AsSigned(AsUnsigned(AsSigned(balance) + value))
  IN  IF ~known THEN AsUnsigned(value)
      ELSE IF sum >= 0 THEN AsUnsigned(sum) ELSE balance

(* The HashMap is visited in any order; each address is there once.        *)
apply_diff(diff) ==
  /\ state' = [a \in DOMAIN state \union DOMAIN diff |->
                 IF a \notin DOMAIN diff THEN state[a]
                 ELSE IF a \in DOMAIN state THEN apply_change(TRUE, state[a], diff[a])
                 ELSE apply_change(FALSE, 0, diff[a])]
  /\ UNCHANGED answers

(* The task is gone then, and its balances with it.                        *)
diff_panics(diff) ==
  overflowChecks /\ \E a \in DOMAIN diff \intersect DOMAIN state : Overflows(AsSigned(state[a]) + diff[a])

get_balance(address) ==
  /\ answers' = Append(answers, IF address \in DOMAIN state THEN state[address] ELSE None)
  /\ UNCHANGED state

SendEvent(event) ==
  /\ ledger = "running"
  /\ Len(handled) + Len(receiver) < MaxEvents
  /\ receiver' = Append(receiver, event)
  /\ UNCHANGED <<overflowChecks, state, opening, handled, answers, ledger>>

HandleEvent ==
  LET event == Head(receiver)
  IN  /\ ledger = "running"
      /\ receiver # << >>
      /\ receiver' = Tail(receiver)
      /\ UNCHANGED <<overflowChecks, opening>>
      /\ \/ /\ event.type = "ApplyDiff"
            /\ ~diff_panics(event.diff)
            /\ apply_diff(event.diff)
            /\ handled' = Append(handled, event)
            /\ UNCHANGED ledger
         \/ /\ event.type = "ApplyDiff"
            /\ diff_panics(event.diff)
            /\ ledger' = "panicked"
            /\ UNCHANGED <<state, handled, answers>>
         \/ /\ event.type = "GetBalance"
            /\ get_balance(event.address)
            /\ handled' = Append(handled, event)
            /\ UNCHANGED ledger

(* The shutdown branch of the select!: what is in the channel is dropped.  *)
StopLedger ==
  /\ ledger = "running"
  /\ ledger' = "stopped"
  /\ UNCHANGED <<overflowChecks, state, receiver, opening, handled, answers>>

LedgerNext == (\E event \in Events : SendEvent(event)) \/ HandleEvent \/ StopLedger

LedgerSpec == LedgerInit /\ [][LedgerNext]_ledgerVars

-----------------------------------------------------------------------------
(* What the ledger means, in whole numbers: the first change of an unknown *)
(* address is its balance even if it is negative; a later one that leaves  *)
(* a debt, or more than an i64, is ignored.  Only a debt below the least   *)
(* i64 wraps, to a positive balance.                                       *)
Signed(s) == [a \in DOMAIN s |-> AsSigned(s[a])]
Changed(balance, value) ==
  LET sum == balance + value
  IN  IF sum \in 0..(Half - 1) THEN sum
      ELSE IF sum < -Half THEN sum + 2 * Half ELSE balance
Meaning(s, diff) ==
  [a \in DOMAIN s \union DOMAIN diff |->
     IF a \notin DOMAIN diff THEN s[a]
     ELSE IF a \notin DOMAIN s THEN diff[a] ELSE Changed(s[a], diff[a])]
Ignores(s, diff) == \E a \in DOMAIN diff \intersect DOMAIN s : Meaning(s, diff)[a] # s[a] + diff[a]
Taken(s, event) == IF event.type = "ApplyDiff" THEN Meaning(s, event.diff) ELSE s

(* The balances after the first n events.                                  *)
After(start, events) ==
  LET after[n \in 0..Len(events)] == IF n = 0 THEN Signed(start) ELSE Taken(after[n - 1], events[n])
  IN  after

Balance(s, a) == IF a \in DOMAIN s THEN s[a] ELSE 0
SumUpTo(s) ==
  LET sum[n \in 0..Len(Accounts)] == IF n = 0 THEN 0 ELSE sum[n - 1] + Balance(s, Accounts[n])
  IN  sum
Total(s) == SumUpTo(s)[Len(Accounts)]

Asked(events) == {n \in DOMAIN events : events[n].type = "GetBalance"}
Answer(s, address) == IF address \in DOMAIN s THEN AsUnsigned(s[address]) ELSE None
MovesFunds(s, event) ==
  event.type = "ApplyDiff" => Total(event.diff) = 0 /\ ~Ignores(s, event.diff)

Follows(start) ==
  LET after == After(start, handled)
      asked == Asked(handled)
  IN  /\ Signed(state) = after[Len(handled)]
      /\ Len(answers) = Cardinality(asked)
      /\ \A n \in asked :
           answers[Cardinality({m \in asked : m <= n})] = Answer(after[n], handled[n].address)
      /\ (\A n \in DOMAIN handled : MovesFunds(after[n - 1], handled[n]))
           => Total(Signed(state)) = Total(Signed(start))

(* The events handled lead from the opening balances to the ones held;     *)
(* every answer is the balance after exactly the diffs sent before the     *)
(* question; and diffs that move funds keep the total unless a part of one *)
(* is ignored (LedgerWorker::apply_diff, get_balance, run).                *)
LedgerFollowsDiffs == Follows(opening)

(* The inductive form adds the types.                                      *)
LedgerInv ==
  /\ overflowChecks \in BOOLEAN
  /\ state \in Entries(Unsigneds) /\ opening \in States
  /\ receiver \in Seq(Events) /\ handled \in Seq(Events)
  /\ answers \in Seq(Unsigneds \union {None})
  /\ LedgerFollowsDiffs
=============================================================================
