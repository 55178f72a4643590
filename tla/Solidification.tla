--------------------------- MODULE Solidification ---------------------------
(***************************************************************************)
(* What the tangle promises about solidity, without its maps, channel and  *)
(* threads: transactions arrive in any order, a transaction becomes solid  *)
(* in one step once both its parents are, stays solid, and does so         *)
(* eventually.                                                             *)
(***************************************************************************)
CONSTANTS Hash, SEP, Trunk, Branch

VARIABLES
    known,   \* transactions that have arrived
    solid    \* those that are solid

vars == <<known, solid>>

Init == known = {} /\ solid = {}

Arrive(h) ==
    /\ known' = known \union {h}
    /\ UNCHANGED solid

Solidify(h) ==
    /\ h \in known
    /\ Trunk[h] \in solid \union SEP
    /\ Branch[h] \in solid \union SEP
    /\ solid' = solid \union {h}
    /\ UNCHANGED known

Next == \E h \in Hash : Arrive(h) \/ Solidify(h)

Spec == Init /\ [][Next]_vars /\ \A h \in Hash : WF_vars(Solidify(h))

=============================================================================
