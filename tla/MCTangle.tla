------------------------------ MODULE MCTangle ------------------------------
(* Instances of Tangle over one solid entry point g.  a approves g twice,  *)
(* b approves g and a, c approves b and a: both forms of                   *)
(* insert_transaction, and a vertex that is reached along two paths.       *)
EXTENDS Tangle, TLC

CONSTANTS g, a, b, c

MCHash == {g, a, b, c}
MCSEP == {g}
MCTrunk == g :> g @@ a :> g @@ b :> g @@ c :> b
MCBranch == g :> g @@ a :> g @@ b :> a @@ c :> a

\* Every transaction, the entry point too, arrives once.
Once == [h \in MCHash |-> 1]

\* Every transaction but the entry point arrives up to twice.
Again == [h \in MCHash |-> IF h = g THEN 0 ELSE 2]

Symmetry == Permutations(Writers)
=============================================================================
