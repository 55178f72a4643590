------------------------------- MODULE MCSync -------------------------------
(* Instances of Sync over one solid entry point g.  For safety milestone 2 *)
(* is the bundle m, n, whose tail also approves a, and a is a rival: it    *)
(* too has n as trunk and carries the bundle field of the milestone.  For  *)
(* liveness the milestone is the one transaction m, which approves a.      *)
EXTENDS Sync, TLC

CONSTANTS g, a, m, n

MCHash == {g, a, m, n}
MCSEP == {g}
MCTrunk == g :> g @@ a :> n @@ m :> n @@ n :> g
MCBranch == g :> g @@ a :> g @@ m :> a @@ n :> g
MCBundleField == g :> g @@ a :> m @@ m :> m @@ n :> m
MCIsTail == [h \in MCHash |-> h = m]
MCWatched == {a, m, n}
MCIndex == {2}
MCMsBundle == 2 :> <<m, n>>

MCLiveHash == {g, a, m}
MCLiveTrunk == g :> g @@ a :> g @@ m :> g
MCLiveBranch == g :> g @@ a :> g @@ m :> a
MCLiveBundleField == g :> g @@ a :> a @@ m :> m
MCLiveIsTail == [h \in MCLiveHash |-> h # g]
MCLiveWatched == {a, m}
MCLiveMsBundle == 2 :> <<m>>
=============================================================================
