------------------------------ MODULE MCPeering ------------------------------
(* Two endpoint ids p and q of one peer: dialled by us, and by it.         *)
EXTENDS Peering

MCAddr == [e \in Ep |-> "addr"]
==============================================================================
