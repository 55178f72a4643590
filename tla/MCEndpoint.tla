----------------------------- MODULE MCEndpoint -----------------------------
(* Instances of Endpoint with one contact p and one inbound endpoint q of  *)
(* the same IP address, as of a peer that is connected both ways.          *)
EXTENDS Endpoint, TLC

MCIp == [e \in Ep |-> "ip"]

Symmetry == Permutations(Conn)
=============================================================================
