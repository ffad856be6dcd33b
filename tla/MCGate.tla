------------------------------- MODULE MCGate -------------------------------
(* Instances of Gate for TLC: two clients behind one address. *)
EXTENDS Gate, TLC

CONSTANT i1

MCIpOf == [c \in Clients |-> i1]

Symmetry == Permutations(Workers) \cup Permutations(Tokens) \cup Permutations(Clients)
=============================================================================
