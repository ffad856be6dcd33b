----------------------------- MODULE MCCredits -----------------------------
(* Instances of Credits for TLC: every checkout buys one credit. *)
EXTENDS Credits, TLC

MCQuantity == [c \in Checkouts |-> 1]

Symmetry == Permutations(Workers)
=============================================================================
