------------------------------ MODULE MCVoting ------------------------------
(* Instances of Voting for TLC. *)
EXTENDS Voting, TLC

Symmetry ==
  Permutations(Workers) \cup Permutations(Recruiters) \cup Permutations(Attributes)

DataSymmetry ==
  Permutations(Recruiters) \cup Permutations(Candidates) \cup Permutations(Attributes)
=============================================================================
