--------------------------- MODULE MCContactRelay ---------------------------
(* Instances of ContactRelay for TLC. *)
EXTENDS ContactRelay
=============================================================================
