---------------------------- MODULE MCContiguity ----------------------------
(* Small instances of the contiguity floor for TLC. *)
EXTENDS Contiguity, TLC

(* The actions treat all writers alike. *)
Symmetry == Permutations(Writers)
=============================================================================
