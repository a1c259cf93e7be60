---------------------------- MODULE MCDataFiles -----------------------------
(* Small instances of the data files for TLC. *)
EXTENDS DataFiles, TLC

(* Nothing depends on which thread it is. *)
Symmetry == Permutations(Threads)
=============================================================================
