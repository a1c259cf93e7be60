------------------------------ MODULE MCHandle ------------------------------
(* Small instances of the Go interface on the cached store for TLC. *)
EXTENDS Handle, TLC

(* The actions treat all goroutines alike. *)
Symmetry == Permutations(Threads)
=============================================================================
