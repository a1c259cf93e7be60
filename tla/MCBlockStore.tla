---------------------------- MODULE MCBlockStore ----------------------------
(* Small instances of the store for TLC. *)
EXTENDS BlockStore, TLC

(* Nothing depends on which writer, or which block of a size, it is. *)
Symmetry == Permutations(Writers) \union Permutations(Ids)
=============================================================================
