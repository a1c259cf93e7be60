----------------------------- MODULE MCTransfer -----------------------------
(* Small instances of the directories and the tool for TLC. *)
EXTENDS Transfer

(* Nothing depends on which directory, or which block, it is. *)
Symmetry == Permutations(Dirs) \union Permutations(Blocks)
=============================================================================
