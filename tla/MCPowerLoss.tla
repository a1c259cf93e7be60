---------------------------- MODULE MCPowerLoss -----------------------------
(* Small instances of the store under losses of power for TLC. *)
EXTENDS PowerLoss, TLC

(* Nothing depends on which writer, or which block, it is. *)
Symmetry == Permutations(Writers) \union Permutations(Blocks)
=============================================================================
