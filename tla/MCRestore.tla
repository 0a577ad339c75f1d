----------------------------- MODULE MCRestore -----------------------------
(* Instances of Restore for TLC. *)
EXTENDS Restore, TLC

Symmetry == Permutations(Op) \cup Permutations(Run)
=============================================================================
