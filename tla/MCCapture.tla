------------------------------ MODULE MCCapture ------------------------------
(* Instances of Capture for TLC: two runs of two processes. *)
EXTENDS Capture, TLC

CONSTANTS r1, r2

TwoRuns == {r1, r2}
Symmetry == Permutations(TwoRuns)
==============================================================================
