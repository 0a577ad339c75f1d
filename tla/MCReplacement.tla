---------------------------- MODULE MCReplacement ----------------------------
(* Instances of Replacement for TLC. *)
EXTENDS Replacement, TLC

CONSTANTS r1, r2, c1, c2

OneRun == {r1}
TwoRuns == {r1, r2}
OneContainer == {c1}
TwoContainers == {c1, c2}

\* Every fault but a signal.
Unsignalled == AllFaults \ {"signal"}

Symmetry == Permutations(TwoRuns)
==============================================================================
