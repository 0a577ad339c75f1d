------------------------------ MODULE MCDeploy ------------------------------
(* Instances of Deploy for TLC. *)
EXTENDS Deploy

CONSTANTS r1, r2

TwoRuns == {r1, r2}
OneCombined == {r2}
=============================================================================
