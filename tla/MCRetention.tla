----------------------------- MODULE MCRetention -----------------------------
(* Small instances of Retention for TLC. *)
EXTENDS Retention, TLC

CONSTANTS p1, p2, BackupCount

MCBackup == 1..BackupCount
OneProc == {p1}
TwoProcs == {p1, p2}
TwoPolicies == {[max |-> 1, min |-> 0], [max |-> 2, min |-> 1]}

\* The two processes are interchangeable.
ProcSymmetry == Permutations(TwoProcs)

=============================================================================
