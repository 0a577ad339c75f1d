\* Failing file and credential calls, but every removal, revocation and
\* directory sync succeeds and no process dies.
CONSTANTS
    r1 = r1
    r2 = r2
    None = None
    Run <- TwoRuns
    FaultKinds = {"io"}
    MaxFaults = 2
SPECIFICATION Spec
SYMMETRY Symmetry
CHECK_DEADLOCK FALSE
INVARIANTS
    FailedLeavesNothing
