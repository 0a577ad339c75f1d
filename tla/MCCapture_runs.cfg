\* Fair runs under every fault, crashes included.
CONSTANTS
    r1 = r1
    r2 = r2
    None = None
    Run <- TwoRuns
    FaultKinds <- AllFaults
    MaxFaults = 1
SPECIFICATION FairSpec
CHECK_DEADLOCK FALSE
INVARIANTS
    StagingOwned
    SealedRecordTrue
PROPERTIES
    AtomicSpec
    CancelStops
    EveryRunEnds
