CONSTANTS
    r1 = r1
    r2 = r2
    c1 = c1
    c2 = c2
    Original = Original
    Run <- TwoRuns
    Container <- TwoContainers
    FaultKinds <- Unsignalled
    MaxFaults = 2
SPECIFICATION Spec
SYMMETRY Symmetry
CHECK_DEADLOCK FALSE
INVARIANTS
    NothingLost
PROPERTIES
    CompletedIsTrue
    RolledBackIsTrue
    FailureUndone
