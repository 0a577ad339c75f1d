CONSTANTS
    r1 = r1
    r2 = r2
    c1 = c1
    c2 = c2
    Original = Original
    Run <- TwoRuns
    Container <- OneContainer
    FaultKinds <- AllFaults
    MaxFaults = 1
SPECIFICATION FairSpec
CHECK_DEADLOCK FALSE
PROPERTIES
    CancelPreventsCutover
    BothSidesEnd
