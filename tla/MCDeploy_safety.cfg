CONSTANTS
    r1 = r1
    r2 = r2
    Other = Other
    Run <- TwoRuns
    Combined <- OneCombined
    MaxFaults = 1
SPECIFICATION FairSpec
CHECK_DEADLOCK FALSE
INVARIANTS
    NeverPartial
    CompletedIsDelivered
PROPERTIES
    NeverClobbers
    RunEnds
