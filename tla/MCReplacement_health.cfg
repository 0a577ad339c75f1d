CONSTANTS
    r1 = r1
    r2 = r2
    c1 = c1
    c2 = c2
    Original = Original
    Run <- OneRun
    Container <- OneContainer
    FaultKinds <- Unsignalled
    MaxFaults = 1
SPECIFICATION Spec
PROPERTIES
    HealthDecides
CHECK_DEADLOCK FALSE
