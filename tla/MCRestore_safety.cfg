SPECIFICATION Spec
CONSTANTS
    None = None
    Old = Old
    Op = {o1, o2}
    Run = {r1, r2}
    HasDatabase = TRUE
    MaxFaults = 2
SYMMETRY Symmetry
CHECK_DEADLOCK FALSE
INVARIANTS
    RestoreSafe
    NoPlaintextLeft
PROPERTIES
    RecoveryStaysUsable
    ImportMakesReady
    NeverReplaces
