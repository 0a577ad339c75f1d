SPECIFICATION Spec
CONSTANTS
    None = None
    p1 = p1
    p2 = p2
    BackupCount = 3
    Proc <- TwoProcs
    Backup <- MCBackup
    Policy <- TwoPolicies
    MaxFaults = 2
    ReopenOnError = FALSE
SYMMETRY ProcSymmetry
INVARIANTS
    KeptIntact
    NoOrphans
    CompletedIsTrue
    MinimumPreserved
PROPERTIES
    AtomicSpec
