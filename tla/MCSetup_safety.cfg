SPECIFICATION Spec
CONSTANTS
    None = None
    Old = Old
    Cli = Cli
    Op = {o1, o2}
    MaxFaults = 2
SYMMETRY Symmetry
CHECK_DEADLOCK FALSE
INVARIANTS
    StoresAgree
    PlansResolve
    NoOrphanIdentity
PROPERTIES
    NothingReplaced
