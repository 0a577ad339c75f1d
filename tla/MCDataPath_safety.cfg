CONSTANTS
    c = c
    d = d
    Container <- TwoContainers
    Inventories <- MCInventories
    Limit = 1
    MaxItems = 2
    MaxRoots = 2
    Odd = {3}
    Lossy <- Replaced
    BadName <- NotUtf8
    Boundary <- OtherFileSystems
    MaxEntries = 4
    MaxFile = 1
    MaxExpanded = 6
    MaxIndex = 3
    Place <- Places
    Servers <- MCServers
    MountPath <- Mounts
    DbName = 2
    EntryLimit = 2
    MaxChanges = 1
    MaxDamage = 2
SPECIFICATION Spec
CHECK_DEADLOCK FALSE
INVARIANTS
    PlanSafe
    PagesAreOneListing
    EnvelopeSound
    RestoredIsSelected
    CapturedIsRestorable
