SPECIFICATION FairSpec
CONSTANTS
    None = None
    p1 = p1
    p2 = p2
    BackupCount = 3
    Proc <- OneProc
    Backup <- MCBackup
    Policy <- TwoPolicies
    MaxFaults = 2
    ReopenOnError = TRUE
PROPERTIES
    RecoveryFinishes
