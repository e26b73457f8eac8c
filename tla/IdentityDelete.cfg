CONSTANTS
    f1 = f1
    f2 = f2
    Ids <- MCIds
    None = None
    Absent = Absent
    Torn = Torn
    MaxFailures = 4
    MaxOps = 2
SPECIFICATION FairSpec
CHECK_DEADLOCK FALSE
INVARIANTS ReportsHold ArchiveOwned
PROPERTIES RecoverySteps EarlyRecoveryCompletes
