SPECIFICATION RecoverySpec
CONSTANTS
    Ids = {f1, f2}
    MaxBoots = 4
    MaxRecoveries = 2
    MaxRecords = 3
    Foreign = FALSE
CHECK_DEADLOCK FALSE
INVARIANTS RecoveryHistorySound SavedStateHolds
PROPERTIES LossConsented LoadsSound
