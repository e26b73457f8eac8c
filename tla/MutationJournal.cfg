CONSTANTS
    p1 = p1
    p2 = p2
    Procs <- MCProcs
    NoProc = NoProc
    MaxRecords = 4
SPECIFICATION FairSpec
INVARIANTS HistorySound RecordsHold
PROPERTY RepairCompletes
