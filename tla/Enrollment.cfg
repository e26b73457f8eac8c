CONSTANTS
    f1 = f1
    f2 = f2
    Ids <- MCIds
    Unset = Unset
    Absent = Absent
    Torn = Torn
    EventLimit = 2
    MaxFailures = 3
    MaxOps = 2
SPECIFICATION EnrollFairSpec
CHECK_DEADLOCK FALSE
INVARIANT OutcomesHold
PROPERTIES FingerOwned TerminalUnknownRecovers PublicationCompletes
