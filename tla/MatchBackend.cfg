SPECIFICATION Spec
CONSTANTS
    None = None
    Procs = {p1, p2}
    MaxChanges = 3
    MaxCalls = 2
    MaxStops = 1
    MaxDeaths = 1
    MaxOthers = 1
SYMMETRY Alike
ACTION_CONSTRAINT FirstWarm
CHECK_DEADLOCK FALSE
INVARIANTS SleepSound NoStaleRequest HandoverHolds
