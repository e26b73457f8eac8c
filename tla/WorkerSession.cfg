SPECIFICATION LiveSession
CONSTANTS
    o1 = o1
    o2 = o2
    w1 = w1
    w2 = w2
    Requests = {o1, o2}
    Waiters = {w1, w2}
    NoOne = NoOne
    MaxChanges = 2
CONSTRAINT Bounds
CHECK_DEADLOCK FALSE
INVARIANTS DispatchWitnessed SessionSound
PROPERTY StopEnds
