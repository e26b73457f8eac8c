SPECIFICATION Spec
CONSTANTS
    Names = {left, right}
    None = None
    Torn = Torn
    MaxFailures = 2
    MaxOps = 2
    MaxBoots = 2
    MaxGen = 2
CHECK_DEADLOCK FALSE
INVARIANTS RenameHolds InterruptedIsDecided
