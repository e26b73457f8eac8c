SPECIFICATION InventorySpec
CONSTANTS
    Order <- Hands
    left = left
    middle = middle
    right = right
    None = None
    Torn = Torn
    MaxFailures = 3
    MaxBoots = 3
    MaxGen = 2
    MaxOps = 3
CHECK_DEADLOCK FALSE
INVARIANTS ArchiveHolds PurgeHolds
PROPERTY ChangesSound
