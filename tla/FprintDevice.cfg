CONSTANTS
    s1 = s1
    s2 = s2
    c1 = c1
    c2 = c2
    c3 = c3
    Senders <- TwoSenders
    Calls <- ThreeCalls
    None = None
    DeletionEnabled = TRUE
    Suspends = TRUE
SPECIFICATION LiveSpec
CONSTRAINT OneClientEnrolls
CHECK_DEADLOCK FALSE
INVARIANT ClaimSound
PROPERTIES ClaimRespected DeadOwnerReaped
