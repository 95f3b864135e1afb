SPECIFICATION Spec
CONSTANTS
    r1 = r1
    r2 = r2
    r3 = r3
    Posts <- TwoPosts
    Modes <- Sync
    Patient = TRUE
    Faults = FALSE
INVARIANT PostUsesWinningBid
CHECK_DEADLOCK FALSE
