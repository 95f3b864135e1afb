SPECIFICATION FairSpec
CONSTANTS
    r1 = r1
    r2 = r2
    r3 = r3
    Posts <- ThreePosts
    Modes <- AnyMode
    Patient = TRUE
    Faults = TRUE
INVARIANTS
    AtMostOneSale
    SaleIsKept
    SaleGoesToWinner
    TokenIsTemporary
    PromiseStaysValid
PROPERTIES
    RefusalReopens
CHECK_DEADLOCK FALSE
