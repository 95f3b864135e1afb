SPECIFICATION FairSpec
CONSTANTS
    Campaigns <- ThreeCampaigns
    Internal <- OneInternal
    Permits = 1
    Priorities <- TwoPriorities
    Bids <- ThreeBids
    Epsilon = 2
INVARIANTS
    WinnerBidIsHighest
    PriorityBreaksTies
    EveryAnswerIsStored
    OutcomeIsExact
PROPERTY
    AuctionEnds
CHECK_DEADLOCK FALSE
