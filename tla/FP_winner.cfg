SPECIFICATION Spec
CONSTANTS
    NumCampaigns = 2
    Strategies <- Direct
    Modes <- SyncMode
    Buyers <- InternalBuyers
    Prices <- TwoPrices
    Faults = FALSE
    Epsilon = 1
INVARIANT
    SoldToTheBidder
CHECK_DEADLOCK FALSE
