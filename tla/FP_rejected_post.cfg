SPECIFICATION Spec
CONSTANTS
    NumCampaigns = 1
    Strategies <- PingPost
    Modes <- SyncMode
    Buyers <- ExternalBuyers
    Prices <- TwoPrices
    Faults = FALSE
    Epsilon = 1
INVARIANT
    OnlyAcceptedIsSold
CHECK_DEADLOCK FALSE
