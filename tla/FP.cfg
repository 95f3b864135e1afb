SPECIFICATION FairSpec
CONSTANTS
    NumCampaigns = 2
    Strategies <- BothStrategies
    Modes <- BothModes
    Buyers <- AllBuyers
    Prices <- TwoPrices
    Faults = TRUE
    Epsilon = 1
INVARIANTS
    SoldAtHighestPrice
    AnswersOfSalesAreStored
    SaleIsRecorded
PROPERTY
    RequestSettles
CHECK_DEADLOCK FALSE
