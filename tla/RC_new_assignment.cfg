SPECIFICATION Spec
CONSTANTS
    i1 = i1
    i2 = i2
    t1 = t1
    t2 = t2
    c1 = c1
    Instances <- OneInstance
    Trees <- OneTree
    Campaigns <- OneCampaign
    Admins <- OneAdmin
    Tokens = {FALSE}
    L1Ttl = 2
    MaxFaults = 1
    PrecheckTtl = 1
    TreeTtl = 2
    AssocTtl = 1
    MaxTime = 3
    MaxEdits = 2
    MaxRounds = 3
PROPERTY NextRequestSeesAssignment
CHECK_DEADLOCK FALSE
