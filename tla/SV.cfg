SPECIFICATION ServerSpec
CONSTANTS
    s1 = s1
    s2 = s2
    Slots <- TwoSlots
    Workloads <- AllWorkloads
    MaxPasskeys = 1
    CodesPerBatch = 2
    MaxLinks = 3
    MaxSecrets = 2
    MaxBatches = 2
    MaxChallenges = 3
    MaxStored = 3
    Buyers = {1, 2, 3}
    TheBuyer = 1
    Names = {"n1", "n2"}
    RuleSets = {"r1", "r2"}
    Disused = {"r1"}
    Earlier <- Strict
    Inputs <- SomeInputs
    Leads <- SomeLeads
    MaxSaves = 2
    MaxLists = 2
    Instances = {1}
    L1Ttl = 1
    MaxFaults = 1
    Publishers = {1, 2}
    ThePublisher = 1
    Emails = {"a"}
    KeyTtl = 2
    RuleTtl = 2
    MaxKeys = 2
    MaxTime = 3
    Queued <- TwoSlots
    Failed = {3}
    MaxIds = 2
    Plans <- SomePlans
    MaxTries = 2
    MaxFailures = 1
SYMMETRY Symmetry
INVARIANTS
    ResetLinksAreSound
    EnabledSecretIsProven
    BackupCodesAreExact
    PasskeyLimit
    OneActiveRuleSet
    MissingZipsFailed
    RulesAreRecent
    KeyDecisionsAreRecent
    TasksReachTheirLead
CHECK_DEADLOCK FALSE
