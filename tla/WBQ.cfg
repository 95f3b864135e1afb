SPECIFICATION FairSpec
CONSTANTS
    Kinds <- ThreeKinds
    BatchSize = 2
    MaxAttempts = 2
    MaxTasks = 4
INVARIANTS
    PipelineOrder
    Accounted
    KindOrder
    FlushOkWroteAPrefix
PROPERTIES
    ReceivedIsWritten
    Delivers
    EventuallyApplied
    ShutdownStopsBatcher
CHECK_DEADLOCK FALSE
