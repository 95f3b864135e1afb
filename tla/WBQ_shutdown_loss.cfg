SPECIFICATION Spec
CONSTANTS
    Kinds <- TwoKinds
    BatchSize = 2
    MaxAttempts = 3
    MaxTasks = 2
INVARIANT NoDataLossOnShutdown
CHECK_DEADLOCK FALSE
