CONSTANTS
    Chips <- MCChips
    Banks <- MCTwoBanks
    Rows <- MCRows
    NumSAs = 2
    NumMachines = 1
    RefInterval = 4
    Timeout = 2
    MaintLatency = 2
    ReadLatency = 2
    PendingLimit = 2
    MaxRowOpenIntervals = 2
    RowPolicy = "timeout"
    RowTimeout = 3
    WorstCase = TRUE
    QueueMax = 1
    MaxReqs = 1
SPECIFICATION Spec
INVARIANT TypeOK
INVARIANT UnreportedLockOnlyNearTimeout
INVARIANT CommunicateAfterCooldown
CHECK_DEADLOCK FALSE
