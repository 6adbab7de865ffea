CONSTANTS
    Chips <- MCChips
    Banks <- MCBanks
    Rows <- MCRows
    NumSAs = 2
    NumMachines = 1
    RefInterval = 4
    Timeout = 2
    MaintLatency = 2
    ReadLatency = 2
    PendingLimit = 3
    MaxRowOpenIntervals = 2
    RowPolicy = "timeout"
    RowTimeout = 3
    WorstCase = FALSE
    QueueMax = 2
    MaxReqs = 2
SPECIFICATION Spec
INVARIANT NoActOverLock
