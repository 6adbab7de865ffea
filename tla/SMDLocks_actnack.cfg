CONSTANTS
    Banks <- MCBanks
    Rows <- MCRows
    Policies <- MCAllPolicies
    NumSAs = 2
    Mode = "ACT_NACK"
    VariableRefresh = TRUE
    ScrubLockBank = TRUE
    RefInterval = 4
    ScrubInterval = 3
    RefLatency = 2
    ScrubLatency = 2
    RHLatency = 1
    Timeout = 2
    PendingLimit = 2
    RHQueueSize = 2
SPECIFICATION Spec
INVARIANT TypeOK
 
PROPERTY MaintLockSpec
CHECK_DEADLOCK FALSE
