CONSTANTS
    Chips <- MCChips
    NumSAs = 3
    QMax = 3
    Threshold = 2
    ActToNack = 1
    NRCD = 2
    NRAS = 3
    NRP = 1
    NackResend = 2
    MaintLatency = 2
    RefInterval = 4
    PendingLimit = 2
    MaxQueued = 4
SPECIFICATION Spec
INVARIANTS
    TypeOK
    ReadsHitOpenRows
    NoLockedOpen
CHECK_DEADLOCK FALSE
