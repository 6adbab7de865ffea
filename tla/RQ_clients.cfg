CONSTANTS
    NumRanks = 1
    NumBankGroups = 1
    NumBanks = 2
    NumSAs = 1
    RowsPerSA = 2
    NumCols = 2
    NREFI = 2
    ScrubbingPeriod = 12
    QSize = 2
    RBFSize = 2
    RNumHashes = 1
    QBits = 5
SPECIFICATION Spec
CHECK_DEADLOCK FALSE
INVARIANTS
    TypeOK
    RaidrRetention
