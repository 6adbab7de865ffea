CONSTANTS
    NumSAs = 2
    NumRows = 4
    Granularity = 2
    BankId = 1
    BFSize = 2
    NumHashes = 1
    QBits = 7
SPECIFICATION Spec
INVARIANT TypeOK
INVARIANT RetentionKept
