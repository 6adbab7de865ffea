CONSTANTS
    Rows <- MCRows
    BankId = 1
    BFSize = 2
    NumHashes = 1
    MAC = 2
    Epoch = 4
    Limit = 2
    QBits = 5
SPECIFICATION Spec
INVARIANTS
    TypeOK
    
