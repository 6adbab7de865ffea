SPECIFICATION Spec
CONSTANTS
    b1 = b1
    b2 = b2
    Banks <- MCBanks
    Rows <- MCRows
    RQMax = 2
    WQMax = 2
    NRCD = 3
    NRP = 1
    NRAS = 3
    NRTP = 1
    NWRP = 2
    NCCD = 1
    NRTW = 2
    NWTR = 3
    NRRD = 1
    MaxArrivals = 4
INVARIANTS
    ReadAfterWrite
CHECK_DEADLOCK FALSE
