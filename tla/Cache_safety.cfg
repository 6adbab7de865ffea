CONSTANTS
    c1 = c1
    c2 = c2
    a1 = a1
    a2 = a2
    a3 = a3
    Cores <- MCCores
    Addrs <- MCAddrs
    L1Assoc = 1
    LLCAssoc = 2
    L1Mshr = 1
    LLCMshr = 2
    MaxInflight = 2
SPECIFICATION FairSpec
INVARIANT TypeOK
INVARIANT NoAbort
INVARIANT Inclusion
PROPERTY MissesComplete
PROPERTY NoLostWrite
