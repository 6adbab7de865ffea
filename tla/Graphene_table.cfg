CONSTANTS
    RowsPerSA = 3
    NumEntries = 2
    Threshold = 3
    ResetPeriod = 9
SPECIFICATION Spec
INVARIANT TypeOK
INVARIANT SpilloverIsMinimum
