CONSTANTS
    Rows <- MCRows
    MAC = 6
    ActsPerWindow = 15
SPECIFICATION Spec
INVARIANT BelowMAC
