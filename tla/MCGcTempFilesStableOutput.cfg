SPECIFICATION Spec
CONSTANTS
    Keys <- MCKeys
    Handles = 2
    MaxRecords = 3
    MaxSegment = 1
    CacheSize = 2
    FixedLength = TRUE
    IOErrors = FALSE
INVARIANT
    StableOutput
