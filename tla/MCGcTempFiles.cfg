SPECIFICATION Spec
CONSTANTS
    Keys <- MCKeys
    Handles = 3
    MaxRecords = 5
    MaxSegment = 2
    CacheSize = 2
    FixedLength = TRUE
    IOErrors = FALSE
INVARIANTS
    TypeOK
    ExactlyOnce
    StableWithoutReuse
PROPERTIES
    ImplementsSort
