SPECIFICATION FairSpec
CONSTANTS
    Keys <- MCKeys
    Handles = 3
    MaxRecords = 5
    MaxSegment = 2
    CacheSize = 1
    FixedLength = FALSE
    IOErrors = TRUE
INVARIANTS
    NeverTwice
    OutputSorted
    FilesSorted
    CountTellsEmpty
    EverySourceSearched
    RingInv
PROPERTIES
    NeverOverwrites
    Terminates
