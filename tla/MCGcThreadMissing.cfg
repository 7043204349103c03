SPECIFICATION FairSpec
CONSTANTS
    NThreads = 2
    NumFiles = 1
    Inputs <- OneFile
    Organizations <- Fixed
    Slot = 2
    MemoryFills = TRUE
    MayMiss = TRUE
PROPERTIES
    Returns
CHECK_DEADLOCK FALSE
