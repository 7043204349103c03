SPECIFICATION Spec
CONSTANTS
    NThreads = 2
    NumFiles = 1
    Inputs <- OneFile
    Organizations <- Fixed
    Slot = 2
    MemoryFills = TRUE
    MayMiss = FALSE
INVARIANTS
    WritesAll
