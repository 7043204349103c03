SPECIFICATION FairSpec
CONSTANTS
    NThreads = 3
    NumFiles = 2
    Inputs <- TwoFiles
    Organizations <- AnyOrganization
    Slot = 3
    MemoryFills = TRUE
    MayMiss = TRUE
INVARIANTS
    ShareInv
    WritesAllIfAlike
    NoPartialOutput
PROPERTIES
    ReturnsIfFound
\* a missing file stops every thread: see MCGcThreadMissing.cfg
CHECK_DEADLOCK FALSE
