SPECIFICATION FairSpec
CONSTANTS
    Lengths <- Sizes
    NumFiles = 2
    SkipRecs <- UpToTwo
    StopAfts <- UpToTwo
    Omits <- LeftOut
    Exits = {TRUE, FALSE}
    Keyeds = {TRUE, FALSE}
    Answers <- AnyAnswer
    LastAnswers <- AnyAnswer
    MemoryFills <- OnlyOff
    IOErrors = TRUE
    MaxLoaded = 12
CONSTRAINT Sized
INVARIANTS
    LoadInv
    LoadsInOrder
    LoadsAll
    ExitKeepsOrder
    FlagTellsFileEnd
PROPERTIES
    ExitTerminates
