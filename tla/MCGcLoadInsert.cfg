SPECIFICATION FairSpec
CONSTANTS
    Lengths <- Filled
    NumFiles = 1
    SkipRecs <- DoNothing
    StopAfts <- DoNothing
    Omits <- LeftOut
    Exits <- OnlyOn
    Keyeds <- OnlyOff
    Answers <- DoNothing
    LastAnswers <- AnyAnswer
    MemoryFills <- OnlyOff
    IOErrors = FALSE
    MaxLoaded = 12
PROPERTIES
    Terminates
