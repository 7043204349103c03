SPECIFICATION Spec
CONSTANTS
    Lengths <- Filled
    NumFiles = 2
    SkipRecs <- DoNothing
    StopAfts <- DoNothing
    Omits <- LeftOut
    Exits <- OnlyOn
    Keyeds <- OnlyOff
    Answers <- DoNothing
    LastAnswers <- DoNothing
    MemoryFills <- OnlyOff
    IOErrors = FALSE
    MaxLoaded = 12
INVARIANTS
    FlagTellsLastPassed
