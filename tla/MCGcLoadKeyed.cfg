SPECIFICATION Spec
CONSTANTS
    Lengths <- Filled
    NumFiles = 1
    SkipRecs <- DoNothing
    StopAfts <- DoNothing
    Omits <- LeftOut
    Exits <- OnlyOn
    Keyeds <- OnlyOn
    Answers <- DoNothing
    LastAnswers <- DoNothing
    MemoryFills <- OnlyOff
    IOErrors = FALSE
    MaxLoaded = 12
INVARIANTS
    OnlyDeletedAreMissing
