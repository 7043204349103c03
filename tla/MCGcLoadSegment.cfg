SPECIFICATION Spec
CONSTANTS
    Lengths <- Filled
    NumFiles = 1
    SkipRecs <- DoNothing
    StopAfts <- DoNothing
    Omits <- LeftOut
    Exits <- OnlyOn
    Keyeds <- OnlyOff
    Answers <- DoNothing
    LastAnswers <- DoNothing
    MemoryFills <- OnlyOn
    IOErrors = FALSE
    MaxLoaded = 12
INVARIANTS
    OnlyDeletedAreMissing
