SPECIFICATION Spec
CONSTANTS
    Keys <- TwoKeys
    Tails <- TwoTails
    NumFiles = 3
    MaxFiles = 4
    Shapes <- ThreeFiles
    Values <- Powers
    Modulus = 48
    IOErrors = FALSE
INVARIANTS
    MergeEndsWell
