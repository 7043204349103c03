SPECIFICATION Spec
CONSTANTS
    MaxKey = 3
    FillKey = 0
    MaxFiles = 16
    MaxRows = 8
    LineFiles = TRUE
    IOErrors = FALSE
    Shapes <- MCShapes
INVARIANT
    AlarmMeansDisorder
