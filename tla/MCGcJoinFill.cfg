SPECIFICATION Spec
CONSTANTS
    MaxKey = 3
    FillKey = 4
    MaxFiles = 16
    MaxRows = 8
    LineFiles = FALSE
    IOErrors = FALSE
    Shapes <- MCShapes
INVARIANT
    AlarmMeansDisorder
