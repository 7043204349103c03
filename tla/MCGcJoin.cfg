SPECIFICATION Spec
CONSTANTS
    MaxKey = 3
    FillKey = 0
    MaxFiles = 16
    MaxRows = 8
    LineFiles = TRUE
    IOErrors = TRUE
    Shapes <- MCShapes
INVARIANTS
    RowsRight
    UniqueKeysRight
    NoFalseAlarm
PROPERTY
    JoinEnds
