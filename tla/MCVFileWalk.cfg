SPECIFICATION Spec
CONSTANTS
    MaxHeap = 1
    DataSize = 2
    Addresses = {a1, a2, a3, a4, a5, a6}
    NULL = NULL
    Unset = Unset
    MaxLoc = 14
    Values = {0}
    Garbage = {}
    Locs = {3, 11, 12}
    Lens = {2, 3}
    Written = {}
PROPERTY CallsReturn
CHECK_DEADLOCK FALSE
