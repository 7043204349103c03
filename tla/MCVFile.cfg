SPECIFICATION Spec
CONSTANTS
    MaxHeap = 2
    DataSize = 4
    Addresses = {a1, a2, a3, a4, a5}
    NULL = NULL
    Unset = Unset
    MaxLoc = 20
    Values = {0, 1}
    Garbage <- MCGarbage
    Locs = {0, 4, 5, 17}
    Lens = {0, 3}
    Written <- MCWritten
INVARIANT HeapInv
PROPERTIES ImplementsStore ComesNearer
SYMMETRY Alike
CHECK_DEADLOCK FALSE
