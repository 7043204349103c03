CONSTANTS
    c1 = c1
    c2 = c2
    c3 = c3
    Clients = {c1, c2}
    Limits = {2, 3}
    RecLen = 3
    Room = 4
    MaxFails = 1
SPECIFICATION Spec
INVARIANTS
    HandlesRight
    RecordsWhole
PROPERTY
    ReadyIsServed
CHECK_DEADLOCK FALSE
