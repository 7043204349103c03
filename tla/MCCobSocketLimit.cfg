CONSTANTS
    c1 = c1
    c3 = c3
    c2 = c2
    Clients = {c1, c2, c3}
    Limits = {3}
    RecLen = 1
    Room = 1
    MaxFails = 0
SPECIFICATION Spec
PROPERTY
    DataIsDelivered
CHECK_DEADLOCK FALSE
