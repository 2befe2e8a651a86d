\* A table made empty, with one slot and with three.
CONSTANTS
    a = a
    b = b
    c = c
    NULL = NULL
    Fault = Fault
    Destroyed = Destroyed
    Key = {a, b, c}
    Value = {u, v}
    Hash <- Hashes
    InitSize = {0, 1, 3}
    MaxMem = 8
SPECIFICATION Spec
INVARIANTS
    TypeOK
    CountCovers
    RoomLeft
PROPERTY
    StepsLikeMap
CHECK_DEADLOCK FALSE
