\* hashtable.h:65 against a removal from the middle of a run.
CONSTANTS
    a = a
    b = b
    c = c
    NULL = NULL
    Fault = Fault
    Destroyed = Destroyed
    Key = {a, b, c}
    Value = {u, v}
    Hash <- Hashes
    InitSize = {0, 1, 3}
    MaxMem = 8
SPECIFICATION Spec
INVARIANT FindsMapped
CHECK_DEADLOCK FALSE
