CONSTANTS
    Elem = {a, b}
    NULL = NULL
    Unset = Unset
    Step = 1
    InitLen = {0}
    MaxLen = 1
    Node = {n1, n2, n3, n4}
SPECIFICATION DispatchSpec
SYMMETRY Symmetry
CHECK_DEADLOCK FALSE
PROPERTY
    InsertsAnywhere
