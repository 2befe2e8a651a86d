SPECIFICATION Spec
CONSTANTS
    NULL = NULL
    t1 = t1
    t2 = t2
    Thread = {t1, t2}
    Slave = {16, 17}
    Byte = {3, 200}
INVARIANTS
    TypeOK
    SelectionAgrees
    ReachesSlave
    ResultsAreTrue
SYMMETRY Threads
