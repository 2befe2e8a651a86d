\* Steps of one slot; initial arrays of no slot, of some, and of more than
\* four unused steps.  Four nodes: two between the ends, so that both
\* directions of the search and insertions and removals away from the ends
\* occur.
CONSTANTS
    Elem = {a, b}
    NULL = NULL
    Unset = Unset
    Step = 1
    InitLen = {0, 2, 7}
    MaxLen = 6
    Node = {n1, n2, n3, n4}
SPECIFICATION DispatchSpec
SYMMETRY Symmetry
\* The list may be freed, and a broken list stops.
CHECK_DEADLOCK FALSE
INVARIANTS
    HandleOK
    ElementsAreStored
    WellLinked
    EndsWell
PROPERTIES
    ImplementsList
    StepsLikeList
    KeepsOrder
