\* lowlevel.h:138-140 against a payload that arrives in two pieces.
CONSTANTS
    long = long
    short = short
    empty = empty
    s1 = s1
    s2 = s2
    NoMsg = NoMsg
    Msg = {long, short, empty}
    Size <- Sizes
    Sender = {s1, s2}
    Word = 1
    Whole = {"header", "stamp"}
SPECIFICATION Spec
INVARIANT DeliveredIntact
CHECK_DEADLOCK FALSE
