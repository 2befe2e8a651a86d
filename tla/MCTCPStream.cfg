\* The network keeps header words whole and may split or cut the data.
CONSTANTS
    long = long
    short = short
    empty = empty
    s1 = s1
    s2 = s2
    NoMsg = NoMsg
    Msg = {long, short, empty}
    Size <- Sizes
    Sender = {s1, s2}
    Word = 1
    Whole = {"header", "stamp"}
SPECIFICATION FairSpec
INVARIANTS
    TypeOK
    InSync
    IntactUnlessSplit
    FinishedMeansReported
PROPERTIES
    DeliversInOrder
    EveryPacketArrives
    CloseIsNoticed
CHECK_DEADLOCK FALSE
