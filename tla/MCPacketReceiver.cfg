SPECIFICATION Spec
CONSTANTS
    NULL = NULL
    Slot = {1, 2}
    Step = 1
    SizeMax <- MCSizeMax
    Packet <- MCPacket
    UDPPacket <- MCUDPPacket
    StraySize = {0, 7, 18}
    Piece = {5}
    NetMax = 2
INVARIANTS
    TypeOK
    NothingLeaks
    SafeMemory
    StaysInside
    ParsedIsEncoded
PROPERTIES
    ParserAdvances
    HandlerReturns
\* After a fault, or the end of the listener, nothing more happens.
CHECK_DEADLOCK FALSE
