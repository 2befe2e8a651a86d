SPECIFICATION Spec
CONSTANTS
    NULL = NULL
    Slot = {1, 2}
    Step = 1
    SizeMax <- MCSizeMax
    Packet <- MCPacket
    UDPPacket <- MCUDPPacket
    StraySize = {18}
    Piece = {}
    NetMax = 1
INVARIANTS
    HeardFromOthers
CHECK_DEADLOCK FALSE
