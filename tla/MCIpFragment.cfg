SPECIFICATION Spec
CONSTANTS
    NBuf = 2
    Packets = {a, b, c}
    Sizes = {4, 5, 7}
    FragBlocks = 3
    MapCleared = 8
    Hlen = 1
    Mtu = 4
    CutBlocks = 2
    Echoes = {a}
    Refused = {b}
    InOrder = FALSE
    MaxOpen = 2
    MaxLost = 1
    MaxDup = 1
    None = none
INVARIANTS WholeOnly OneBufferPerPacket ArrivedIsHandedOn EchoComesBack
CHECK_DEADLOCK FALSE
