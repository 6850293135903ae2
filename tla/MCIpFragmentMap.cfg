SPECIFICATION Spec
CONSTANTS
    NBuf = 2
    Packets = {a, b, c}
    Sizes = {4, 5, 7}
    FragBlocks = 3
    MapCleared = 3
    Hlen = 1
    Mtu = 4
    CutBlocks = 2
    Echoes = {a}
    Refused = {b}
    InOrder = TRUE
    MaxOpen = 2
    MaxLost = 1
    MaxDup = 0
    None = none
INVARIANT WholeOnly
CHECK_DEADLOCK FALSE
