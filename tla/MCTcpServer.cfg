SPECIFICATION Spec
CONSTANTS
    SeqMod = 64
    ISNs <- MCISNs
    MaxSendFails = 0
    MaxFaults = 2
    MaxExpiries = 0
    Prompt = FALSE
    PeerISN = 62
    MaxData = 2
    MaxRexmts = 1
INVARIANTS AppGetsPrefix NoNullConnection
PROPERTIES DataDelivered ClosedConnFreed
CHECK_DEADLOCK FALSE
