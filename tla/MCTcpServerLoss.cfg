SPECIFICATION Spec
CONSTANTS
    SeqMod = 64
    ISNs <- MCISNs
    MaxSendFails = 0
    MaxFaults = 1
    MaxExpiries = 0
    Prompt = TRUE
    PeerISN = 62
    MaxData = 1
    MaxRexmts = 3
PROPERTY DataDeliveredAlways
CHECK_DEADLOCK FALSE
