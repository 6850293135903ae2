SPECIFICATION Spec
CONSTANTS
    SeqMod = 32
    ISNs <- MCISNs
    MaxSendFails = 0
    MaxFaults = 1
    MaxExpiries = 6
    Prompt = TRUE
    PeerISN = 31
    PeerPorts = {"listen"}
    MaxSend = 1
PROPERTY OpenDataArrives
CHECK_DEADLOCK FALSE
