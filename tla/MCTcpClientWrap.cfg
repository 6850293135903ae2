SPECIFICATION Spec
CONSTANTS
    SeqMod = 16
    ISNs <- MCWrapISNs
    MaxSendFails = 0
    MaxFaults = 0
    MaxExpiries = 6
    Prompt = TRUE
    PeerISN = 5
    PeerPorts = {"listen"}
    MaxSend = 3
INVARIANT PeerInOrder
CHECK_DEADLOCK FALSE
