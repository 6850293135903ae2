SPECIFICATION Spec
CONSTANTS
    SeqMod = 32
    ISNs <- MCISNs
    MaxSendFails = 1
    MaxFaults = 0
    MaxExpiries = 6
    Prompt = TRUE
    PeerISN = 31
    PeerPorts = {"listen"}
    MaxSend = 3
INVARIANTS PeerInOrder UnaBelowMax
PROPERTY EveryDatagramArrives
CHECK_DEADLOCK FALSE
