SPECIFICATION Spec
CONSTANTS
    SeqMod = 32
    ISNs <- MCISNs
    MaxSendFails = 0
    MaxFaults = 1
    MaxExpiries = 6
    Prompt = FALSE
    PeerISN = 31
    PeerPorts = {"listen"}
    MaxSend = 3
INVARIANT UnaBelowMax
CHECK_DEADLOCK FALSE
