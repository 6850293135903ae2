SPECIFICATION Spec
CONSTANTS
    SeqMod = 16
    ISNs <- MCRaceISNs
    MaxSendFails = 1
    MaxFaults = 1
    MaxExpiries = 2
    Prompt = FALSE
    PeerISN = 15
    PeerPorts = {"listen", "closed"}
    MaxSend = 2
INVARIANTS SegmentOnce MutexNotLeaked
CHECK_DEADLOCK FALSE
