CONSTANTS
    NSock = 2
    TcpSocks = {2}
    Capacity = 2
    MaxSend = 3
SPECIFICATION Spec
INVARIANTS EgressInOrder
PROPERTIES EveryDgramHanded WorkersStop
CHECK_DEADLOCK FALSE
