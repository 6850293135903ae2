CONSTANTS
    NSock = 2
    TcpSocks = {2}
    Capacity = 2
    MaxSend = 1
SPECIFICATION Spec
PROPERTY StopCompletes
CHECK_DEADLOCK FALSE
