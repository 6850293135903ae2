SPECIFICATION Spec
CONSTANTS
    Size = 3
    AgeMax = 1
    Deltas = {2}
    Hosts = {a, b, c}
    Macs = {ma, mb}
    A = a
    B = b
    MacA = ma
    MacB = mb
    Own = own
    None = none
    Ports = {10}
    DeferMax = 2
    SizeMod = 1048576
    IpFrames <- MCIpFrames
    ArpFrames <- MCArpFrames
INVARIANTS HeardResolves OneEntryPerAddress AnswersWereClaimed RepliesGoBack DatagramsReachTheirSocket
PROPERTY AnswerSendsDeferred
CHECK_DEADLOCK FALSE
