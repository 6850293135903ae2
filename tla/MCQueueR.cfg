CONSTANTS
    ALen = 4
    Data = {d1, d2}
    NoData = NoData
SPECIFICATION Spec
INVARIANTS TypeOK BlockExclusion RingInv
PROPERTY ImplementsFifo
