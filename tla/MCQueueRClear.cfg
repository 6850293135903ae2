CONSTANTS
    ALen = 3
    Data = {d1, d2}
    NoData = NoData
SPECIFICATION ClearSpec
INVARIANT NeverTorn
