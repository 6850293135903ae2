SPECIFICATION RtoSpec
CONSTANT MaxRtt = 6
INVARIANTS RtoAtLeastMin RtoInv
