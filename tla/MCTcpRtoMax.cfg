SPECIFICATION RtoSpec
CONSTANT MaxRtt = 50
INVARIANT RtoAtMostMax
