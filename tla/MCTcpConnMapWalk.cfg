SPECIFICATION Spec
CONSTANTS
    Blocks = {1, 2, 3, 4}
    Attrs <- OnePort
    MaxWalks = 1
    NULL = null
INVARIANT TickedOnce
CHECK_DEADLOCK FALSE
