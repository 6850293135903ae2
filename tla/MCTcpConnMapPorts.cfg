SPECIFICATION Spec
CONSTANTS
    Blocks = {1, 2, 3}
    Attrs <- TwoPorts
    MaxWalks = 0
    NULL = null
INVARIANT FindsItsOwn
CHECK_DEADLOCK FALSE
