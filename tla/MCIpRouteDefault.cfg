SPECIFICATION Spec
CONSTANTS
    Size = 5
    Width = 4
    Configs <- Default
    NULL = null
INVARIANT DefaultIsLast
CHECK_DEADLOCK FALSE
