SPECIFICATION Spec
CONSTANTS
    Size = 5
    Width = 4
    Configs <- SameIface
    NULL = null
INVARIANT LookupsFindRoutes
CHECK_DEADLOCK FALSE
