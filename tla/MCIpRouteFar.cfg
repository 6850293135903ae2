SPECIFICATION Spec
CONSTANTS
    Size = 5
    Width = 4
    Configs <- Far
    NULL = null
INVARIANT LookupsFindRoutes
CHECK_DEADLOCK FALSE
