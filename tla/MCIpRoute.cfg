SPECIFICATION Spec
CONSTANTS
    Size = 5
    Width = 4
    Configs <- Near
    NULL = null
INVARIANTS TreesSound EntriesConserved LookupsFindRoutes
PROPERTY ImplementsTable
CHECK_DEADLOCK FALSE
