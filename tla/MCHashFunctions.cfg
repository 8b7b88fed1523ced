SPECIFICATION FairSpec
CONSTANTS
    Rate = 3
    Rows <- MCRows
    MaxRows = 2
    MaxValues = 2
    Roles <- MCRoles
INVARIANTS
    ValueIsHash
    HashesTellBytes
    OnlyOwnFunctions
    SameVerdict
PROPERTIES
    RegisterEnds
CHECK_DEADLOCK FALSE
