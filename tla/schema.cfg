SPECIFICATION SchemaSpec
CONSTANTS
    MaxFaults = 2
    MaxChores = 4
CHECK_DEADLOCK FALSE
INVARIANTS
    StraysByCauseOnly
    LacksNoTable
PROPERTIES
    ComesUp
