SPECIFICATION Spec
CONSTANTS
    NONE = NONE
    Admin = {a1, a2}
    Dataset = {k1, k2}
    Document = {x1}
    Member = {m1}
    Group = {g1}
    MaxAsks = 5
CHECK_DEADLOCK FALSE
PROPERTIES
    DeleteLeavesNoGrants
