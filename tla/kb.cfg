SPECIFICATION Spec
CONSTANTS
    NONE = NONE
    Admin = {a1, a2, a3}
    Dataset = {k1, k2}
    Document = {x1}
    Member = {m1}
    Group = {g1}
    MaxAsks = 4
SYMMETRY All
CHECK_DEADLOCK FALSE
INVARIANTS
    AuditIsTrue
    ChangesAreTraced
    GrantsAccounted
