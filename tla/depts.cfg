SPECIFICATION Spec
CONSTANTS
    Dept = {d1, d2, d3}
    App = {x1}
    User = {u1}
    Admin = {a1, a2}
    NONE = NONE
SYMMETRY All
CONSTRAINT UntilPathStale
CHECK_DEADLOCK FALSE
INVARIANTS
    PathIsChain
    NoCycle
    
