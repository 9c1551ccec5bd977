SPECIFICATION Spec
CONSTANTS
    Req = {r1, r2, r3, r4}
    Token = {k1, k2, k3}
    User = {u1, u2}
    NONE = NONE
    MaxEra = 1
SYMMETRY All
CHECK_DEADLOCK FALSE
INVARIANTS
    OneLivePerLogin
    
    LogoutEndsSession
