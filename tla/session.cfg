SPECIFICATION FairSpecFromFirst
CONSTANTS
    Req = {r1, r2, r3}
    Token = {k1, k2, k3, k4}
    User = {u1}
    NONE = NONE
    MaxEra = 1
    Tab = {b1, b2}
    First = k1
CHECK_DEADLOCK FALSE
PROPERTIES
    KickedOnlyWhenDead
    TabSettles
