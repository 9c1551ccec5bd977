SPECIFICATION Spec
CONSTANTS
    NONE = NONE
    User = {u1, u2}
    File = {f1, f2}
    MaxSends = 2
    MaxStarts = 1
    MaxFiles = 2
SYMMETRY All
CHECK_DEADLOCK FALSE
INVARIANTS
    FilesAccounted
    SendWhole
