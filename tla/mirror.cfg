SPECIFICATION SerialFairSpec
CONSTANTS
    Turn = {t1, t2}
    Conv = {c1, c2}
    Seat = {s1, s2}
    NONE = NONE
    MaxText = 2
CHECK_DEADLOCK FALSE
INVARIANTS
    LogIsDialogue
    DoneMeansMirrored
    OwnRowsOnly
    CountNeverOverstates
    UsageOfATurn
    CountMatchesMessages
    OneThread
PROPERTIES
    TextGetsMirrored
