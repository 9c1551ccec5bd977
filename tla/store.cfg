SPECIFICATION FairSpec
CONSTANTS
    a1 = a1
    a2 = a2
    App <- Apps
    FirstApp = a1
    Old <- Olds
    OldApp <- OldApps
    MaxTurns = 2
    MaxText = 1
    NONE = NONE
    DRAFT = DRAFT
CHECK_DEADLOCK FALSE
INVARIANTS
    WholeShown
    StopReaches
PROPERTIES
    NotDraggedBack
    ErrorStays
    ComposerOpens
