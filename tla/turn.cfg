SPECIFICATION FairSpec
CONSTANTS
    MaxFrames = 3
    MaxLines = 5
    NotKept = NotKept
CHECK_DEADLOCK FALSE
INVARIANTS
    
    
    WholeMeansTold
    FailureIsNoEnd
PROPERTIES
    
    TurnSettles
