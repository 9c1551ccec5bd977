SPECIFICATION Spec
CONSTANTS
    MaxFrames = 2
    MaxLines = 2
    NotKept = NotKept
CHECK_DEADLOCK FALSE
INVARIANT DoneCarriesConversation
