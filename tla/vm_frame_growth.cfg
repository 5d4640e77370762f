SPECIFICATION Spec
CONSTANTS
    WordBits = 5
    StackBlock = 8
    FrameBlock = 8
    FrameWords = 2
    MaxStack = 9
    Programs <- WholePrograms
INVARIANTS
    ReservedIsBacked
CHECK_DEADLOCK FALSE
