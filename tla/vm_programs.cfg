SPECIFICATION FairSpec
CONSTANTS
    WordBits = 6
    StackBlock = 1
    FrameBlock = 14
    FrameWords = 2
    MaxStack = 9
    Programs <- WholePrograms
PROPERTY ProgramsAnswer
CHECK_DEADLOCK FALSE
