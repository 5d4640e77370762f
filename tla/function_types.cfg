SPECIFICATION Spec
CONSTANTS
    WordBits = 2
    StackBlock = 1
    FrameBlock = 12
    FrameWords = 2
    MaxStack = 8
    ArgumentWords = {1}
    Sources <- SameTypeModules
INVARIANT OneIdForEachFunctionType
CHECK_DEADLOCK FALSE
