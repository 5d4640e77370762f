SPECIFICATION Spec
CONSTANTS
    WordBits = 2
    StackBlock = 1
    FrameBlock = 12
    FrameWords = 2
    MaxStack = 8
    ArgumentWords = {1}
    Sources <- UnboundModules
INVARIANT ErrorsAreContained
CHECK_DEADLOCK FALSE
