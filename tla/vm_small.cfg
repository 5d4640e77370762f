SPECIFICATION Spec
CONSTANTS
    WordBits = 2
    StackBlock = 1
    FrameBlock = 6
    FrameWords = 2
    MaxStack = 4
    Programs <- SmallPrograms
INVARIANTS
    TypeOK
    FramesChained
PROPERTIES
    CallersUntouched
    ReturnsToCaller
    ImplementsStackMachine
CHECK_DEADLOCK FALSE
