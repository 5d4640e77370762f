SPECIFICATION Spec
CONSTANT MaxLength = 6
INVARIANTS
    TypeOK
    SearchInvariant
    LinesInOrder
    PositionCorrect
PROPERTY FindsPosition
CHECK_DEADLOCK FALSE
