SPECIFICATION Spec
CONSTANT MaxLength = 3
INVARIANT ReadsInside
CHECK_DEADLOCK FALSE
