CONSTANT MaxExtensions = 2
SPECIFICATION Spec
INVARIANTS SuccessIsFresh NoLateWriter
PROPERTY RunEnds
CHECK_DEADLOCK FALSE
