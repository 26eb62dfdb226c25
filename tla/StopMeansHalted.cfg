CONSTANTS
    MaxToken = 4
    InterruptToken = 9
SPECIFICATION SessionSpec
INVARIANT StopMeansHalted
CHECK_DEADLOCK FALSE
