CONSTANTS
    MaxToken = 3
    InterruptToken = 9
SPECIFICATION SessionSpec
INVARIANTS AnswerIsOwn OutputIsFresh HaltedIsTrue BeliefTracksGdb NoStopMissed TablesAgree
PROPERTY CallsAtMostOnce
CHECK_DEADLOCK FALSE
