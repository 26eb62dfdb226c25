CONSTANTS
    MaxCalls = 2
    MaxBuilds = 2
    Rungs = 3
SPECIFICATION ProgrammerSpec
INVARIANTS ProgrammerTypeOK SignedIsSound PairTold WrittenLockTold SwoEnds
PROPERTY ConsentFirst
CHECK_DEADLOCK FALSE
