CONSTANTS
    Tools = {"cubeide"}
    Hidden = {".trash"}
    FullyFormed = {}
    MaxCalls = 2
    MaxFaults = 1
    Text <- MCText
    Hosts <- MCHosts
    CallsOn <- MCCallsOn
    Documents <- MCDocuments
    Numbered <- MCNumbered
SPECIFICATION EditsSpec
INVARIANTS AllOrNothing OnlyAsked RepeatChangesNothing
CHECK_DEADLOCK FALSE
