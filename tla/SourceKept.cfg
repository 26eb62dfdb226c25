CONSTANTS
    first = first
    second = second
    Gui = Gui
    Builds = {first}
    Calls = {first}
    MaxFaults = 1
    MaxClock = 1
SPECIFICATION BuildSpec
INVARIANT SourceKept
CHECK_DEADLOCK FALSE
