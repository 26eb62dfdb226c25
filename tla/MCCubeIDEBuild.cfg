CONSTANTS
    first = first
    second = second
    Gui = Gui
    Builds = {first, second}
    Calls = {first, second}
    MaxFaults = 1
    MaxClock = 1
SPECIFICATION BuildSpec
INVARIANTS BuildTypeOK OneBuild EclipseSpared EditsKept Recoverable LinksKept TreeGone NeverStuck
SYMMETRY BuildSymmetry
CHECK_DEADLOCK FALSE
