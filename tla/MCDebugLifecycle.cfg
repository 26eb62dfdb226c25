CONSTANTS
    c1 = c1
    Callers = {c1}
    Ports = 2
    MaxProcs = 3
    MaxInterrupts = 1
SPECIFICATION FairSpec
INVARIANTS NoOrphan PeerIsOwn
PROPERTIES CallEnds ProbeFreed
CHECK_DEADLOCK FALSE
