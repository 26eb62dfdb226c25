CONSTANTS
    b1 = b1
    b2 = b2
    Boards = {b1, b2}
    Ports = 2
    Capacity = 1
    MaxWire = 0
    Wrap = 3
    MaxUnplugs = 2
SPECIFICATION Spec
INVARIANT SameProbe
SYMMETRY Symmetry
CHECK_DEADLOCK FALSE
