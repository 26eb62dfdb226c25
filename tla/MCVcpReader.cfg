CONSTANTS
    b1 = b1
    b2 = b2
    Boards = {b1}
    Ports = 1
    Capacity = 2
    MaxWire = 1
    Wrap = 4
    MaxUnplugs = 1
SPECIFICATION FairSpec
INVARIANT TypeOK
PROPERTIES DeadNotUsed CallReturns ChannelSafe ChannelServed
CHECK_DEADLOCK FALSE
