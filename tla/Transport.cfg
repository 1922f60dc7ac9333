SPECIFICATION PartSpec
CONSTANTS
    r1 = r1
    e1 = e1
    e2 = e2
    c1 = c1
    c2 = c2
    None = None
    Conns = {c1, c2}
    Readers = {c1}
    MaxQuota = 1
    MaxBuffer = 1
    MaxWrites = 2
    MaxPosted = 1
    MaxQueued = 2
    LowWatermark = 1
INVARIANTS
    TrackerIsRight
    StreamIsRight
    NeverStalls
    WaitsAreCounted
    HandshakeIsRight
    PortsAreServed
CHECK_DEADLOCK FALSE
