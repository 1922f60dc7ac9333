SPECIFICATION PartSpec
CONSTANTS
    c1 = c1
    c2 = c2
    c3 = c3
    t1 = t1
    t2 = t2
    NoTimer = NoTimer
    Client <- MCClient
    Priority <- MCPriority
    Timeout <- MCTimeout
    MaxTimeout = 2
    Limits = {0, 2}
INVARIANTS
    SlotsAreRight
    PausedIsQuiet
    QueuesAreRight
    PiecesAreKnown
    CachesAreRight
    AnnouncesAreRight
PROPERTIES
    LimitIsKept
CHECK_DEADLOCK FALSE
