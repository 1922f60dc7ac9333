SPECIFICATION PartSpec
CONSTANTS
    p1 = p1
    p2 = p2
    r1 = r1
    r2 = r2
    e1 = e1
    None = None
    NoPeer = NoPeer
    NoBlock = NoBlock
    c1 = c1
    c2 = c2
    NoTimer = NoTimer
    session = session
    perPeer = perPeer
    l1 = l1
    dummy = dummy
    Request = {r1, r2}
    Stopped = {r1}
    Endpoint = {e1}
    SendErrors = TRUE
    MaxRestarts = 0
INVARIANTS
    CalledOnce
    AnsweredWasAnnounced
    SharesAreRight
    LookupIsRight
PROPERTIES
    EverythingEnds
CHECK_DEADLOCK FALSE
