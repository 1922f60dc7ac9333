SPECIFICATION FairSpec
CONSTANTS
    r1 = r1
    r2 = r2
    e1 = e1
    e2 = e2
    None = None
    Request = {r1}
    Stopped = {r1}
    Endpoint = {e1, e2}
    SendErrors = FALSE
    MaxRestarts = 0
PROPERTIES
    RequestEnds
CHECK_DEADLOCK FALSE
