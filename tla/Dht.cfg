SPECIFICATION PartSpec
CONSTANTS
    a1 = a1
    c1 = c1
    c2 = c2
    None = None
    Addrs = {a1}
    Targets = {1, 2}
    KeyPrefix <- Swapped
    MaxTorrents = 1
    MaxItems = 1
    MaxSeq = 2
    MaxKeys = 4
INVARIANTS
    TableIsRight
    StoreIsRight
    PeersAreRight
PROPERTIES
    HearsayDisplacesNone
    StoredIsEarned
CHECK_DEADLOCK FALSE
