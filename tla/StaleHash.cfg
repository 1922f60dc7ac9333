SPECIFICATION Spec
CONSTANTS
    p1 = p1
    p2 = p2
    Peer = {p1, p2}
    NoPeer = NoPeer
    NoBlock = NoBlock
    Piece = {0}
    Index = {0, 1}
    FastPeer = {p1, p2}
    MaxQueue = 1
    MaxDiskErrors = 1
    PossibleErrors = {"no_memory"}
    StrictEndGameMode = TRUE
    DropSkippedRequests = FALSE
    StrayPeer = {}
    CorruptPeer = {}

PROPERTIES
    PassedIsWritten
CHECK_DEADLOCK FALSE
