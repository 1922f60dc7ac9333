SPECIFICATION Spec
CONSTANTS
    p1 = p1
    p2 = p2
    Peer = {p1, p2}
    NoPeer = NoPeer
    NoBlock = NoBlock
    Piece = {0}
    Index = {0, 1}
    FastPeer = {p1}
    MaxQueue = 2
    MaxDiskErrors = 0
    PossibleErrors = {}
    StrictEndGameMode = TRUE
    DropSkippedRequests = FALSE
    StrayPeer = {}
    CorruptPeer = {}
INVARIANTS
    ReceivedIsCancelled

CHECK_DEADLOCK FALSE
