SPECIFICATION PartSpec
CONSTANTS
    p1 = p1
    p2 = p2
    p3 = p3
    t1 = t1
    t2 = t2
    NoPeer = NoPeer
    NoBlock = NoBlock
    Peers = {p1, p2, p3}
    Torrents = {t1, t2}
    TorrentOf <- TorrentOfPeer
    Local = {p3}
    MaxUploads = 1
    SlotLimits = {2}
    Optimistic = 1
    MaxSlots = 3
INVARIANTS
    NothingIsStuck
    PickerIsRight
    PiecesAgree
    UploadIsRight
    SlotsAreCounted
CHECK_DEADLOCK FALSE
