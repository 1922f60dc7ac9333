SPECIFICATION Spec
CONSTANTS
    t1 = t1
    Torrents = {t1}
    Magnets = {}
    NumPieces = 2
    OnDisk <- AllOnDisk
    Limit = 1
    Ops = {"pause"}
    MaxJobs = 3
INVARIANTS
    CheckingIsMeant
CHECK_DEADLOCK FALSE
