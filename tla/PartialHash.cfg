SPECIFICATION Spec
CONSTANTS
    Pieces = {1}
    N = 4
    CacheSize = 5
    WriteLine = 4
    ReadLine = 2
    Algorithms = {"lru"}
    Explicit = FALSE
    Volatile = FALSE
    SeedModes = {FALSE}
    SeedData = "good"
    SmartBan = FALSE
    ReadErrors = FALSE
    MaxJobs = 2
    MaxErrors = 1
    MaxBad = 1
INVARIANT HaveIsGood
CHECK_DEADLOCK FALSE
