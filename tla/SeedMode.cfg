SPECIFICATION Spec
CONSTANTS
    Conns = {c1, c2}
    Pieces = {1, 2}
    Bad = {2}
    AllowedFast = {}
    SeedModes = {TRUE}
    SuperSeeds = {FALSE}
    Reordered = FALSE
    Watermark = 1
    MaxAllowed = 0
    MaxRejects = 1
    MaxOwed = 1
INVARIANT FailureIsChecked
CHECK_DEADLOCK FALSE
