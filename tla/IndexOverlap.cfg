SPECIFICATION Spec
CONSTANTS
    Builds = {b1, b2}
    Files = {f1, f2}
    Searches = {s1}
    None = None
    MaxSize = 2
    Overlap = TRUE
    DiskFull = FALSE
SYMMETRY Symm
INVARIANT
    OnlyFinishedInPlace
CHECK_DEADLOCK FALSE
