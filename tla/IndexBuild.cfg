SPECIFICATION Spec
CONSTANTS
    Builds = {b1, b2, b3}
    Files = {f1, f2, f3}
    Searches = {s1}
    None = None
    MaxSize = 2
    Overlap = FALSE
    DiskFull = TRUE
SYMMETRY Symm
INVARIANTS
    OwnFile LiveIsWhole HitsMatchEmbedder NoLeftovers
CHECK_DEADLOCK FALSE
