SPECIFICATION FairSpec
CONSTANTS
    Servers <- MCServers
    Tools <- MCTools
    SaveReport = "save_report"
    Listings <- MCListings
    MaxToolIterations = 3
    MaxTotalToolCalls = 3
    MaxBatch = 2
    NoFile = NoFile
INVARIANTS
    CallsAreAnswered SavedReport
PROPERTIES
    Terminates
CHECK_DEADLOCK FALSE
