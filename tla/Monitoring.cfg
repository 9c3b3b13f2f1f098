SPECIFICATION FairSpec
CONSTANTS
    Jobs = {j1, j2}
    Faults = TRUE
    MaxCrashes = 2
INVARIANTS
    OnlyActiveScheduled ActiveIsScheduled RunningIsExact
PROPERTIES
    StoppedStaysStopped JobsMakeProgress
