SPECIFICATION Spec
CONSTANTS
    Requests = {r1, r2}
    ManyRequests = {m1, m2, m3}
    Comparisons = {c1}
    Keys = {k1, k2}
    NoRequest = NoRequest
    MaxEntries = 1
    Profiles = 1
    MaxSessions = 2
    NoSession = NoSession
    Agents = {"default", "b"}
    Default = "default"
    None = None
    Limits = {0, 2}
    BatchSizes = {1, 2}
    DemoLength = 4
    MaxBranches = 4
    SeedLength = 2
    NoBranch = NoBranch
    NoMessage = NoMessage
    MaxSteps = 2
    MaxTasks = 1
    MaxObjects = 4
    NoTask = NoTask
    Plans = {p_default, p_other}
    DefaultPlan = p_default
    NoPlan = NoPlan
    PlanLen <- MCPlanLen
    DiskFaults = TRUE
    Objs = {o1, o2, o3}
    NoObj = NoObj
    OneRequest = {l1}
    MaxCycles = 2
    MaxHist = 2
    MaxResults = 1
INVARIANTS
    TypeOK AgentsMatchStorage NothingLostToSummary FactsHold MemoriesHold
    FileLagsMemory
PROPERTIES
    BranchesHold StagesHold
SYMMETRY Symm
CHECK_DEADLOCK FALSE
