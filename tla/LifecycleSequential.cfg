SPECIFICATION Spec
CONSTANTS
    Plans = {p_default, p_other}
    DefaultPlan = p_default
    PlanLen <- MCPlanLen
    NoPlan = no_plan
    NoTask = no_task
    Requests = {r1}
    Objs = {o1, o2, o3}
    NoObj = no_obj
    DiskFaults = FALSE
    MaxTasks = 2
    MaxHist = 9
    MaxResults = 3
SYMMETRY Symm
INVARIANTS
    VerdictIsForResult
PROPERTIES
    HistoryIsKept ImplementsTaskLifecycle
