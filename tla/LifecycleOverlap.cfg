SPECIFICATION Spec
CONSTANTS
    Plans = {p_default, p_other}
    DefaultPlan = p_default
    PlanLen <- MCPlanLen
    NoPlan = no_plan
    NoTask = no_task
    Requests = {r1, r2}
    Objs = {o1, o2, o3, o4}
    NoObj = no_obj
    DiskFaults = FALSE
    MaxTasks = 2
    MaxHist = 4
    MaxResults = 1
SYMMETRY Symm
INVARIANTS
    ApprovedPlanOnly DoneWasValidated PausePreserves ExpectedFresh PlanningHeld DiskIsMemory
