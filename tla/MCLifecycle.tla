---------------------------- MODULE MCLifecycle ----------------------------
(* LifecycleService on small instances: two plans, the fallback one with   *)
(* its three steps (DEFAULT_PLAN) and another with one.                    *)
EXTENDS LifecycleService, TLC

MCPlanLen == [p \in Plans |-> IF p = DefaultPlan THEN 3 ELSE 1]

Symm == Permutations(Objs) \cup Permutations(Requests)
============================================================================
