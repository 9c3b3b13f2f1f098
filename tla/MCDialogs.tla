----------------------------- MODULE MCDialogs -----------------------------
(***************************************************************************)
(* A small instance of Dialogs.                                            *)
(***************************************************************************)
EXTENDS Dialogs, TLC

\* The fallback plan of Day 15 has three steps (DEFAULT_PLAN), the other one.
MCPlanLen == [p \in Plans |-> IF p = DefaultPlan THEN 3 ELSE 1]

\* Requests are alike, and so are keys.
Symm == Permutations(Requests) \cup Permutations(Keys)
=============================================================================
