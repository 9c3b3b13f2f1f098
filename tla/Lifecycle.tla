----------------------------- MODULE Lifecycle -----------------------------
(***************************************************************************)
(* The Day 15 lifecycle machine (src/app/services/day15/lifecycle.py): the *)
(* table of allowed transitions, the guards on the critical ones and the   *)
(* effect of a transition on a task.  The machine is pure; the operators   *)
(* below are functions of a task and keep no state.                        *)
(*                                                                         *)
(* A task is abstracted to what its correctness depends on: a plan is a    *)
(* member of Plans with a length, an execution result is a number (0 for   *)
(* none), the transition history is its length and the status of its last  *)
(* record.  Two fields, consent and verdictOf, are history fields that the *)
(* code does not keep: the plan the user approved, and the result that the *)
(* recorded verdict judged.                                                *)
(***************************************************************************)
EXTENDS Naturals

CONSTANTS Plans,        \* the plans the planner may return
          PlanLen,      \* PlanLen[p]: the number of steps of plan p
          DefaultPlan,  \* the deterministic fallback plan, DEFAULT_PLAN
          NoPlan,       \* the empty plan of a new task
          NoTask        \* None where the code has no task

ASSUME PlansAssumption ==
    /\ DefaultPlan \in Plans
    /\ NoPlan \notin Plans
    /\ PlanLen \in [Plans -> Nat \ {0}]

STATES == {"planning", "plan_approval", "execution", "validation", "done"}

ALLOWED_TRANSITIONS ==
    [s \in STATES |->
        CASE s = "planning"      -> {"plan_approval"}
          [] s = "plan_approval" -> {"execution", "planning"}
          [] s = "execution"     -> {"validation", "planning"}
          [] s = "validation"    -> {"done", "execution"}
          [] s = "done"          -> {}]

Verdicts == {"none", "pass", "fail"}   \* validation_passed: None, True, False

Task == [id: Nat, state: STATES, step: Nat,
         plan: Plans \cup {NoPlan}, approved: BOOLEAN, verdict: Verdicts,
         paused: BOOLEAN, prev: STATES \cup {"none"},
         expected: [of: STATES, plan: Plans \cup {NoPlan}, step: Nat],
         result: Nat, hist: Nat, last: {"none", "allowed", "blocked"},
         consent: Plans \cup {NoPlan}, verdictOf: Nat]

ASSUME NoTaskAssumption == NoTask \notin Task

----------------------------------------------------------------------------
(* Guards and the expected action.                                         *)

Guard(t, target) ==
    /\ (t.state = "planning" /\ target = "plan_approval") => t.plan # NoPlan
    /\ (t.state = "plan_approval" /\ target = "execution")
          => t.plan # NoPlan /\ t.approved
    /\ (t.state = "validation" /\ target = "done") => t.verdict = "pass"

\* The step of the plan that current_step points at, kept within the plan.
Clamp(step, len) == IF step < 1 THEN 1 ELSE IF step > len THEN len ELSE step

\* In execution the expected action is the current step of the plan, in every
\* other state it is a fixed phrase named by the state.
ExpectedFor(t) ==
    IF t.state = "execution" /\ t.plan # NoPlan
    THEN [of |-> t.state, plan |-> t.plan, step |-> Clamp(t.step, PlanLen[t.plan])]
    ELSE [of |-> t.state, plan |-> NoPlan, step |-> 0]

----------------------------------------------------------------------------
(* The decision and its effect.                                            *)

\* Mutants: the decision without the paused check, then without the guards.
EvaluateWhilePaused(t, target) ==
    target \in ALLOWED_TRANSITIONS[t.state] /\ Guard(t, target)
EvaluateUnguarded(t, target) ==
    ~t.paused /\ target \in ALLOWED_TRANSITIONS[t.state]

Evaluate(t, target) ==
    /\ ~t.paused
    /\ target \in ALLOWED_TRANSITIONS[t.state]
    /\ Guard(t, target)

\* Mutants: a transition that keeps the old approval, or the old verdict.
ApplyKeepingApproval(t, target) ==
    LET u == [t EXCEPT !.state = target,
                       !.verdict = IF target = "validation" THEN "none" ELSE @,
                       !.prev = "none"]
    IN  [u EXCEPT !.expected = ExpectedFor(u)]
ApplyKeepingVerdict(t, target) ==
    LET u == [t EXCEPT !.state = target,
                       !.approved = IF target = "planning" THEN FALSE ELSE @,
                       !.prev = "none"]
    IN  [u EXCEPT !.expected = ExpectedFor(u)]

Apply(t, target) ==
    LET u == [t EXCEPT !.state = target,
                       !.approved = IF target = "planning" THEN FALSE ELSE @,
                       !.verdict = IF target = "validation" THEN "none" ELSE @,
                       !.prev = "none"]
    IN  [u EXCEPT !.expected = ExpectedFor(u)]

\* Mutant: the history starts over with every record.
RecordLatest(t, allowed) ==
    [t EXCEPT !.hist = 1, !.last = IF allowed THEN "allowed" ELSE "blocked"]

\* One record appended to the transition history.
Record(t, allowed) ==
    [t EXCEPT !.hist = @ + 1, !.last = IF allowed THEN "allowed" ELSE "blocked"]
============================================================================
