--------------------------- MODULE TaskLifecycle ----------------------------
(***************************************************************************)
(* What the Day 15 service promises a user who talks to it one request at  *)
(* a time: where the current task can go, and what must have happened      *)
(* before.  No plans, histories, files or model calls: one task at most,   *)
(* its phase, whether the user's consent to its plan stands, the outcome   *)
(* of its last validation and whether it is on hold.                       *)
(***************************************************************************)
VARIABLES phase,       \* the state of the task, "none" if there is no task
          consented,   \* the plan stands approved
          verdict,     \* "none", "pass" or "fail"
          held         \* the task is paused

avars == <<phase, consented, verdict, held>>

AInit == phase = "none" /\ ~consented /\ verdict = "none" /\ ~held

\* A new task starts in planning; a demo scenario starts approved, in execution
\* or after a failed validation.
Begin ==
    /\ ~held'
    /\ \/ phase' = "planning" /\ ~consented' /\ verdict' = "none"
       \/ phase' = "execution" /\ consented' /\ verdict' = "none"
       \/ phase' = "validation" /\ consented' /\ verdict' = "fail"

Forget == phase' = "none" /\ ~consented' /\ verdict' = "none" /\ ~held'

\* The moves, given whether the plan stands approved (c) and the outcome of the
\* last validation (v) when the move is made.
Move(c, v) ==
    /\ phase # "none"
    /\ ~held
    /\ \/ phase = "planning" /\ phase' = "plan_approval" /\ consented' = c /\ verdict' = v
       \/ phase = "plan_approval" /\ c /\ phase' = "execution" /\ consented' = c /\ verdict' = v
       \/ phase \in {"plan_approval", "execution"} /\ phase' = "planning"
            /\ ~consented' /\ verdict' = v
       \/ phase = "execution" /\ phase' = "validation" /\ consented' = c /\ verdict' = "none"
       \/ phase = "validation" /\ v = "pass" /\ phase' = "done" /\ consented' = c /\ verdict' = v
       \/ phase = "validation" /\ phase' = "execution" /\ consented' = c /\ verdict' = v
    /\ UNCHANGED held

\* The user approves the plan, and may go on to the execution in the same request.
Consent ==
    /\ phase = "plan_approval"
    /\ \/ consented' /\ UNCHANGED <<phase, verdict, held>>
       \/ Move(TRUE, verdict) /\ phase' = "execution"

\* A validation outcome arrives, and the task may move on it in the same request.
Judge(v) ==
    /\ phase = "validation"
    /\ \/ verdict' = v /\ UNCHANGED <<phase, consented, held>>
       \/ Move(consented, v) /\ phase' = IF v = "pass" THEN "done" ELSE "execution"

Hold == phase \notin {"none", "done"} /\ held' /\ UNCHANGED <<phase, consented, verdict>>
Release == held /\ ~held' /\ UNCHANGED <<phase, consented, verdict>>

ANext ==
    \/ Begin \/ Forget \/ Consent \/ Hold \/ Release
    \/ Move(consented, verdict)
    \/ \E v \in {"pass", "fail"} : Judge(v)

ASpec == AInit /\ [][ANext]_avars
============================================================================
