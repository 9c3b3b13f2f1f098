----------------------------- MODULE TaskStages -----------------------------
(***************************************************************************)
(* The task of Day 13 (src/app/services/day13): one current task that      *)
(* planning, execution and validation turns of the model move through its  *)
(* stages, with pause and resume, explicit transitions and a file.         *)
(*                                                                         *)
(* A turn holds the task object it began with while it waits for the       *)
(* provider.  The state machine returns copies, other operations change    *)
(* the object in place, and _save makes whatever object it is given the    *)
(* current one: so objects are modelled by their identity.  Steps are known*)
(* by their number; texts, prompts and parsing are left out.               *)
(***************************************************************************)
EXTENDS Integers, FiniteSets

CONSTANTS Requests,          \* chat requests at a time
          MaxSteps,          \* _MAX_PLAN_STEPS
          MaxTasks,          \* bound: tasks at a time
          MaxObjects,        \* task objects at a time
          NoTask

VARIABLES objects,           \* the TaskState objects, by identity
          current,           \* Day13TaskService._state
          file,              \* the content of the file
          request,           \* the object each chat request is answered about, if any
          fileFailed,        \* history variable: the last write of the file failed
          overwritten,       \* history variable: a turn saved an object that was
                             \* no longer the current one
          forced             \* history variable: tasks moved by an explicit transition

vars == <<objects, current, file, request, fileFailed, overwritten, forced>>

STAGES == {"planning", "execution", "validation", "done"}

ALLOWED_TRANSITIONS ==
    [stage \in STAGES |->
        CASE stage = "planning"   -> {"execution"}
          [] stage = "execution"  -> {"validation"}
          [] stage = "validation" -> {"execution", "done"}
          [] OTHER                -> {}]

\* `plan' is the number of steps planned, `completed' the steps in
\* completed_steps; expected_action is a function of the rest.
TaskState == [task : 1 .. MaxTasks, stage : STAGES, step : 1 .. MaxSteps, plan : 0 .. MaxSteps,
              completed : SUBSET (1 .. MaxSteps), paused : BOOLEAN]

Ids == 1 .. MaxObjects

\* Assumed of the constants by the runs and the theorems.
StagesAssumption ==
    /\ MaxSteps \in Nat \ {0} /\ MaxTasks \in Nat /\ MaxObjects \in Nat
    /\ IsFiniteSet(Requests) /\ Cardinality(Requests) + 1 < MaxObjects
    /\ NoTask \notin Nat \cup TaskState

Made == {o \in Ids : objects[o] # NoTask}
New == CHOOSE o \in Ids : objects[o] = NoTask
Task == objects[current]

TypeOK ==
    /\ objects \in [Ids -> TaskState \cup {NoTask}]
    /\ current \in Made \cup {NoTask}
    /\ file \in TaskState \cup {NoTask}
    /\ request \in [Requests -> Ids \cup {NoTask}]
    /\ fileFailed \in BOOLEAN /\ overwritten \in BOOLEAN
    /\ forced \subseteq 1 .. MaxTasks

Init ==
    /\ objects = [o \in Ids |-> NoTask]
    /\ current = NoTask
    /\ file = NoTask
    /\ request = [r \in Requests |-> NoTask]
    /\ fileFailed = FALSE /\ overwritten = FALSE
    /\ forced = {}

----------------------------------------------------------------------------
(* Saving.                                                                 *)

\* The store swallows every error.  Bound: no two failures in a row.
Stored(content) ==
    \/ file' = content /\ fileFailed' = FALSE
    \/ ~fileFailed /\ fileFailed' = TRUE /\ UNCHANGED file

\* Objects that neither the service nor a turn refers to are gone.
Referenced(all) ==
    [o \in Ids |-> IF o = current' \/ \E r \in Requests : request'[r] = o
                   THEN all[o] ELSE NoTask]

\* The object o, changed in place, becomes the current one.
Save(o, state) ==
    /\ current' = o
    /\ objects' = Referenced([objects EXCEPT ![o] = state])
    /\ Stored(state)

\* The identity of a copy of o: that of o itself when no turn holds o any more.
Copied(o) == IF \E r \in Requests : request'[r] = o THEN New ELSE o

\* A copy of o becomes the current object; `before' is what o is left as.
SaveCopy(o, before, state) ==
    /\ current' = Copied(o)
    /\ objects' = Referenced([objects EXCEPT ![o] = before, ![Copied(o)] = state])
    /\ Stored(state)

\* TaskStateMachine.transition.
Moved(state, stage) == [state EXCEPT !.stage = stage]

\* Mutant: a transition is not checked.
CanMoveAlways(state, stage) == stage \in STAGES

CanMove(state, stage) == stage \in ALLOWED_TRANSITIONS[state.stage]

----------------------------------------------------------------------------
(* Operations without the model.                                           *)

\* A number is used again when nothing is left of its task.
Tasks == {state.task : state \in ({objects[o] : o \in Made} \cup {file}) \ {NoTask}}

\* Over the current task, if there is one.
CreateTask ==
    /\ UNCHANGED <<request, overwritten>>
    /\ \E task \in (1 .. MaxTasks) \ Tasks :
          /\ Save(New,
                  [task |-> task, stage |-> "planning", step |-> 1, plan |-> 0,
                   completed |-> {}, paused |-> FALSE])
          /\ forced' = forced \ {task}

\* By button or by the command in the chat.
Pause ==
    /\ current # NoTask /\ Task.stage # "done"
    /\ UNCHANGED <<request, overwritten, forced>>
    /\ Save(current, [Task EXCEPT !.paused = TRUE])

Resume ==
    /\ current # NoTask
    /\ UNCHANGED <<request, overwritten, forced>>
    /\ Save(current, [Task EXCEPT !.paused = FALSE])

Transition(stage) ==
    /\ current # NoTask /\ ~Task.paused /\ CanMove(Task, stage)
    /\ UNCHANGED <<request, overwritten>>
    /\ SaveCopy(current, Task, Moved(Task, stage))
    /\ forced' = forced \cup {Task.task}

Reset ==
    /\ current' = NoTask
    /\ UNCHANGED <<request, overwritten, forced>>
    /\ objects' = Referenced(objects)
    /\ Stored(NoTask)

----------------------------------------------------------------------------
(* A turn.                                                                 *)

StartTurn(r) ==
    /\ request[r] = NoTask
    /\ current # NoTask /\ ~Task.paused /\ Task.stage # "done"
    /\ request' = [request EXCEPT ![r] = current]
    /\ UNCHANGED <<objects, current, file, fileFailed, overwritten, forced>>

Held(r) == objects[request[r]]

\* What every answered turn does; `overwritten' is for the properties.
EndTurn(r, stage) ==
    /\ request[r] # NoTask /\ Held(r).stage = stage
    /\ request' = [request EXCEPT ![r] = NoTask]
    /\ overwritten' = (overwritten \/ request[r] # current)
    /\ UNCHANGED forced

PlanningTurn(r, steps) ==
    /\ EndTurn(r, "planning")
    /\ LET planned == [Held(r) EXCEPT !.plan = steps, !.step = 1]
       IN  SaveCopy(request[r], planned, Moved(planned, "execution"))

\* The current step is completed; after the last one code moves on.
ExecutionTurn(r) ==
    /\ EndTurn(r, "execution")
    /\ LET marked == [Held(r) EXCEPT !.completed = @ \cup {Held(r).step}]
       IN  IF marked.step < marked.plan
           THEN Save(request[r], [marked EXCEPT !.step = @ + 1])
           ELSE SaveCopy(request[r], marked, Moved(marked, "validation"))

ValidationPassed(r) ==
    /\ EndTurn(r, "validation")
    /\ SaveCopy(request[r], Held(r), Moved(Held(r), "done"))

\* The last step is done again.
ValidationFailed(r) ==
    /\ EndTurn(r, "validation")
    /\ LET back == Moved(Held(r), "execution")
       IN  SaveCopy(request[r], Held(r),
                    IF back.plan > 0 THEN [back EXCEPT !.step = back.plan] ELSE back)

\* The provider fails: nothing has been changed yet.
TurnFails(r) ==
    /\ request[r] # NoTask
    /\ request' = [request EXCEPT ![r] = NoTask]
    /\ UNCHANGED <<current, file, fileFailed, overwritten, forced>>
    /\ objects' = Referenced(objects)

----------------------------------------------------------------------------

\* A new process has the file's task, if there is one, and nothing else.
Restart ==
    /\ objects' = [o \in Ids |-> IF o = 1 THEN file ELSE NoTask]
    /\ current' = IF file = NoTask THEN NoTask ELSE 1
    /\ request' = [r \in Requests |-> NoTask]
    /\ fileFailed' = FALSE /\ overwritten' = FALSE
    /\ forced' = IF file = NoTask THEN {} ELSE forced \cap {file.task}
    /\ UNCHANGED file

Next ==
    \/ CreateTask \/ Pause \/ Resume \/ Reset \/ Restart
    \/ \E stage \in STAGES : Transition(stage)
    \/ \E r \in Requests :
          \/ StartTurn(r) \/ TurnFails(r)
          \/ \E steps \in 1 .. MaxSteps : PlanningTurn(r, steps)
          \/ ExecutionTurn(r) \/ ValidationPassed(r) \/ ValidationFailed(r)

Spec == Init /\ [][Next]_vars

----------------------------------------------------------------------------
(* Properties.                                                             *)

\* Although turns change objects they were given long ago, what is on disk is
\* always the current task, unless the last write failed.
FileIsCurrent ==
    fileFailed \/ file = IF current = NoTask THEN NoTask ELSE Task

\* Steps are done in order and none is skipped, also by turns that overlap: a
\* task nobody moved by hand is validated only with its whole plan done.  An
\* explicit transition may skip steps, and validation sends it to the last one.
StepsInOrder ==
    \A o \in Made :
        LET task == objects[o]
        IN  task.task \in forced
            \/ CASE task.stage = "planning"  -> task.completed = {}
                 [] task.stage = "execution" ->
                        task.completed \in {1 .. (task.step - 1), 1 .. task.plan}
                 [] OTHER -> task.plan > 0 /\ task.completed = 1 .. task.plan

\* task_state.py:26: "The ONLY transitions the code allows", for a task that
\* stays the current one, until a turn saves an object of the past or a write
\* of the file fails.
OnlyTableMoves ==
    [][ \/ overwritten' \/ fileFailed
        \/ current = NoTask \/ current' = NoTask
        \/ Task.task # Task'.task \/ Task'.stage = Task.stage
        \/ Task'.stage \in ALLOWED_TRANSITIONS[Task.stage] ]_vars
=============================================================================
