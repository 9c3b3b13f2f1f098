-------------------------- MODULE LifecycleService --------------------------
(***************************************************************************)
(* The Day 15 service (src/app/services/day15/service.py) around the pure  *)
(* machine of module Lifecycle: one current task, kept in memory as a      *)
(* Python object and saved as a JSON file after every operation.           *)
(*                                                                         *)
(* The server is one process with one event loop, so a handler runs        *)
(* without interruption between two awaits.  Each HTTP request occupies a  *)
(* slot of Requests; a handler that calls the model stops at its await,    *)
(* and the slot remembers which await it is and what the code keeps across *)
(* it.  With one slot requests come one after the other; with more of them *)
(* other requests run while one waits.                                     *)
(*                                                                         *)
(* Task objects are modelled with their identity, because prepare_plan     *)
(* keeps the OBJECT it read before its await and mutates it afterwards,    *)
(* while a transition in between replaces the current object by a copy.    *)
(***************************************************************************)
EXTENDS Lifecycle, FiniteSets, Sequences

CONSTANTS Requests,    \* the requests the server may have in hand at once
          Objs,        \* identities of task objects in memory
          NoObj,       \* self._state is None
          DiskFaults,  \* whether a save or an unlink may fail (store.py swallows it)
          MaxTasks,    \* bound: tasks ever created
          MaxHist,     \* bound: history length at which no new request comes in
          MaxResults   \* bound: execution results ever produced

ASSUME ServiceAssumption ==
    /\ IsFiniteSet(Requests) /\ IsFiniteSet(Objs)
    /\ Cardinality(Objs) >= Cardinality(Requests) + 2
    /\ NoObj \notin Objs
    /\ DiskFaults \in BOOLEAN
    /\ MaxTasks \in Nat /\ MaxHist \in Nat /\ MaxResults \in Nat

VARIABLES heap,     \* heap[o]: the task in object o, NoTask if o is not in use
          cur,      \* self._state: the object of the current task, or NoObj
          disk,     \* the task in the JSON file, or NoTask
          reqs,     \* where each request is
          issued,   \* tasks created so far; the id of the latest one
          works     \* execution results produced so far

vars == <<heap, cur, disk, reqs, issued, works>>

\* request_plan_changes and revise_plan differ in wording only: rollback.
\* unrecognised is a failed recognition, reported and not answered.
Intents == {"continue_planning", "approve_plan", "rollback", "start_execution",
            "request_validation", "validation_passed", "validation_failed",
            "complete_task", "pause", "resume", "normal_message", "unrecognised"}

\* idle: no request.  plan: in prepare_plan, holding obj.  intent: recognising
\* the intent.  work, judge, answer: in the execution, validation, answer call;
\* judge has sent the result seen to the model.
Request == [at: {"idle", "plan", "intent", "work", "judge", "answer"},
            obj: Objs \cup {NoObj}, seen: Nat]

Idle == [at |-> "idle", obj |-> NoObj, seen |-> 0]

Init ==
    /\ heap = [o \in Objs |-> NoTask]
    /\ cur = NoObj
    /\ disk = NoTask
    /\ reqs = [r \in Requests |-> Idle]
    /\ issued = 0
    /\ works = 0

----------------------------------------------------------------------------
(* New tasks.                                                              *)

Created(id) ==
    LET t == [id |-> id, state |-> "planning", step |-> 1, plan |-> NoPlan,
              approved |-> FALSE, verdict |-> "none", paused |-> FALSE,
              prev |-> "none", expected |-> [of |-> "planning", plan |-> NoPlan, step |-> 0],
              result |-> 0, hist |-> 0, last |-> "none",
              consent |-> NoPlan, verdictOf |-> 0]
    IN  [t EXCEPT !.expected = ExpectedFor(t)]

\* The demo scenarios; a scenario that starts past approval counts as approved.
Scenarios == {"happy_path", "skip_validation", "failed_validation"}

Seeded(name, id) ==
    LET t == CASE name = "happy_path" ->
                    [Created(id) EXCEPT !.plan = DefaultPlan]
               [] name = "skip_validation" ->
                    [Created(id) EXCEPT !.plan = DefaultPlan, !.state = "execution",
                       !.approved = TRUE, !.consent = DefaultPlan, !.step = 2,
                       !.hist = 2, !.last = "allowed"]
               [] name = "failed_validation" ->
                    [Created(id) EXCEPT !.plan = DefaultPlan, !.state = "validation",
                       !.approved = TRUE, !.consent = DefaultPlan,
                       !.step = PlanLen[DefaultPlan], !.verdict = "fail",
                       !.hist = 4, !.last = "blocked"]
    IN  [t EXCEPT !.expected = ExpectedFor(t)]

----------------------------------------------------------------------------
(* What an operation does to the task t it is given.  In-place operations  *)
(* return the task; an attempted transition also makes a new object.       *)

ApprovePlan(t) ==
    IF t.state = "plan_approval"
    THEN Record([t EXCEPT !.approved = TRUE, !.consent = t.plan], TRUE)
    ELSE Record(t, FALSE)

\* of is the result that was judged.
SetValidation(t, passed, of) ==
    IF t.state = "validation"
    THEN Record([t EXCEPT !.verdict = IF passed THEN "pass" ELSE "fail",
                          !.verdictOf = of], TRUE)
    ELSE Record(t, FALSE)

Pause(t) ==
    IF t.paused \/ t.state = "done"
    THEN Record(t, FALSE)
    ELSE Record([t EXCEPT !.paused = TRUE, !.prev = t.state], TRUE)

\* Mutant: resuming forgets to clear previous_state.
ResumeKeepingPrevious(t) ==
    LET u == [t EXCEPT !.state = IF t.prev = "none" THEN t.state ELSE t.prev,
                       !.paused = FALSE]
    IN  IF t.paused
        THEN Record([u EXCEPT !.expected = ExpectedFor(u)], TRUE)
        ELSE Record(t, FALSE)

Resume(t) ==
    LET u == [t EXCEPT !.state = IF t.prev = "none" THEN t.state ELSE t.prev,
                       !.paused = FALSE, !.prev = "none"]
    IN  IF t.paused
        THEN Record([u EXCEPT !.expected = ExpectedFor(u)], TRUE)
        ELSE Record(t, FALSE)

\* Mutant: the result is stored but the expected action is not recomputed.
WorkedStale(t, res) ==
    [t EXCEPT !.result = res,
              !.step = IF t.plan = NoPlan THEN @ ELSE PlanLen[t.plan]]

Worked(t, res) ==
    LET u == [t EXCEPT !.result = res,
                       !.step = IF t.plan = NoPlan THEN @ ELSE PlanLen[t.plan]]
    IN  [u EXCEPT !.expected = ExpectedFor(u)]

(* The effect of a handler between two awaits: old is what it leaves in    *)
(* the object it was given, new the copy that machine.apply made (NoTask   *)
(* if there was none), saved the tasks it gave to _save, one after another.*)

Moved(e) == e.new # NoTask
Final(e) == IF Moved(e) THEN e.new ELSE e.old

InPlace(t) == [old |-> t, new |-> NoTask, saved |-> <<t>>]
Untouched(t) == [old |-> t, new |-> NoTask, saved |-> <<>>]

\* Mutant: the copy is made before the attempt is recorded, and both are saved.
AttemptRecordedLate(t, target, before) ==
    LET ok == Evaluate(t, target)
        u  == Record(t, ok)
        n  == IF ok THEN Apply(t, target) ELSE NoTask
    IN  [old |-> u, new |-> n, saved |-> before \o IF ok THEN <<u, n>> ELSE <<u>>]

\* Mutant: only an allowed attempt is saved.
AttemptSavedIfAllowed(t, target, before) ==
    LET ok == Evaluate(t, target)
        u  == Record(t, ok)
        n  == IF ok THEN Apply(u, target) ELSE NoTask
    IN  [old |-> u, new |-> n, saved |-> IF ok THEN Append(before, n) ELSE before]

\* An allowed attempt saves the copy, a blocked one the task with its record.
Attempt(t, target, before) ==
    LET ok == Evaluate(t, target)
        u  == Record(t, ok)
        n  == IF ok THEN Apply(u, target) ELSE NoTask
    IN  [old |-> u, new |-> n, saved |-> Append(before, IF ok THEN n ELSE u)]

\* prepare_plan after its await: the plan is stored before the machine decides.
PlanStored(t, p) ==
    Attempt([t EXCEPT !.plan = p, !.step = 1], "plan_approval", <<>>)

JudgedBy(t, passed, of) ==
    LET v == SetValidation(t, passed, of)
    IN  Attempt(v, IF passed THEN "done" ELSE "execution", <<v>>)

ApproveAndStart(t) ==
    LET a == ApprovePlan(t)
    IN  Attempt(a, "execution", <<a>>)

RunApprove(t) ==
    IF t.state = "plan_approval" THEN ApproveAndStart(t) ELSE InPlace(ApprovePlan(t))

\* A plan not approved yet is approved on the way.
RunStartExecution(t) ==
    IF t.state = "execution" THEN Untouched(t)
    ELSE IF t.state = "plan_approval" /\ ~t.approved
         THEN ApproveAndStart(t)
         ELSE Attempt(t, "execution", <<>>)

RunRequestValidation(t) ==
    IF t.state = "validation" THEN Untouched(t) ELSE Attempt(t, "validation", <<>>)

RunValidationFlag(t, passed) ==
    IF t.state = "validation" THEN JudgedBy(t, passed, t.result)
                              ELSE InPlace(SetValidation(t, passed, t.result))

RunPlanningStage(t) ==
    IF t.state = "planning" THEN Untouched(t) ELSE InPlace(Record(t, FALSE))

Intended(intent, t) ==
    CASE intent = "approve_plan"       -> RunApprove(t)
      [] intent = "rollback"           -> Attempt(t, "planning", <<>>)
      [] intent = "start_execution"    -> RunStartExecution(t)
      [] intent = "request_validation" -> RunRequestValidation(t)
      [] intent = "validation_passed"  -> RunValidationFlag(t, TRUE)
      [] intent = "validation_failed"  -> RunValidationFlag(t, FALSE)
      [] intent = "complete_task"      -> Attempt(t, "done", <<>>)
      [] intent = "pause"              -> InPlace(Pause(t))
      [] intent = "resume"             -> InPlace(Resume(t))
      [] intent = "continue_planning"  -> RunPlanningStage(t)
      [] intent \in {"normal_message", "unrecognised"} -> Untouched(t)

\* The effect e within a chat turn: what was said before it, and the trace that
\* ends the turn, go to the journal, with which the task is saved (_emit).
InTurn(said, e, at) ==
    LET saved == said \o e.saved
    IN  [old |-> e.old, new |-> e.new,
         saved |-> IF at = "idle" THEN Append(saved, Final(e)) ELSE saved]

\* The await that follows intent when it had effect e on task t.  Only a plan
\* request and a plain answer call the model when the intent was forced.
NextAwait(intent, t, e, auto) ==
    LET u == Final(e)
    IN  CASE intent = "normal_message" -> "answer"
          [] intent = "continue_planning" /\ t.state = "planning" -> "plan"
          [] auto /\ intent = "rollback" /\ Moved(e) -> "plan"
          [] auto /\ intent = "resume" /\ t.paused /\ u.state = "planning" -> "plan"
          [] auto /\ intent \in {"approve_plan", "start_execution"} /\ Moved(e) -> "work"
          [] auto /\ intent = "start_execution" /\ t.state = "execution" /\ ~t.paused -> "work"
          [] auto /\ intent = "resume" /\ t.paused /\ u.state = "execution" /\ u.result = 0 -> "work"
          [] auto /\ intent = "request_validation" /\ u.state = "validation" -> "judge"
          [] OTHER -> "idle"

----------------------------------------------------------------------------
(* Storing the outcome.                                                    *)

Refs(rs) == {rs[r].obj : r \in Requests}
Unused == Objs \ (Refs(reqs) \cup {cur})

\* A save writes the whole task and replaces the file; one that fails leaves
\* the file as it was.  Without faults it holds what was saved last, if anything.
Saves(saved) ==
    IF DiskFaults
    THEN \/ UNCHANGED disk
         \/ \E i \in DOMAIN saved : disk' = saved[i]
    ELSE disk' = IF saved = <<>> THEN disk ELSE saved[Len(saved)]

\* Request r goes on to the await at (or ends); c is the current object.
\* Objects that nothing refers to any more are freed.
Place(r, h, c, at, saved) ==
    LET q  == [at |-> at, obj |-> IF at = "plan" THEN c ELSE NoObj,
               seen |-> IF at = "judge" THEN h[c].result ELSE 0]
        rs == [reqs EXCEPT ![r] = q]
    IN  /\ reqs' = rs
        /\ cur' = c
        /\ heap' = [x \in Objs |-> IF x = c \/ x \in Refs(rs) THEN h[x] ELSE NoTask]
        /\ Saves(saved)

\* Mutant: a transition changes the object in place, no copy is made.
SettleInPlace(r, o, e, at) ==
    Place(r, [heap EXCEPT ![o] = Final(e)], o, at, e.saved)

\* The effect e on object o.  _save makes the object, or the copy of it, the
\* current one; a handler that saves nothing leaves the current one as it is.
Settle(r, o, e, at) ==
    \E n \in Unused :
        LET x == IF Moved(e) THEN n ELSE o
            c == IF e.saved = <<>> THEN cur ELSE x
        IN  Place(r, [heap EXCEPT ![o] = e.old, ![x] = Final(e)], c, at, e.saved)

Install(r, t, at) ==
    \E n \in Unused : Place(r, [heap EXCEPT ![n] = t], n, at, <<t>>)

----------------------------------------------------------------------------
(* The endpoints (api/routes.py).  A request comes to a free slot; without *)
(* a task every endpoint but those that create one answers 404.            *)

Arrives(r) ==
    /\ reqs[r].at = "idle"
    /\ cur # NoObj
    /\ heap[cur].hist < MaxHist

CreateTask(r) ==
    /\ reqs[r].at = "idle"
    /\ issued < MaxTasks
    /\ issued' = issued + 1
    /\ Install(r, Created(issued'), "idle")
    /\ UNCHANGED works

\* POST /start: create the task and go on to the planning call.
StartTask(r) ==
    /\ reqs[r].at = "idle"
    /\ issued < MaxTasks
    /\ issued' = issued + 1
    /\ Install(r, Created(issued'), "plan")
    /\ UNCHANGED works

SetupScenario(r, name) ==
    /\ reqs[r].at = "idle"
    /\ issued < MaxTasks
    /\ issued' = issued + 1
    /\ Install(r, Seeded(name, issued'), "idle")
    /\ UNCHANGED works

ResetTask(r) ==
    /\ reqs[r].at = "idle"
    /\ cur' = NoObj
    /\ heap' = [x \in Objs |-> IF x \in Refs(reqs) THEN heap[x] ELSE NoTask]
    /\ disk' \in IF DiskFaults THEN {disk, NoTask} ELSE {NoTask}
    /\ UNCHANGED <<reqs, issued, works>>

PreparePlan(r) ==
    /\ Arrives(r)
    /\ LET t == heap[cur]
       IN  IF t.state = "planning"
           THEN Settle(r, cur, Untouched(t), "plan")
           ELSE Settle(r, cur, InPlace(Record(t, FALSE)), "idle")
    /\ UNCHANGED <<issued, works>>

Approve(r) ==
    /\ Arrives(r)
    /\ Settle(r, cur, InPlace(ApprovePlan(heap[cur])), "idle")
    /\ UNCHANGED <<issued, works>>

Validate(r, passed) ==
    /\ Arrives(r)
    /\ Settle(r, cur, InPlace(SetValidation(heap[cur], passed, heap[cur].result)), "idle")
    /\ UNCHANGED <<issued, works>>

\* POST /transition, and POST /chat with a proposed transition.
Transition(r, target) ==
    /\ Arrives(r)
    /\ Settle(r, cur, Attempt(heap[cur], target, <<>>), "idle")
    /\ UNCHANGED <<issued, works>>

PauseTask(r) ==
    /\ Arrives(r)
    /\ Settle(r, cur, InPlace(Pause(heap[cur])), "idle")
    /\ UNCHANGED <<issued, works>>

ResumeTask(r) ==
    /\ Arrives(r)
    /\ Settle(r, cur, InPlace(Resume(heap[cur])), "idle")
    /\ UNCHANGED <<issued, works>>

\* POST /chat: the message goes to the journal, then its intent is recognised.
Converse(r) ==
    /\ Arrives(r)
    /\ Settle(r, cur, InPlace(heap[cur]), "intent")
    /\ UNCHANGED <<issued, works>>

\* POST /chat with a forced intent: no recognition, and no work afterwards.
ForcedIntent(r, intent) ==
    /\ Arrives(r)
    /\ LET t == heap[cur]
           e == Intended(intent, t)
           at == NextAwait(intent, t, e, FALSE)
       IN  Settle(r, cur, InTurn(<<t>>, e, at), at)
    /\ UNCHANGED <<issued, works>>

----------------------------------------------------------------------------
(* The continuations after an await.                                       *)

\* The task was reset during the await: _require answers 404.
Gone(r, at) ==
    /\ reqs[r].at = at
    /\ cur = NoObj
    /\ reqs' = [reqs EXCEPT ![r] = Idle]
    /\ UNCHANGED <<heap, cur, disk, issued, works>>

IntentRecognised(r, intent) ==
    /\ reqs[r].at = "intent"
    /\ cur # NoObj
    /\ LET t == heap[cur]
           e == Intended(intent, t)
           at == NextAwait(intent, t, e, TRUE)
       IN  Settle(r, cur, InTurn(<<>>, e, at), at)
    /\ UNCHANGED <<issued, works>>

\* Works on the object held since before the await and makes it (or its copy)
\* the current one, whatever the current one is by now.
PlanReady(r, p) ==
    /\ reqs[r].at = "plan"
    /\ LET o == reqs[r].obj
       IN  Settle(r, o, PlanStored(heap[o], p), "idle")
    /\ UNCHANGED <<issued, works>>

\* Reads the current task again, but not its state.
WorkDone(r) ==
    /\ reqs[r].at = "work"
    /\ cur # NoObj
    /\ works < MaxResults
    /\ works' = works + 1
    /\ Settle(r, cur, InPlace(Worked(heap[cur], works')), "idle")
    /\ UNCHANGED issued

\* The verdict is recorded and then the transition it calls for is attempted,
\* also when recording it was refused.
VerdictReady(r, passed) ==
    /\ reqs[r].at = "judge"
    /\ cur # NoObj
    /\ Settle(r, cur, JudgedBy(heap[cur], passed, reqs[r].seen), "idle")
    /\ UNCHANGED <<issued, works>>

AnswerReady(r) ==
    /\ reqs[r].at = "answer"
    /\ cur # NoObj
    /\ Settle(r, cur, InPlace(heap[cur]), "idle")
    /\ UNCHANGED <<issued, works>>

\* Mutant: a missing file yields a task.
LoadUnchecked(n, d) ==
    /\ cur' = n
    /\ heap' = [x \in Objs |-> IF x = n THEN d ELSE NoTask]

Load(n, d) ==
    /\ cur' = IF d = NoTask THEN NoObj ELSE n
    /\ heap' = [x \in Objs |-> IF x = n THEN d ELSE NoTask]

\* The process dies and starts again: requests are lost, the file is loaded.
\* A death between two saves of one handler is a step whose later saves fail,
\* and then this one.
Restart ==
    /\ \E n \in Objs : Load(n, disk)
    /\ reqs' = [r \in Requests |-> Idle]
    /\ UNCHANGED <<disk, issued, works>>

Next ==
    \/ \E r \in Requests :
          \/ CreateTask(r) \/ StartTask(r) \/ ResetTask(r)
          \/ \E name \in Scenarios : SetupScenario(r, name)
          \/ PreparePlan(r) \/ Approve(r) \/ PauseTask(r) \/ ResumeTask(r)
          \/ \E passed \in BOOLEAN : Validate(r, passed) \/ VerdictReady(r, passed)
          \/ \E target \in STATES : Transition(r, target)
          \/ Converse(r)
          \/ \E intent \in Intents : ForcedIntent(r, intent) \/ IntentRecognised(r, intent)
          \/ \E p \in Plans : PlanReady(r, p)
          \/ WorkDone(r) \/ AnswerReady(r)
          \/ \E at \in {"intent", "work", "judge", "answer"} : Gone(r, at)
    \/ Restart

Spec == Init /\ [][Next]_vars

----------------------------------------------------------------------------
(* What the service promises of every task it knows: those in memory, also *)
(* the ones only a waiting request still holds, and the one on disk.       *)

Known == ({heap[o] : o \in Objs} \cup {disk}) \ {NoTask}

TypeOK ==
    /\ heap \in [Objs -> Task \cup {NoTask}]
    /\ cur \in Objs \cup {NoObj}
    /\ cur # NoObj => heap[cur] # NoTask
    /\ disk \in Task \cup {NoTask}
    /\ reqs \in [Requests -> Request]
    /\ issued \in Nat
    /\ works \in Nat

\* A task is past approval only with a plan the user approved, and that plan is
\* still the one it has: no interleaving of planning, approval and rollback puts
\* a plan nobody saw into execution (service.py header; guard_plan_approved).
Consented(t) ==
    /\ t.state = "planning" => ~t.approved
    /\ t.state # "planning" => t.plan # NoPlan
    /\ t.state \in {"execution", "validation", "done"} => t.approved
    /\ t.approved => t.consent = t.plan
ApprovedPlanOnly == \A t \in Known : Consented(t)

\* A finished task passed its validation and is not paused, so it can neither be
\* finished by skipping validation nor be frozen afterwards (guard_validation_passed, pause).
Finished(t) == t.state = "done" => t.verdict = "pass" /\ ~t.paused
DoneWasValidated == \A t \in Known : Finished(t)

\* previous_state is set exactly while the task is paused, and is then the state
\* the task still has: resume never moves it (service.py:819-821).
Preserved(t) == t.prev = IF t.paused THEN t.state ELSE "none"
PausePreserves == \A t \in Known : Preserved(t)

\* The expected action shown to the user is the one for the task's state, plan
\* and step, although four different handlers maintain it (expected_action_for).
ExpectedFresh == \A t \in Known : t.expected = ExpectedFor(t)

\* A planning call that is waiting holds a task in planning: nothing that happens
\* in the meantime changes that object's state in place.
PlanningHeld ==
    \A r \in Requests :
        reqs[r].at = "plan" =>
            /\ reqs[r].obj \in Objs
            /\ heap[reqs[r].obj] # NoTask
            /\ heap[reqs[r].obj].state = "planning"

\* If saves do not fail, the file holds the current task, with all its records,
\* whenever a handler waits or has ended: each one saves what it changed after
\* the last change, and a late planning call that saves an object of the past
\* makes it the current one, too (_save).
DiskIsMemory == disk = IF cur = NoObj THEN NoTask ELSE heap[cur]

\* A verdict that unlocks or unlocked DONE is about the result the task has, not
\* about an earlier one (Day15TaskState.execution_result, apply).
VerdictIsForResult ==
    cur # NoObj =>
        LET t == heap[cur]
        IN  t.state \in {"validation", "done"} /\ t.verdict = "pass"
              => t.verdictOf = t.result

\* With disk faults the file may lag behind the current task but holds nothing
\* that the memory does not have: a restart loads an earlier moment of the task,
\* or an earlier task, and never a history that was not recorded (transition:
\* the record is appended before the copy is made and saved).
FileLagsMemory ==
    disk # NoTask /\ cur # NoObj =>
        /\ disk.id <= heap[cur].id
        /\ disk.id = heap[cur].id => disk.hist <= heap[cur].hist

----------------------------------------------------------------------------
(* What a step may do.                                                     *)

SameTask == cur # NoObj /\ cur' # NoObj /\ heap'[cur'].id = heap[cur].id

\* The current task changes state along the table only (lifecycle.py:47).
OnlyTableMoves ==
    [][SameTask => \/ heap'[cur'].state = heap[cur].state
                   \/ heap'[cur'].state \in ALLOWED_TRANSITIONS[heap[cur].state]]_vars

\* A blocked attempt "is written to the history but never mutates state,
\* current_step or expected_action" (service.py:18-19).  A planning call that
\* was paused meanwhile has set the step before the machine blocks it.
BlockedKeepsStep ==
    [][~Restart => \A o \in Objs :
          LET t == heap[o]  u == heap'[o]
          IN  t # NoTask /\ u # NoTask /\ u.id = t.id /\ u.hist = t.hist + 1 /\ u.last = "blocked"
                  => u.state = t.state /\ u.step = t.step /\ u.expected = t.expected]_vars

\* The history of a task never loses a record (service.py:16-18).
HistoryGrows ==
    [][SameTask => heap'[cur'].hist >= heap[cur].hist]_vars

\* A task other than the current one becomes current only by being created: a
\* replaced or deleted task does not come back (store.py:8-9).
OnlyNewTasksAppear ==
    [][cur' # NoObj /\ ~SameTask => issued' = issued + 1 /\ heap'[cur'].id = issued']_vars

\* What was recorded stays recorded: of the task at work, and of those before it.
HistoryIsKept == HistoryGrows /\ OnlyNewTasksAppear

\* With one request at a time the service implements TaskLifecycle.
NoneOr(v, none) == IF cur = NoObj THEN none ELSE v
Abstract ==
    INSTANCE TaskLifecycle WITH
        phase     <- NoneOr(heap[cur].state, "none"),
        consented <- NoneOr(heap[cur].approved, FALSE),
        verdict   <- NoneOr(heap[cur].verdict, "none"),
        held      <- NoneOr(heap[cur].paused, FALSE)
ImplementsTaskLifecycle == Abstract!ASpec
============================================================================
