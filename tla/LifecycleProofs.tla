-------------------------- MODULE LifecycleProofs ---------------------------
(***************************************************************************)
(* The safety of LifecycleService for every set of plans, requests and     *)
(* objects, with and without disk faults: any number of requests may be    *)
(* waiting for the model at once.                                          *)
(*                                                                         *)
(* The argument has three layers.  Every operation of the machine and of   *)
(* the service keeps a task Sound and leaves the object it was given in    *)
(* the state it had, and whatever it gives to _save is sound and ends with *)
(* the outcome (EffectOK).  Storing such an effect keeps every known task  *)
(* sound, every held planning object in planning, and the file equal to    *)
(* the current task if no save fails (PlaceKeepsIInv, PlaceKeepsFile).     *)
(* So every handler keeps IInv, and the file.                              *)
(*                                                                         *)
(* The second half is about one request at a time, which verdicts, the     *)
(* history and TaskLifecycle need.  There every effect is also legal       *)
(* (LegalEffect: it keeps the task's id, history and verdict honest, and   *)
(* is a step of TaskLifecycle), a waiting request still knows what it knew *)
(* (Awaited), and so SInv is kept and every step maps to an abstract one.  *)
(***************************************************************************)
EXTENDS LifecycleService, TLAPS

Sound(t) ==
    /\ t \in Task
    /\ Consented(t)
    /\ Finished(t)
    /\ Preserved(t)
    /\ t.expected = ExpectedFor(t)

IInv ==
    /\ TypeOK
    /\ \A t \in Known : Sound(t)
    /\ PlanningHeld

SoundTasks == {t \in Task : Sound(t)}

\* The last task a handler saves is its outcome; one that saves none has changed
\* nothing.
SavesOutcome(e, t) ==
    IF e.saved = <<>> THEN ~Moved(e) /\ e.old = t
                      ELSE e.saved[Len(e.saved)] = Final(e)

EffectOK(e, t) ==
    /\ Sound(e.old)
    /\ e.old.state = t.state
    /\ e.new # NoTask => Sound(e.new)
    /\ e.saved \in Seq(SoundTasks)
    /\ SavesOutcome(e, t)

\* A step leaves the current task in the file if it was there and no save fails.
FileKept == ~DiskFaults /\ DiskIsMemory => DiskIsMemory'

----------------------------------------------------------------------------
(* Operations on one task.                                                 *)

\* The expected action has its type, whatever the state and the step.
LEMMA ExpectedType ==
    ASSUME NEW t, t.state \in STATES, t.plan \in Plans \cup {NoPlan}, t.step \in Nat
    PROVE  ExpectedFor(t) \in [of: STATES, plan: Plans \cup {NoPlan}, step: Nat]
BY PlansAssumption DEF ExpectedFor, Clamp

\* Soundness depends on some of the fields only.
LEMMA SameFieldsSound ==
    ASSUME NEW t, Sound(t), NEW u \in Task,
           u.state = t.state, u.step = t.step, u.plan = t.plan,
           u.approved = t.approved, u.verdict = t.verdict, u.paused = t.paused,
           u.prev = t.prev, u.expected = t.expected, u.consent = t.consent
    PROVE  Sound(u)
BY DEF Sound, Consented, Finished, Preserved, ExpectedFor

\* Every handler that recomputes the expected action ends with a sound task,
\* if the task was sound but for that field.
LEMMA ExpectedSound ==
    ASSUME NEW u \in Task, Consented(u), Finished(u), Preserved(u)
    PROVE  /\ Sound([u EXCEPT !.expected = ExpectedFor(u)])
           /\ [u EXCEPT !.expected = ExpectedFor(u)].state = u.state
<1> DEFINE v == [u EXCEPT !.expected = ExpectedFor(u)]
<1>1. ExpectedFor(u) \in [of: STATES, plan: Plans \cup {NoPlan}, step: Nat]
  BY ExpectedType DEF Task
<1>2. v \in Task BY <1>1 DEF Task
<1>3. /\ v.state = u.state /\ v.step = u.step /\ v.plan = u.plan
      /\ v.approved = u.approved /\ v.verdict = u.verdict /\ v.paused = u.paused
      /\ v.prev = u.prev /\ v.expected = ExpectedFor(u) /\ v.consent = u.consent
  BY DEF Task
<1> HIDE DEF v
<1>4. Sound(v)
  BY <1>2, <1>3 DEF Sound, Consented, Finished, Preserved, ExpectedFor
<1> QED BY <1>3, <1>4 DEF v

\* Recording an attempt changes nothing that soundness is about.
LEMMA RecordSound ==
    ASSUME NEW t, Sound(t), NEW ok \in BOOLEAN
    PROVE  Sound(Record(t, ok)) /\ Record(t, ok).state = t.state
<1>1. t \in Task BY DEF Sound
<1> DEFINE u == Record(t, ok)
<1>2. u \in Task
  <2>1. t.hist + 1 \in Nat BY <1>1 DEF Task
  <2>2. (IF ok THEN "allowed" ELSE "blocked") \in {"none", "allowed", "blocked"}
    OBVIOUS
  <2> QED BY <1>1, <2>1, <2>2, Zenon DEF Record, Task
<1>3. /\ u.state = t.state /\ u.step = t.step /\ u.plan = t.plan
      /\ u.approved = t.approved /\ u.verdict = t.verdict /\ u.paused = t.paused
      /\ u.prev = t.prev /\ u.expected = t.expected /\ u.consent = t.consent
  BY <1>1 DEF Record, Task
<1> HIDE DEF u
<1>4. Sound(u) BY <1>2, <1>3, SameFieldsSound
<1> QED BY <1>3, <1>4 DEF u

\* A transition that the machine allows makes a sound copy.
LEMMA ApplySound ==
    ASSUME NEW t, Sound(t), NEW target \in STATES, Evaluate(t, target)
    PROVE  Sound(Apply(t, target))
<1> DEFINE u == [t EXCEPT !.state = target,
                          !.approved = IF target = "planning" THEN FALSE ELSE @,
                          !.verdict = IF target = "validation" THEN "none" ELSE @,
                          !.prev = "none"]
<1>1. t \in Task BY DEF Sound
<1>2. u \in Task
  <2>1. (IF target = "planning" THEN FALSE ELSE t.approved) \in BOOLEAN
    BY <1>1 DEF Task
  <2>2. (IF target = "validation" THEN "none" ELSE t.verdict) \in Verdicts
    BY <1>1 DEF Task, Verdicts
  <2>3. "none" \in STATES \cup {"none"} OBVIOUS
  <2> QED BY <1>1, <2>1, <2>2, <2>3, Zenon DEF Task
<1>3. /\ u.state = target /\ u.plan = t.plan /\ u.consent = t.consent
      /\ u.approved = (IF target = "planning" THEN FALSE ELSE t.approved)
      /\ u.verdict = (IF target = "validation" THEN "none" ELSE t.verdict)
      /\ u.paused = t.paused /\ u.prev = "none"
  BY <1>1 DEF Task
<1>4. Apply(t, target) = [u EXCEPT !.expected = ExpectedFor(u)] BY DEF Apply
<1> HIDE DEF u
<1>5. t.state \in STATES /\ t.paused = FALSE /\ target \in ALLOWED_TRANSITIONS[t.state]
  BY <1>1 DEF Evaluate, Task
<1>6. Consented(u)
  BY <1>1, <1>3, <1>5 DEF Sound, Consented, Evaluate, Guard, ALLOWED_TRANSITIONS, STATES
<1>7. Finished(u)
  BY <1>1, <1>3, <1>5 DEF Finished, Evaluate, Guard, ALLOWED_TRANSITIONS, STATES
<1>8. Preserved(u) BY <1>3, <1>5 DEF Preserved
<1> QED BY <1>2, <1>4, <1>6, <1>7, <1>8, ExpectedSound

\* A new task, plain or seeded by a scenario, is sound; a plain one is in planning.
LEMMA CreatedSound ==
    ASSUME NEW id \in Nat
    PROVE  Sound(Created(id)) /\ Created(id).state = "planning"
<1> DEFINE t == [id |-> id, state |-> "planning", step |-> 1, plan |-> NoPlan,
                 approved |-> FALSE, verdict |-> "none", paused |-> FALSE,
                 prev |-> "none", expected |-> [of |-> "planning", plan |-> NoPlan, step |-> 0],
                 result |-> 0, hist |-> 0, last |-> "none",
                 consent |-> NoPlan, verdictOf |-> 0]
<1>1. t \in Task BY DEF Task, STATES, Verdicts
<1>2. Consented(t) /\ Finished(t) /\ Preserved(t)
  BY DEF Consented, Finished, Preserved
<1>3. Created(id) = [t EXCEPT !.expected = ExpectedFor(t)] BY DEF Created
<1>4. t.state = "planning" OBVIOUS
<1> HIDE DEF t
<1> QED BY <1>1, <1>2, <1>3, <1>4, ExpectedSound

LEMMA SeededSound ==
    ASSUME NEW id \in Nat, NEW name \in Scenarios
    PROVE  Sound(Seeded(name, id))
<1> DEFINE c == Created(id)
           t1 == [c EXCEPT !.plan = DefaultPlan]
           t2 == [c EXCEPT !.plan = DefaultPlan, !.state = "execution",
                           !.approved = TRUE, !.consent = DefaultPlan, !.step = 2,
                           !.hist = 2, !.last = "allowed"]
           t3 == [c EXCEPT !.plan = DefaultPlan, !.state = "validation",
                           !.approved = TRUE, !.consent = DefaultPlan,
                           !.step = PlanLen[DefaultPlan], !.verdict = "fail",
                           !.hist = 4, !.last = "blocked"]
<1>1. c \in Task /\ Sound(c) /\ c.state = "planning" BY CreatedSound DEF Sound
<1>2. DefaultPlan \in Plans /\ DefaultPlan # NoPlan /\ PlanLen[DefaultPlan] \in Nat
  BY PlansAssumption
<1>3. c.paused = FALSE /\ c.prev = "none"
  BY DEF Created
<1> HIDE DEF c
<1>4. t1 \in Task /\ t2 \in Task /\ t3 \in Task
  <2>1. /\ DefaultPlan \in Plans \cup {NoPlan} /\ 2 \in Nat /\ 4 \in Nat /\ TRUE \in BOOLEAN
        /\ "execution" \in STATES /\ "validation" \in STATES /\ "fail" \in Verdicts
        /\ "allowed" \in {"none", "allowed", "blocked"}
        /\ "blocked" \in {"none", "allowed", "blocked"}
    BY <1>2 DEF STATES, Verdicts
  <2> QED BY <1>1, <1>2, <2>1, Zenon DEF Task
<1>5. Consented(t1) /\ Finished(t1) /\ Preserved(t1)
  BY <1>1, <1>2 DEF Sound, Task, Consented, Finished, Preserved
<1>6. /\ t2.state = "execution" /\ t2.approved = TRUE /\ t2.plan = DefaultPlan
      /\ t2.consent = DefaultPlan /\ t2.paused = FALSE /\ t2.prev = "none"
  BY <1>1, <1>3 DEF Task
<1>7. /\ t3.state = "validation" /\ t3.approved = TRUE /\ t3.plan = DefaultPlan
      /\ t3.consent = DefaultPlan /\ t3.paused = FALSE /\ t3.prev = "none"
  BY <1>1, <1>3 DEF Task
<1>8. \E t \in {t1, t2, t3} : Seeded(name, id) = [t EXCEPT !.expected = ExpectedFor(t)]
  BY DEF Seeded, Scenarios, c
<1> HIDE DEF t1, t2, t3
<1>9. \A t \in {t1, t2, t3} : Consented(t) /\ Finished(t) /\ Preserved(t)
  BY <1>2, <1>5, <1>6, <1>7 DEF Consented, Finished, Preserved
<1> QED BY <1>4, <1>8, <1>9, ExpectedSound

\* The in-place operations keep a task sound and leave it in its state.
LEMMA ApprovePlanSound ==
    ASSUME NEW t, Sound(t)
    PROVE  Sound(ApprovePlan(t)) /\ ApprovePlan(t).state = t.state
<1>1. t \in Task BY DEF Sound
<1> DEFINE u == [t EXCEPT !.approved = TRUE, !.consent = t.plan]
<1>2. u \in Task BY <1>1, Zenon DEF Task
<1>3. /\ u.state = t.state /\ u.step = t.step /\ u.plan = t.plan
      /\ u.approved = TRUE /\ u.verdict = t.verdict /\ u.paused = t.paused
      /\ u.prev = t.prev /\ u.expected = t.expected /\ u.consent = t.plan
  BY <1>1 DEF Task
<1>4. ApprovePlan(t) = IF t.state = "plan_approval" THEN Record(u, TRUE) ELSE Record(t, FALSE)
  BY DEF ApprovePlan
<1> HIDE DEF u
<1>5. ASSUME t.state = "plan_approval" PROVE Sound(u)
  BY <1>2, <1>3, <1>5 DEF Sound, Consented, Finished, Preserved, ExpectedFor
<1> QED BY <1>3, <1>4, <1>5, RecordSound

LEMMA SetValidationSound ==
    ASSUME NEW t, Sound(t), NEW passed \in BOOLEAN, NEW of \in Nat
    PROVE  Sound(SetValidation(t, passed, of)) /\ SetValidation(t, passed, of).state = t.state
<1>1. t \in Task BY DEF Sound
<1> DEFINE v == IF passed THEN "pass" ELSE "fail"
           u == [t EXCEPT !.verdict = v, !.verdictOf = of]
<1>2. v \in Verdicts BY DEF Verdicts
<1>3. SetValidation(t, passed, of) = IF t.state = "validation" THEN Record(u, TRUE) ELSE Record(t, FALSE)
  BY DEF SetValidation
<1> HIDE DEF v
<1>4. u \in Task BY <1>1, <1>2, Zenon DEF Task
<1>5. /\ u.state = t.state /\ u.step = t.step /\ u.plan = t.plan
      /\ u.approved = t.approved /\ u.paused = t.paused
      /\ u.prev = t.prev /\ u.expected = t.expected /\ u.consent = t.consent
  BY <1>1 DEF Task
<1> HIDE DEF u
<1>6. ASSUME t.state = "validation" PROVE Sound(u)
  BY <1>4, <1>5, <1>6 DEF Sound, Consented, Finished, Preserved, ExpectedFor
<1> QED BY <1>3, <1>5, <1>6, RecordSound

LEMMA PauseSound ==
    ASSUME NEW t, Sound(t)
    PROVE  Sound(Pause(t)) /\ Pause(t).state = t.state
<1>1. t \in Task BY DEF Sound
<1> DEFINE u == [t EXCEPT !.paused = TRUE, !.prev = t.state]
<1>2. u \in Task
  <2>1. t.state \in STATES \cup {"none"} BY <1>1 DEF Task
  <2> QED BY <1>1, <2>1, Zenon DEF Task
<1>3. /\ u.state = t.state /\ u.step = t.step /\ u.plan = t.plan
      /\ u.approved = t.approved /\ u.verdict = t.verdict /\ u.paused = TRUE
      /\ u.prev = t.state /\ u.expected = t.expected /\ u.consent = t.consent
  BY <1>1 DEF Task
<1>4. Pause(t) = IF t.paused \/ t.state = "done" THEN Record(t, FALSE) ELSE Record(u, TRUE)
  BY DEF Pause
<1> HIDE DEF u
<1>5. ASSUME t.state # "done" PROVE Sound(u)
  BY <1>2, <1>3, <1>5 DEF Sound, Consented, Finished, Preserved, ExpectedFor
<1> QED BY <1>3, <1>4, <1>5, RecordSound

\* Because a paused task is still in its previous_state, resuming does not move it.
LEMMA ResumeSound ==
    ASSUME NEW t, Sound(t)
    PROVE  Sound(Resume(t)) /\ Resume(t).state = t.state
<1>1. t \in Task BY DEF Sound
<1> DEFINE u == [t EXCEPT !.state = IF t.prev = "none" THEN t.state ELSE t.prev,
                          !.paused = FALSE, !.prev = "none"]
           v == [u EXCEPT !.expected = ExpectedFor(u)]
<1>2. (IF t.prev = "none" THEN t.state ELSE t.prev) = t.state
  BY DEF Sound, Preserved
<1>3. u \in Task
  <2>1. t.state \in STATES /\ "none" \in STATES \cup {"none"} BY <1>1 DEF Task
  <2> QED BY <1>1, <1>2, <2>1, Zenon DEF Task
<1>4. /\ u.state = t.state /\ u.plan = t.plan /\ u.approved = t.approved
      /\ u.verdict = t.verdict /\ u.paused = FALSE /\ u.prev = "none"
      /\ u.consent = t.consent
  BY <1>1, <1>2 DEF Task
<1>5. Resume(t) = IF t.paused THEN Record(v, TRUE) ELSE Record(t, FALSE)
  BY DEF Resume
<1> HIDE DEF u
<1>6. Consented(u) /\ Finished(u) /\ Preserved(u)
  BY <1>4 DEF Sound, Consented, Finished, Preserved
<1>7. Sound(v) /\ v.state = t.state BY <1>3, <1>4, <1>6, ExpectedSound
<1> QED BY <1>5, <1>7, RecordSound

LEMMA WorkedSound ==
    ASSUME NEW t, Sound(t), NEW res \in Nat
    PROVE  Sound(Worked(t, res)) /\ Worked(t, res).state = t.state
<1>1. t \in Task BY DEF Sound
<1> DEFINE s == IF t.plan = NoPlan THEN t.step ELSE PlanLen[t.plan]
           u == [t EXCEPT !.result = res, !.step = s]
<1>2. s \in Nat BY <1>1, PlansAssumption DEF Task
<1>3. Worked(t, res) = [u EXCEPT !.expected = ExpectedFor(u)] BY DEF Worked
<1> HIDE DEF s
<1>4. u \in Task BY <1>1, <1>2, Zenon DEF Task
<1>5. /\ u.state = t.state /\ u.plan = t.plan /\ u.approved = t.approved
      /\ u.verdict = t.verdict /\ u.paused = t.paused /\ u.prev = t.prev
      /\ u.consent = t.consent
  BY <1>1 DEF Task
<1> HIDE DEF u
<1>6. Consented(u) /\ Finished(u) /\ Preserved(u)
  BY <1>5 DEF Sound, Consented, Finished, Preserved
<1> QED BY <1>3, <1>4, <1>5, <1>6, ExpectedSound

----------------------------------------------------------------------------
(* Effects.                                                                *)

LEMMA NoTaskNotSound == ~Sound(NoTask)
BY NoTaskAssumption DEF Sound

LEMMA SoundIsMember == ASSUME NEW t, Sound(t) PROVE t \in SoundTasks
BY DEF SoundTasks, Sound

LEMMA NoneSaved == \A S : <<>> \in Seq(S)
OBVIOUS

LEMMA OneSaved ==
    ASSUME NEW S, NEW x \in S
    PROVE  <<x>> \in Seq(S) /\ Len(<<x>>) = 1 /\ <<x>> # <<>>
OBVIOUS

\* One more save, and the saves of a chat turn around those of the operation.
LEMMA OneMore ==
    ASSUME NEW S, NEW w \in Seq(S), NEW x \in S
    PROVE  /\ Append(w, x) \in Seq(S) /\ Append(w, x) # <<>>
           /\ Append(w, x)[Len(Append(w, x))] = x
OBVIOUS

LEMMA Around ==
    ASSUME NEW S, NEW w \in Seq(S), NEW v, v = <<>> \/ \E y \in S : v = <<y>>
    PROVE  /\ v \o w \in Seq(S)
           /\ v \o w = <<>> <=> v = <<>> /\ w = <<>>
           /\ w # <<>> => (v \o w)[Len(v \o w)] = w[Len(w)]
           /\ w = <<>> /\ v # <<>> => (v \o w)[Len(v \o w)] = v[1]
<1>1. v \in Seq(S) /\ Len(v) \in {0, 1} /\ (Len(v) = 0 <=> v = <<>>)
  <2>1. CASE v = <<>> BY <2>1, NoneSaved
  <2>2. CASE v # <<>>
    <3>1. PICK y \in S : v = <<y>> BY <2>2
    <3> QED BY <2>2, <3>1, OneSaved
  <2> QED BY <2>1, <2>2
<1>2. Len(w) \in Nat /\ (Len(w) = 0 <=> w = <<>>) OBVIOUS
<1>3. /\ v \o w \in Seq(S) /\ Len(v \o w) = Len(v) + Len(w)
      /\ \A i \in 1 .. Len(v) + Len(w) :
            (v \o w)[i] = IF i <= Len(v) THEN v[i] ELSE w[i - Len(v)]
  BY <1>1
<1>4. v \o w = <<>> <=> Len(v) + Len(w) = 0 BY <1>3
<1>5. ASSUME w # <<>> PROVE (v \o w)[Len(v \o w)] = w[Len(w)]
  <2>1. Len(v) + Len(w) \in 1 .. Len(v) + Len(w) /\ ~(Len(v) + Len(w) <= Len(v))
        /\ Len(v) + Len(w) - Len(v) = Len(w)
    BY <1>1, <1>2, <1>5
  <2> QED BY <1>3, <2>1
<1>6. ASSUME w = <<>>, v # <<>> PROVE (v \o w)[Len(v \o w)] = v[1]
  <2>1. Len(v) = 1 /\ Len(w) = 0 BY <1>1, <1>6
  <2> DEFINE both == v \o w
  <2>2. Len(both) = 1 /\ both[1] = IF 1 <= Len(v) THEN v[1] ELSE w[1 - Len(v)]
    <3>1. Len(v) + Len(w) = 1 /\ 1 \in 1 .. Len(v) + Len(w) BY <2>1
    <3> QED BY <1>3, <3>1, Zenon
  <2>3. both[1] = v[1] BY <2>1, <2>2
  <2> HIDE DEF both
  <2>4. both[Len(both)] = v[1] BY <2>2, <2>3, Zenon
  <2> QED BY <2>4 DEF both
<1> QED BY <1>1, <1>2, <1>3, <1>4, <1>5, <1>6

\* The file is what was saved last, or something that was saved.
LEMMA SavedOrNot ==
    ASSUME NEW S, NEW w \in Seq(S), Saves(w)
    PROVE  /\ disk' \in {disk} \cup S
           /\ ~DiskFaults => disk' = IF w = <<>> THEN disk ELSE w[Len(w)]
BY DEF Saves

LEMMA InPlaceOK ==
    ASSUME NEW t, NEW u, Sound(u), u.state = t.state
    PROVE  EffectOK(InPlace(u), t) /\ Final(InPlace(u)) = u
<1>1. u \in SoundTasks BY SoundIsMember
<1>2. <<u>> \in Seq(SoundTasks) /\ <<u>> # <<>> /\ <<u>>[Len(<<u>>)] = u BY <1>1
<1> QED BY <1>2 DEF EffectOK, SavesOutcome, InPlace, Final, Moved

LEMMA UntouchedOK ==
    ASSUME NEW t, Sound(t)
    PROVE  EffectOK(Untouched(t), t) /\ Final(Untouched(t)) = t
BY DEF EffectOK, SavesOutcome, Untouched, Final, Moved

\* An attempted transition, allowed or blocked; the copy is in the target state.
LEMMA AttemptOK ==
    ASSUME NEW t, Sound(t), NEW target \in STATES,
           NEW before \in Seq(SoundTasks)
    PROVE  /\ EffectOK(Attempt(t, target, before), t)
           /\ Attempt(t, target, before).saved # <<>>
           /\ Final(Attempt(t, target, before)).state \in {t.state, target}
           /\ Moved(Attempt(t, target, before)) => Final(Attempt(t, target, before)).state = target
<1> DEFINE ok == Evaluate(t, target)
           u  == Record(t, ok)
           n  == IF ok THEN Apply(u, target) ELSE NoTask
           e  == [old |-> u, new |-> n, saved |-> Append(before, IF ok THEN n ELSE u)]
<1>1. Attempt(t, target, before) = e BY DEF Attempt
<1>2. t \in Task BY DEF Sound
<1>3. ok \in BOOLEAN BY DEF Evaluate
<1> HIDE DEF ok
<1>4. Sound(u) /\ u.state = t.state BY <1>3, RecordSound
<1>5. ASSUME ok PROVE Sound(Apply(u, target)) /\ Apply(u, target).state = target
  <2>1. Evaluate(u, target)
    <3>1. /\ u.state = t.state /\ u.plan = t.plan /\ u.approved = t.approved
          /\ u.verdict = t.verdict /\ u.paused = t.paused
      BY <1>2 DEF Record, Task
    <3> HIDE DEF u
    <3> QED BY <1>5, <3>1 DEF ok, Evaluate, Guard
  <2>2. Sound(Apply(u, target)) BY <1>4, <2>1, ApplySound
  <2>3. Apply(u, target).state = target
    <3>1. u \in Task BY <1>4 DEF Sound
    <3> HIDE DEF u
    <3> QED BY <3>1 DEF Apply, Task
  <2> QED BY <2>2, <2>3
<1> HIDE DEF u
<1>6. n # NoTask <=> ok BY <1>5, NoTaskNotSound
<1>7. Final(e) = IF ok THEN Apply(u, target) ELSE u BY <1>6 DEF Final, Moved
<1>8. Moved(e) <=> ok BY <1>6 DEF Moved
<1>9. e.saved = Append(before, Final(e)) BY <1>7
<1>10. Final(e) \in SoundTasks BY <1>4, <1>5, <1>7, SoundIsMember
<1>11. /\ e.saved \in Seq(SoundTasks) /\ e.saved # <<>>
       /\ e.saved[Len(e.saved)] = Final(e)
  BY <1>9, <1>10, OneMore
<1>12. e.old = u /\ (e.new # NoTask => e.new = Apply(u, target) /\ ok) BY <1>6
<1> HIDE DEF e
<1>13. EffectOK(e, t) BY <1>4, <1>5, <1>11, <1>12 DEF EffectOK, SavesOutcome
<1> QED BY <1>1, <1>4, <1>5, <1>7, <1>8, <1>11, <1>13

\* The effect on a task that was changed before counts for the task as it was.
LEMMA EffectFrom ==
    ASSUME NEW t, NEW v, v.state = t.state, NEW e, EffectOK(e, v), e.saved # <<>>
    PROVE  EffectOK(e, t)
BY DEF EffectOK, SavesOutcome

\* An attempt on its own.
LEMMA BareAttemptOK ==
    ASSUME NEW t, Sound(t), NEW target \in STATES
    PROVE  LET a == Attempt(t, target, <<>>)
           IN  EffectOK(a, t) /\ a.saved # <<>> /\ (Moved(a) => Final(a).state = target)
<1>1. PICK none \in Seq(SoundTasks) : none = <<>> BY NoneSaved
<1>2. LET a == Attempt(t, target, none)
      IN  EffectOK(a, t) /\ a.saved # <<>> /\ (Moved(a) => Final(a).state = target)
  BY AttemptOK
<1> QED BY <1>1, <1>2

LEMMA PlanStoredOK ==
    ASSUME NEW t, Sound(t), t.state = "planning", NEW p \in Plans
    PROVE  EffectOK(PlanStored(t, p), t) /\ PlanStored(t, p).saved # <<>>
<1> DEFINE u == [t EXCEPT !.plan = p, !.step = 1]
<1>1. t \in Task BY DEF Sound
<1>2. u \in Task
  <2>1. p \in Plans \cup {NoPlan} /\ 1 \in Nat OBVIOUS
  <2> QED BY <1>1, <2>1, Zenon DEF Task
<1>3. /\ u.state = t.state /\ u.approved = t.approved
      /\ u.verdict = t.verdict /\ u.paused = t.paused
      /\ u.prev = t.prev /\ u.expected = t.expected
  BY <1>1 DEF Task
<1>4. PlanStored(t, p) = Attempt(u, "plan_approval", <<>>) BY DEF PlanStored
<1> HIDE DEF u
<1>5. Sound(u)
  BY <1>2, <1>3 DEF Sound, Consented, Finished, Preserved, ExpectedFor
<1> DEFINE e == Attempt(u, "plan_approval", <<>>)
<1>6. EffectOK(e, u) /\ e.saved # <<>> BY <1>5, BareAttemptOK DEF STATES
<1> HIDE DEF e
<1>7. EffectOK(e, t) BY <1>3, <1>6, EffectFrom
<1> QED BY <1>4, <1>6, <1>7 DEF e

LEMMA JudgedByOK ==
    ASSUME NEW t, Sound(t), NEW passed \in BOOLEAN, NEW of \in Nat
    PROVE  EffectOK(JudgedBy(t, passed, of), t)
<1> DEFINE v == SetValidation(t, passed, of)
           target == IF passed THEN "done" ELSE "execution"
           e == Attempt(v, target, <<v>>)
<1>1. Sound(v) /\ v.state = t.state BY SetValidationSound
<1>2. target \in STATES BY DEF STATES
<1>3. JudgedBy(t, passed, of) = e BY DEF JudgedBy
<1> HIDE DEF v, target
<1>4. <<v>> \in Seq(SoundTasks) BY <1>1, SoundIsMember
<1>5. EffectOK(e, v) /\ e.saved # <<>> BY <1>1, <1>2, <1>4, AttemptOK
<1> HIDE DEF e
<1> QED BY <1>1, <1>3, <1>5, EffectFrom

LEMMA ApproveAndStartOK ==
    ASSUME NEW t, Sound(t)
    PROVE  /\ EffectOK(ApproveAndStart(t), t)
           /\ Moved(ApproveAndStart(t)) => Final(ApproveAndStart(t)).state = "execution"
<1> DEFINE a == ApprovePlan(t)
           e == Attempt(a, "execution", <<a>>)
<1>1. Sound(a) /\ a.state = t.state BY ApprovePlanSound
<1>2. ApproveAndStart(t) = e BY DEF ApproveAndStart
<1> HIDE DEF a
<1>3. PICK w \in Seq(SoundTasks) : w = <<a>> BY <1>1, SoundIsMember, OneSaved
<1>4. EffectOK(e, a) /\ e.saved # <<>> /\ (Moved(e) => Final(e).state = "execution")
  <2>1. LET f == Attempt(a, "execution", w)
        IN  EffectOK(f, a) /\ f.saved # <<>> /\ (Moved(f) => Final(f).state = "execution")
    BY <1>1, AttemptOK DEF STATES
  <2> QED BY <1>3, <2>1
<1> HIDE DEF e
<1> QED BY <1>1, <1>2, <1>4, EffectFrom

\* Whatever the intent, its effect is sound, and the await that follows it is a
\* planning call only if the task is then in planning.
LEMMA IntendedOK ==
    ASSUME NEW t, Sound(t), NEW intent \in Intents, NEW auto \in BOOLEAN
    PROVE  /\ EffectOK(Intended(intent, t), t)
           /\ NextAwait(intent, t, Intended(intent, t), auto)
                \in {"idle", "plan", "work", "judge", "answer"}
           /\ NextAwait(intent, t, Intended(intent, t), auto) = "plan"
                => Final(Intended(intent, t)).state = "planning"
<1> DEFINE e == Intended(intent, t)
<1>1. t \in Task /\ t.result \in Nat BY DEF Sound, Task
<1>2. EffectOK(e, t)
  <2>1. CASE intent = "approve_plan"
    BY <2>1, ApproveAndStartOK, ApprovePlanSound, InPlaceOK DEF Intended, RunApprove
  <2>2. CASE intent \in {"rollback", "complete_task"}
    BY <2>2, BareAttemptOK DEF Intended, STATES
  <2>3. CASE intent = "start_execution"
    BY <2>3, UntouchedOK, ApproveAndStartOK, BareAttemptOK DEF Intended, RunStartExecution, STATES
  <2>4. CASE intent = "request_validation"
    BY <2>4, UntouchedOK, BareAttemptOK DEF Intended, RunRequestValidation, STATES
  <2>5. CASE intent \in {"validation_passed", "validation_failed"}
    <3>1. ASSUME NEW passed \in BOOLEAN PROVE EffectOK(RunValidationFlag(t, passed), t)
      BY <1>1, JudgedByOK, SetValidationSound, InPlaceOK DEF RunValidationFlag
    <3> QED BY <2>5, <3>1 DEF Intended
  <2>6. CASE intent = "pause" BY <2>6, PauseSound, InPlaceOK DEF Intended
  <2>7. CASE intent = "resume" BY <2>7, ResumeSound, InPlaceOK DEF Intended
  <2>8. CASE intent = "continue_planning"
    <3>1. EffectOK(RunPlanningStage(t), t)
      BY UntouchedOK, RecordSound, InPlaceOK DEF RunPlanningStage
    <3> QED BY <2>8, <3>1 DEF Intended
  <2>9. CASE intent \in {"normal_message", "unrecognised"}
    BY <2>9, UntouchedOK DEF Intended
  <2> QED BY <2>1, <2>2, <2>3, <2>4, <2>5, <2>6, <2>7, <2>8, <2>9 DEF Intents
<1>3. intent = "rollback" => e = Attempt(t, "planning", <<>>) BY DEF Intended
<1>4. intent = "continue_planning" /\ t.state = "planning" => e = Untouched(t)
  BY DEF Intended, RunPlanningStage
<1>5. intent = "rollback" /\ Moved(e) => Final(e).state = "planning"
  BY <1>3, BareAttemptOK DEF STATES
<1>6. intent = "continue_planning" /\ t.state = "planning" => Final(e).state = "planning"
  BY <1>4, UntouchedOK
<1> HIDE DEF e
<1>7. NextAwait(intent, t, e, auto) \in {"idle", "plan", "work", "judge", "answer"}
  BY DEF NextAwait, Intents
<1>8. NextAwait(intent, t, e, auto) = "plan" => Final(e).state = "planning"
  BY <1>5, <1>6 DEF NextAwait, Intents
<1> QED BY <1>2, <1>7, <1>8 DEF e

\* A chat turn saves around the effect the task as it was and as it is.
LEMMA InTurnOK ==
    ASSUME NEW t, Sound(t), NEW e, EffectOK(e, t), NEW said \in {<<>>, <<t>>}, NEW at
    PROVE  EffectOK(InTurn(said, e, at), t) /\ Final(InTurn(said, e, at)) = Final(e)
<1> DEFINE w == said \o e.saved
           f == InTurn(said, e, at)
<1>1. /\ f.old = e.old /\ f.new = e.new
      /\ f.saved = IF at = "idle" THEN Append(w, Final(e)) ELSE w
  BY DEF InTurn
<1>2. /\ w \in Seq(SoundTasks)
      /\ w = <<>> <=> said = <<>> /\ e.saved = <<>>
      /\ e.saved # <<>> => w[Len(w)] = e.saved[Len(e.saved)]
      /\ e.saved = <<>> /\ said # <<>> => w[Len(w)] = said[1]
  <2>1. said = <<>> \/ \E y \in SoundTasks : said = <<y>> BY SoundIsMember
  <2> QED BY <2>1, Around DEF EffectOK
<1>3. Final(f) = Final(e) /\ (Moved(f) <=> Moved(e)) BY <1>1 DEF Final, Moved
<1>4. Final(e) \in SoundTasks BY SoundIsMember DEF EffectOK, Final, Moved
<1>5. e.saved = <<>> => ~Moved(e) /\ e.old = t /\ Final(e) = t
  BY DEF EffectOK, SavesOutcome, Final
<1>6. e.saved # <<>> => e.saved[Len(e.saved)] = Final(e) BY DEF EffectOK, SavesOutcome
<1>7. said # <<>> => said[1] = t OBVIOUS
<1> HIDE DEF w, f
<1>8. f.saved \in Seq(SoundTasks) /\ SavesOutcome(f, t)
  <2>1. CASE at = "idle" BY <1>1, <1>2, <1>3, <1>4, <2>1, OneMore DEF SavesOutcome
  <2>2. CASE at # "idle" BY <1>1, <1>2, <1>3, <1>5, <1>6, <1>7, <2>2 DEF SavesOutcome
  <2> QED BY <2>1, <2>2
<1>9. EffectOK(f, t) BY <1>1, <1>8 DEF EffectOK
<1> QED BY <1>3, <1>9 DEF f

----------------------------------------------------------------------------
(* Storing an effect.                                                      *)

\* If the new heap is sound and still holds in planning what other requests plan
\* with, then placing it keeps the invariant.
LEMMA PlaceKeepsIInv ==
    ASSUME IInv, NEW r \in Requests, NEW c \in Objs,
           NEW h \in [Objs -> Task \cup {NoTask}],
           NEW at \in {"idle", "plan", "intent", "work", "judge", "answer"},
           NEW saved \in Seq(SoundTasks),
           \A x \in Objs : h[x] # NoTask => Sound(h[x]),
           h[c] # NoTask,
           \A q \in Requests : q # r /\ reqs[q].at = "plan"
               => h[reqs[q].obj] # NoTask /\ h[reqs[q].obj].state = "planning",
           at = "plan" => h[c].state = "planning",
           Place(r, h, c, at, saved),
           issued' \in Nat, works' \in Nat
    PROVE  IInv'
<1> DEFINE q0 == [at |-> at, obj |-> IF at = "plan" THEN c ELSE NoObj,
                  seen |-> IF at = "judge" THEN h[c].result ELSE 0]
           rs == [reqs EXCEPT ![r] = q0]
<1>1. /\ reqs' = rs /\ cur' = c
      /\ heap' = [x \in Objs |-> IF x = c \/ x \in Refs(rs) THEN h[x] ELSE NoTask]
      /\ disk' \in {disk} \cup SoundTasks
  BY SavedOrNot DEF Place
<1>2. h[c] \in Task BY DEF Sound
<1>3. q0 \in Request BY <1>2 DEF Request, Task
<1>4. rs \in [Requests -> Request] BY <1>3 DEF IInv, TypeOK
<1>5. rs[r] = q0 /\ \A q \in Requests : q # r => rs[q] = reqs[q]
  BY DEF IInv, TypeOK
<1>6. \A q \in Requests : rs[q].obj \in Refs(rs) BY DEF Refs
<1>7. q0.at = at /\ q0.obj = (IF at = "plan" THEN c ELSE NoObj) OBVIOUS
<1> HIDE DEF q0, rs
<1>8. disk' = NoTask \/ Sound(disk')
  BY <1>1 DEF IInv, Known, SoundTasks
<1>9. heap' \in [Objs -> Task \cup {NoTask}] /\ heap'[c] = h[c]
  BY <1>1
<1>10. \A x \in Objs : heap'[x] # NoTask => Sound(heap'[x])
  BY <1>1
<1>11. TypeOK'
  <2>1. disk' \in Task \cup {NoTask} BY <1>8 DEF Sound
  <2> QED BY <1>1, <1>4, <1>9, <2>1 DEF TypeOK
<1>12. (\A t \in Known : Sound(t))'
  BY <1>8, <1>10 DEF Known
<1>13. PlanningHeld'
  <2> SUFFICES ASSUME NEW q \in Requests, rs[q].at = "plan"
               PROVE  /\ rs[q].obj \in Objs
                      /\ heap'[rs[q].obj] # NoTask
                      /\ heap'[rs[q].obj].state = "planning"
    BY <1>1 DEF PlanningHeld
  <2>1. CASE q = r BY <2>1, <1>5, <1>7, <1>9
  <2>2. CASE q # r
    <3>1. rs[q] = reqs[q] /\ reqs[q].obj \in Objs BY <2>2, <1>5 DEF IInv, PlanningHeld
    <3>2. heap'[rs[q].obj] = h[rs[q].obj] BY <3>1, <1>1, <1>6
    <3> QED BY <2>2, <3>1, <3>2
  <2> QED BY <2>1, <2>2
<1> QED BY <1>11, <1>12, <1>13 DEF IInv

\* If the outcome was saved last, or nothing was saved and nothing changed, the
\* file is as good as before.
LEMMA PlaceKeepsFile ==
    ASSUME NEW r \in Requests, NEW c \in Objs, NEW h, NEW at,
           NEW saved \in Seq(SoundTasks),
           IF saved = <<>> THEN c = cur /\ h[c] = heap[cur] ELSE saved[Len(saved)] = h[c],
           Place(r, h, c, at, saved)
    PROVE  FileKept
<1>1. cur' = c /\ heap'[c] = h[c] /\ Saves(saved) BY DEF Place
<1>2. ~DiskFaults => disk' = IF saved = <<>> THEN disk ELSE saved[Len(saved)]
  BY <1>1, SavedOrNot
<1>3. c # NoObj BY ServiceAssumption
<1> QED BY <1>1, <1>2, <1>3 DEF FileKept, DiskIsMemory

LEMMA SettleKeepsIInv ==
    ASSUME IInv, NEW r \in Requests, NEW o \in Objs, heap[o] # NoTask, NEW e,
           EffectOK(e, heap[o]),
           NEW at \in {"idle", "plan", "intent", "work", "judge", "answer"},
           at = "plan" => Final(e).state = "planning",
           o = cur \/ e.saved # <<>>,
           Settle(r, o, e, at),
           issued' \in Nat, works' \in Nat
    PROVE  IInv' /\ FileKept
<1>1. PICK n \in Unused :
        LET x == IF Moved(e) THEN n ELSE o
            c == IF e.saved = <<>> THEN cur ELSE x
        IN  Place(r, [heap EXCEPT ![o] = e.old, ![x] = Final(e)], c, at, e.saved)
  BY DEF Settle
<1> DEFINE c == IF Moved(e) THEN n ELSE o
           h == [heap EXCEPT ![o] = e.old, ![c] = Final(e)]
<1>2. n \in Objs /\ c \in Objs BY DEF Unused
<1>3. Sound(e.old) /\ Sound(Final(e)) BY DEF EffectOK, Final, Moved
<1>4. heap \in [Objs -> Task \cup {NoTask}] BY DEF IInv, TypeOK
<1>5. \A x \in Objs : h[x] = IF x = c THEN Final(e) ELSE IF x = o THEN e.old ELSE heap[x]
  BY <1>2, <1>4
<1>6. h \in [Objs -> Task \cup {NoTask}] BY <1>2, <1>3, <1>4 DEF Sound
<1>7. Place(r, h, c, at, e.saved)
  <2>1. c = IF e.saved = <<>> THEN cur ELSE c BY DEF EffectOK, SavesOutcome
  <2> QED BY <1>1, <2>1
<1>8. c = n \/ (c = o /\ Final(e) = e.old) BY DEF Final
<1>9. e.saved = <<>> => c = o /\ o = cur /\ Final(e) = heap[o]
  BY DEF EffectOK, SavesOutcome, Final
<1>10. e.saved # <<>> => e.saved[Len(e.saved)] = Final(e) BY DEF EffectOK, SavesOutcome
<1> HIDE DEF c, h
<1>11. \A x \in Objs : h[x] # NoTask => Sound(h[x])
  BY <1>3, <1>4, <1>5 DEF IInv, Known
<1>12. h[c] # NoTask /\ (at = "plan" => h[c].state = "planning")
  BY <1>2, <1>3, <1>5, NoTaskNotSound
<1>13. ASSUME NEW q \in Requests, q # r, reqs[q].at = "plan"
       PROVE  h[reqs[q].obj] # NoTask /\ h[reqs[q].obj].state = "planning"
  <2>1. /\ reqs[q].obj \in Objs /\ heap[reqs[q].obj] # NoTask
        /\ heap[reqs[q].obj].state = "planning"
    BY <1>13 DEF IInv, PlanningHeld
  <2>2. reqs[q].obj # n BY <1>13 DEF Unused, Refs
  <2>3. e.old # NoTask /\ e.old.state = heap[o].state
    BY <1>3, NoTaskNotSound DEF EffectOK
  <2> QED BY <1>5, <1>8, <2>1, <2>2, <2>3
<1>14. e.saved \in Seq(SoundTasks) BY DEF EffectOK
<1>15. IInv' BY <1>2, <1>6, <1>7, <1>11, <1>12, <1>13, <1>14, PlaceKeepsIInv
<1>16. FileKept
  <2>1. e.saved = <<>> => c = cur /\ o = cur /\ h[c] = heap[cur] BY <1>5, <1>9
  <2>2. e.saved # <<>> => e.saved[Len(e.saved)] = h[c] BY <1>2, <1>5, <1>10
  <2> QED BY <1>2, <1>7, <1>14, <2>1, <2>2, PlaceKeepsFile
<1> QED BY <1>15, <1>16

LEMMA InstallKeepsIInv ==
    ASSUME IInv, NEW r \in Requests, NEW t, Sound(t),
           NEW at \in {"idle", "plan", "intent", "work", "judge", "answer"},
           at = "plan" => t.state = "planning",
           Install(r, t, at), issued' \in Nat, works' \in Nat
    PROVE  IInv' /\ FileKept
<1>1. PICK n \in Unused : Place(r, [heap EXCEPT ![n] = t], n, at, <<t>>) BY DEF Install
<1> DEFINE h == [heap EXCEPT ![n] = t]
<1>2. n \in Objs BY DEF Unused
<1>3. heap \in [Objs -> Task \cup {NoTask}] BY DEF IInv, TypeOK
<1>4. h \in [Objs -> Task \cup {NoTask}] BY <1>2, <1>3 DEF Sound
<1>5. \A x \in Objs : h[x] = IF x = n THEN t ELSE heap[x] BY <1>2, <1>3
<1>6. Place(r, h, n, at, <<t>>) BY <1>1
<1> HIDE DEF h
<1>7. \A x \in Objs : h[x] # NoTask => Sound(h[x])
  BY <1>3, <1>5 DEF IInv, Known
<1>8. h[n] # NoTask /\ (at = "plan" => h[n].state = "planning")
  BY <1>2, <1>5, NoTaskNotSound
<1>9. ASSUME NEW q \in Requests, q # r, reqs[q].at = "plan"
      PROVE  h[reqs[q].obj] # NoTask /\ h[reqs[q].obj].state = "planning"
  <2>1. /\ reqs[q].obj \in Objs /\ heap[reqs[q].obj] # NoTask
        /\ heap[reqs[q].obj].state = "planning"
    BY <1>9 DEF IInv, PlanningHeld
  <2>2. reqs[q].obj # n BY <1>9 DEF Unused, Refs
  <2> QED BY <1>5, <2>1, <2>2
<1>10. <<t>> \in Seq(SoundTasks) /\ <<t>> # <<>> /\ <<t>>[Len(<<t>>)] = t
  BY SoundIsMember
<1>11. IInv' BY <1>2, <1>4, <1>6, <1>7, <1>8, <1>9, <1>10, PlaceKeepsIInv
<1>12. FileKept BY <1>2, <1>5, <1>6, <1>10, PlaceKeepsFile
<1> QED BY <1>11, <1>12

----------------------------------------------------------------------------
(* The invariant.                                                          *)

LEMMA InitIInv == Init => IInv
BY DEF Init, IInv, TypeOK, Known, PlanningHeld, Request, Idle

LEMMA StepKeeps == IInv /\ [Next]_vars => IInv' /\ FileKept
<1> SUFFICES ASSUME IInv, [Next]_vars PROVE IInv' /\ FileKept
  OBVIOUS
<1> DEFINE Goal == IInv' /\ FileKept
<1> USE DEF Idle
<1>1. /\ issued \in Nat /\ works \in Nat /\ issued + 1 \in Nat /\ works + 1 \in Nat
  BY DEF IInv, TypeOK
<1>2. \A x \in Objs : heap[x] # NoTask => Sound(heap[x])
  BY DEF IInv, Known
<1>3. cur # NoObj => cur \in Objs /\ heap[cur] # NoTask /\ Sound(heap[cur])
  BY <1>2 DEF IInv, TypeOK
<1>4. cur # NoObj => heap[cur].result \in Nat
  BY <1>3 DEF Sound, Task
<1>5. ASSUME NEW r \in Requests,
             CreateTask(r) \/ StartTask(r) \/ \E name \in Scenarios : SetupScenario(r, name)
      PROVE  Goal
  <2>1. issued' \in Nat /\ works' \in Nat
    BY <1>1, <1>5 DEF CreateTask, StartTask, SetupScenario
  <2>2. CASE CreateTask(r)
    BY <2>1, <2>2, CreatedSound, InstallKeepsIInv DEF CreateTask
  <2>3. CASE StartTask(r)
    BY <2>1, <2>3, CreatedSound, InstallKeepsIInv DEF StartTask
  <2>4. ASSUME NEW name \in Scenarios, SetupScenario(r, name) PROVE Goal
    BY <2>1, <2>4, SeededSound, InstallKeepsIInv DEF SetupScenario
  <2> QED BY <1>5, <2>2, <2>3, <2>4
<1>6. ASSUME NEW r \in Requests, ResetTask(r) PROVE Goal
  <2>1. TypeOK'
    BY <1>6 DEF ResetTask, IInv, TypeOK
  <2>2. (\A t \in Known : Sound(t))'
    <3>1. disk' \in {disk, NoTask} BY <1>6 DEF ResetTask
    <3>2. \A x \in Objs : heap'[x] \in {heap[x], NoTask} BY <1>6 DEF ResetTask
    <3> QED BY <3>1, <3>2 DEF IInv, Known
  <2>3. PlanningHeld'
    BY <1>6 DEF ResetTask, IInv, PlanningHeld, Refs
  <2>4. FileKept BY <1>6 DEF ResetTask, FileKept, DiskIsMemory
  <2> QED BY <2>1, <2>2, <2>3, <2>4 DEF IInv
<1>7. ASSUME NEW r \in Requests, PreparePlan(r) PROVE Goal
  <2>1. cur # NoObj /\ issued' \in Nat /\ works' \in Nat
    BY <1>1, <1>7 DEF PreparePlan, Arrives
  <2>2. CASE heap[cur].state = "planning"
    BY <1>3, <1>7, <2>1, <2>2, UntouchedOK, SettleKeepsIInv DEF PreparePlan
  <2>3. CASE heap[cur].state # "planning"
    <3> DEFINE e == InPlace(Record(heap[cur], FALSE))
    <3>1. EffectOK(e, heap[cur]) BY <1>3, <2>1, RecordSound, InPlaceOK
    <3>2. Settle(r, cur, e, "idle") BY <1>7, <2>3 DEF PreparePlan
    <3> HIDE DEF e
    <3> QED BY <1>3, <2>1, <3>1, <3>2, SettleKeepsIInv
  <2> QED BY <2>2, <2>3
<1>8. ASSUME NEW r \in Requests, Approve(r) PROVE Goal
  <2>1. cur # NoObj /\ issued' \in Nat /\ works' \in Nat
    BY <1>1, <1>8 DEF Approve, Arrives
  <2>2. EffectOK(InPlace(ApprovePlan(heap[cur])), heap[cur])
    BY <1>3, <2>1, ApprovePlanSound, InPlaceOK
  <2> QED BY <1>3, <1>8, <2>1, <2>2, SettleKeepsIInv DEF Approve
<1>9. ASSUME NEW r \in Requests, NEW passed \in BOOLEAN, Validate(r, passed) PROVE Goal
  <2>1. cur # NoObj /\ issued' \in Nat /\ works' \in Nat
    BY <1>1, <1>9 DEF Validate, Arrives
  <2>2. EffectOK(InPlace(SetValidation(heap[cur], passed, heap[cur].result)), heap[cur])
    BY <1>3, <1>4, <2>1, SetValidationSound, InPlaceOK
  <2> QED BY <1>3, <1>9, <2>1, <2>2, SettleKeepsIInv DEF Validate
<1>10. ASSUME NEW r \in Requests, NEW target \in STATES, Transition(r, target) PROVE Goal
  <2>1. cur # NoObj /\ issued' \in Nat /\ works' \in Nat
    BY <1>1, <1>10 DEF Transition, Arrives
  <2>2. EffectOK(Attempt(heap[cur], target, <<>>), heap[cur])
    BY <1>3, <2>1, BareAttemptOK
  <2> QED BY <1>3, <1>10, <2>1, <2>2, SettleKeepsIInv DEF Transition
<1>11. ASSUME NEW r \in Requests, PauseTask(r) \/ ResumeTask(r) PROVE Goal
  <2>1. cur # NoObj /\ issued' \in Nat /\ works' \in Nat
    BY <1>1, <1>11 DEF PauseTask, ResumeTask, Arrives
  <2>2. /\ EffectOK(InPlace(Pause(heap[cur])), heap[cur])
        /\ EffectOK(InPlace(Resume(heap[cur])), heap[cur])
    BY <1>3, <2>1, PauseSound, ResumeSound, InPlaceOK
  <2>3. CASE PauseTask(r) BY <1>3, <2>1, <2>2, <2>3, SettleKeepsIInv DEF PauseTask
  <2>4. CASE ResumeTask(r) BY <1>3, <2>1, <2>2, <2>4, SettleKeepsIInv DEF ResumeTask
  <2> QED BY <1>11, <2>3, <2>4
<1>12. ASSUME NEW r \in Requests, Converse(r) PROVE Goal
  <2>1. cur # NoObj /\ issued' \in Nat /\ works' \in Nat
    BY <1>1, <1>12 DEF Converse, Arrives
  <2>2. EffectOK(InPlace(heap[cur]), heap[cur]) BY <1>3, <2>1, InPlaceOK
  <2> QED BY <1>3, <1>12, <2>1, <2>2, SettleKeepsIInv DEF Converse
<1>13. ASSUME NEW r \in Requests, NEW intent \in Intents, ForcedIntent(r, intent) PROVE Goal
  <2>1. cur # NoObj /\ issued' \in Nat /\ works' \in Nat
    BY <1>1, <1>13 DEF ForcedIntent, Arrives
  <2> DEFINE e == Intended(intent, heap[cur])
             at == NextAwait(intent, heap[cur], e, FALSE)
             f == InTurn(<<heap[cur]>>, e, at)
  <2>2. Settle(r, cur, f, at) BY <1>13 DEF ForcedIntent
  <2>3. EffectOK(e, heap[cur]) /\ at \in {"idle", "plan", "work", "judge", "answer"}
        /\ (at = "plan" => Final(e).state = "planning")
    BY <1>3, <2>1, IntendedOK
  <2> HIDE DEF e, at
  <2>4. EffectOK(f, heap[cur]) /\ Final(f) = Final(e) BY <1>3, <2>1, <2>3, InTurnOK
  <2> HIDE DEF f
  <2> QED BY <1>3, <2>1, <2>2, <2>3, <2>4, SettleKeepsIInv
<1>14. ASSUME NEW r \in Requests, NEW intent \in Intents, IntentRecognised(r, intent) PROVE Goal
  <2>1. cur # NoObj /\ issued' \in Nat /\ works' \in Nat
    BY <1>1, <1>14 DEF IntentRecognised
  <2> DEFINE e == Intended(intent, heap[cur])
             at == NextAwait(intent, heap[cur], e, TRUE)
             f == InTurn(<<>>, e, at)
  <2>2. Settle(r, cur, f, at) BY <1>14 DEF IntentRecognised
  <2>3. EffectOK(e, heap[cur]) /\ at \in {"idle", "plan", "work", "judge", "answer"}
        /\ (at = "plan" => Final(e).state = "planning")
    BY <1>3, <2>1, IntendedOK
  <2> HIDE DEF e, at
  <2>4. EffectOK(f, heap[cur]) /\ Final(f) = Final(e) BY <1>3, <2>1, <2>3, InTurnOK
  <2> HIDE DEF f
  <2> QED BY <1>3, <2>1, <2>2, <2>3, <2>4, SettleKeepsIInv
<1>15. ASSUME NEW r \in Requests, NEW p \in Plans, PlanReady(r, p) PROVE Goal
  <2> DEFINE o == reqs[r].obj
  <2>1. o \in Objs /\ heap[o] # NoTask /\ heap[o].state = "planning" /\ Sound(heap[o])
    BY <1>2, <1>15 DEF PlanReady, IInv, PlanningHeld
  <2>2. EffectOK(PlanStored(heap[o], p), heap[o]) /\ PlanStored(heap[o], p).saved # <<>>
    BY <2>1, PlanStoredOK
  <2>3. Settle(r, o, PlanStored(heap[o], p), "idle") BY <1>15 DEF PlanReady
  <2>4. issued' \in Nat /\ works' \in Nat BY <1>1, <1>15 DEF PlanReady
  <2> HIDE DEF o
  <2> QED BY <2>1, <2>2, <2>3, <2>4, SettleKeepsIInv
<1>16. ASSUME NEW r \in Requests, WorkDone(r) PROVE Goal
  <2>1. cur # NoObj /\ issued' \in Nat /\ works' \in Nat
    BY <1>1, <1>16 DEF WorkDone
  <2>2. EffectOK(InPlace(Worked(heap[cur], works')), heap[cur])
    BY <1>3, <2>1, WorkedSound, InPlaceOK
  <2> QED BY <1>3, <1>16, <2>1, <2>2, SettleKeepsIInv DEF WorkDone
<1>17. ASSUME NEW r \in Requests, NEW passed \in BOOLEAN, VerdictReady(r, passed) PROVE Goal
  <2>1. cur # NoObj /\ issued' \in Nat /\ works' \in Nat
    BY <1>1, <1>17 DEF VerdictReady
  <2>2. reqs[r].seen \in Nat BY DEF IInv, TypeOK, Request
  <2>3. EffectOK(JudgedBy(heap[cur], passed, reqs[r].seen), heap[cur])
    BY <1>3, <2>1, <2>2, JudgedByOK
  <2> QED BY <1>3, <1>17, <2>1, <2>3, SettleKeepsIInv DEF VerdictReady
<1>18. ASSUME NEW r \in Requests, AnswerReady(r) PROVE Goal
  <2>1. cur # NoObj /\ issued' \in Nat /\ works' \in Nat
    BY <1>1, <1>18 DEF AnswerReady
  <2>2. EffectOK(InPlace(heap[cur]), heap[cur]) BY <1>3, <2>1, InPlaceOK
  <2> QED BY <1>3, <1>18, <2>1, <2>2, SettleKeepsIInv DEF AnswerReady
<1>19. ASSUME NEW r \in Requests, NEW at \in {"intent", "work", "judge", "answer"}, Gone(r, at)
       PROVE  Goal
  <2>1. TypeOK' BY <1>19 DEF Gone, IInv, TypeOK, Request
  <2>2. (\A t \in Known : Sound(t))' BY <1>19 DEF Gone, IInv, Known
  <2>3. PlanningHeld' BY <1>19 DEF Gone, IInv, TypeOK, PlanningHeld
  <2>4. FileKept BY <1>19 DEF Gone, FileKept, DiskIsMemory
  <2> QED BY <2>1, <2>2, <2>3, <2>4 DEF IInv
<1>20. ASSUME Restart PROVE Goal
  <2>1. PICK n \in Objs : Load(n, disk) BY <1>20 DEF Restart
  <2>2. TypeOK'
    <3>1. disk' \in Task \cup {NoTask} /\ reqs' \in [Requests -> Request]
          /\ issued' \in Nat /\ works' \in Nat
      BY <1>1, <1>20 DEF Restart, IInv, TypeOK, Request
    <3>2. /\ heap' \in [Objs -> Task \cup {NoTask}] /\ cur' \in Objs \cup {NoObj}
          /\ cur' # NoObj => heap'[cur'] # NoTask
      BY <2>1 DEF Load, IInv, TypeOK
    <3> QED BY <3>1, <3>2 DEF TypeOK
  <2>3. (\A t \in Known : Sound(t))'
    BY <1>20, <2>1 DEF Restart, Load, IInv, Known
  <2>4. PlanningHeld' BY <1>20 DEF Restart, PlanningHeld
  <2>5. FileKept BY <1>20, <2>1, ServiceAssumption DEF Restart, Load, FileKept, DiskIsMemory
  <2> QED BY <2>2, <2>3, <2>4, <2>5 DEF IInv
<1>21. CASE UNCHANGED vars
  BY <1>21 DEF vars, IInv, TypeOK, Known, PlanningHeld, FileKept, DiskIsMemory
<1> QED
  BY <1>5, <1>6, <1>7, <1>8, <1>9, <1>10, <1>11, <1>12, <1>13, <1>14, <1>15,
     <1>16, <1>17, <1>18, <1>19, <1>20, <1>21 DEF Next

LEMMA StepKeepsIInv == IInv /\ [Next]_vars => IInv'
BY StepKeeps

\* The strengthening that all the safety theorems below follow from.
THEOREM Invariance == Spec => []IInv
BY InitIInv, StepKeepsIInv, PTL DEF Spec

\* Every variable keeps its type, whatever waits and however often it restarts.
THEOREM TypeCorrect == Spec => []TypeOK
<1>1. IInv => TypeOK BY DEF IInv
<1> QED BY <1>1, Invariance, PTL

\* No interleaving of handlers brings a plan into execution that the user did not
\* approve, or changes a plan once it is approved.
THEOREM OnlyApprovedPlans == Spec => []ApprovedPlanOnly
<1>1. IInv => ApprovedPlanOnly BY DEF IInv, Sound, ApprovedPlanOnly
<1> QED BY <1>1, Invariance, PTL

\* No interleaving of handlers finishes a task without a passed validation.
THEOREM OnlyValidatedDone == Spec => []DoneWasValidated
<1>1. IInv => DoneWasValidated BY DEF IInv, Sound, DoneWasValidated
<1> QED BY <1>1, Invariance, PTL

\* A pause preserves the state of the task, also across model calls and restarts.
THEOREM PausesPreserve == Spec => []PausePreserves
<1>1. IInv => PausePreserves BY DEF IInv, Sound, PausePreserves
<1> QED BY <1>1, Invariance, PTL

\* The expected action of every known task is the one for its state and step.
THEOREM ExpectedIsFresh == Spec => []ExpectedFresh
<1>1. IInv => ExpectedFresh BY DEF IInv, Sound, ExpectedFresh
<1> QED BY <1>1, Invariance, PTL

\* A waiting planning call holds an object that is still in planning.
THEOREM PlanningIsHeld == Spec => []PlanningHeld
<1>1. IInv => PlanningHeld BY DEF IInv
<1> QED BY <1>1, Invariance, PTL

----------------------------------------------------------------------------
(* The file.  Each handler gives its outcome to _save last, or changes     *)
(* nothing (SavesOutcome), so if saves do not fail it ends with the        *)
(* current task in the file, whichever object it made the current one.     *)

\* Without disk faults a restart loses nothing but the requests that wait.
THEOREM FileIsCurrent == ~DiskFaults => (Spec => []DiskIsMemory)
<1>1. Init => DiskIsMemory BY DEF Init, DiskIsMemory
<1>2. ~DiskFaults /\ IInv /\ DiskIsMemory /\ [Next]_vars => DiskIsMemory'
  BY StepKeeps DEF FileKept
<1>3. ASSUME ~DiskFaults PROVE Spec => []DiskIsMemory
  <2>1. IInv /\ DiskIsMemory /\ [Next]_vars => DiskIsMemory' BY <1>2, <1>3
  <2> QED BY <1>1, <2>1, Invariance, PTL DEF Spec
<1> QED BY <1>3

----------------------------------------------------------------------------
(* One request at a time.  With one slot nothing else is served while a    *)
(* request waits, so what it knew before its await still holds after it.   *)
(* This is what verdicts, the history and TaskLifecycle need, and what     *)
(* overlapping requests take away.                                         *)

OneAtATime == \A r, q \in Requests : r = q

\* The verdict that counts is about the result the task has.
Judged(t) ==
    t.state \in {"validation", "done"} /\ t.verdict = "pass" => t.verdictOf = t.result

\* What a waiting request may rely on when no other one is served meanwhile.
Awaited(r) ==
    /\ reqs[r].at # "idle" => cur # NoObj
    /\ reqs[r].at = "plan" => reqs[r].obj = cur
    /\ reqs[r].at = "work" => heap[cur].state = "execution"
    /\ reqs[r].at = "judge" =>
          heap[cur].state = "validation" /\ reqs[r].seen = heap[cur].result

SInv ==
    /\ \A t \in Known : Judged(t) /\ t.id <= issued
    /\ FileLagsMemory
    /\ \A r \in Requests : Awaited(r)

\* What no operation on a task may undo.
Kept(t, u) ==
    /\ u \in Task
    /\ u.id = t.id
    /\ u.hist >= t.hist
    /\ Judged(t) => Judged(u)

\* The steps of TaskLifecycle, between two tasks instead of two states.
Alike(t, u) ==
    /\ u.state = t.state /\ u.approved = t.approved
    /\ u.verdict = t.verdict /\ u.paused = t.paused

Moves(t, u, c, v) ==
    /\ ~t.paused /\ u.paused = t.paused
    /\ \/ t.state = "planning" /\ u.state = "plan_approval" /\ u.approved = c /\ u.verdict = v
       \/ t.state = "plan_approval" /\ c /\ u.state = "execution" /\ u.approved = c /\ u.verdict = v
       \/ t.state \in {"plan_approval", "execution"} /\ u.state = "planning"
            /\ ~u.approved /\ u.verdict = v
       \/ t.state = "execution" /\ u.state = "validation" /\ u.approved = c /\ u.verdict = "none"
       \/ t.state = "validation" /\ v = "pass" /\ u.state = "done" /\ u.approved = c /\ u.verdict = v
       \/ t.state = "validation" /\ u.state = "execution" /\ u.approved = c /\ u.verdict = v

Consents(t, u) ==
    /\ t.state = "plan_approval"
    /\ \/ u.approved /\ u.state = t.state /\ u.verdict = t.verdict /\ u.paused = t.paused
       \/ Moves(t, u, TRUE, t.verdict) /\ u.state = "execution"

Judges(t, u, v) ==
    /\ t.state = "validation"
    /\ \/ u.verdict = v /\ u.state = t.state /\ u.approved = t.approved /\ u.paused = t.paused
       \/ Moves(t, u, t.approved, v) /\ u.state = IF v = "pass" THEN "done" ELSE "execution"

Holds(t, u) ==
    /\ t.state # "done" /\ u.paused
    /\ u.state = t.state /\ u.approved = t.approved /\ u.verdict = t.verdict

Releases(t, u) ==
    /\ t.paused /\ ~u.paused
    /\ u.state = t.state /\ u.approved = t.approved /\ u.verdict = t.verdict

Steps(t, u) ==
    \/ Alike(t, u) \/ Moves(t, u, t.approved, t.verdict)
    \/ Consents(t, u) \/ Judges(t, u, "pass") \/ Judges(t, u, "fail")
    \/ Holds(t, u) \/ Releases(t, u)

\* What may be in the file while the task t becomes u.
Between(t, u) == {s \in Task : Kept(t, s) /\ Kept(s, u)}

LegalEffect(e, t) ==
    /\ Kept(t, Final(e)) /\ Steps(t, Final(e))
    /\ e.saved \in Seq(Between(t, Final(e)))
    /\ e.saved = <<>> => ~Moved(e)

----------------------------------------------------------------------------
(* Operations on one task.                                                 *)

LEMMA KeptItself == ASSUME NEW t \in Task PROVE Kept(t, t)
BY DEF Kept, Task

LEMMA KeptOn ==
    ASSUME NEW t \in Task, NEW u, NEW v, Kept(t, u), Kept(u, v)
    PROVE  Kept(t, v)
<1>1. t.hist \in Nat /\ u.hist \in Nat /\ v.hist \in Nat BY DEF Kept, Task
<1>2. v.hist >= t.hist BY <1>1 DEF Kept
<1> QED BY <1>2 DEF Kept

\* A record makes the history longer and touches nothing else that counts.
LEMMA RecordKeeps ==
    ASSUME NEW t, Sound(t), NEW ok \in BOOLEAN
    PROVE  Kept(t, Record(t, ok)) /\ Alike(t, Record(t, ok)) /\ Sound(Record(t, ok))
<1>1. t \in Task BY DEF Sound
<1> DEFINE u == Record(t, ok)
<1>2. Sound(u) BY RecordSound
<1>3. /\ u.state = t.state /\ u.approved = t.approved /\ u.verdict = t.verdict
      /\ u.paused = t.paused /\ u.id = t.id /\ u.hist = t.hist + 1
      /\ u.result = t.result /\ u.verdictOf = t.verdictOf
  BY <1>1 DEF Record, Task
<1>4. t.hist \in Nat BY <1>1 DEF Task
<1> HIDE DEF u
<1>5. u.hist >= t.hist BY <1>3, <1>4
<1>6. Kept(t, u) BY <1>2, <1>3, <1>5 DEF Kept, Judged, Sound
<1>7. Alike(t, u) BY <1>3 DEF Alike
<1> QED BY <1>2, <1>6, <1>7 DEF u

\* A transition is a move of TaskLifecycle and never keeps a verdict for another result.
LEMMA ApplyKeeps ==
    ASSUME NEW t, Sound(t), NEW target \in STATES, Evaluate(t, target)
    PROVE  /\ Kept(t, Apply(t, target))
           /\ Moves(t, Apply(t, target), t.approved, t.verdict)
           /\ Apply(t, target).state = target
<1>1. t \in Task BY DEF Sound
<1> DEFINE n == Apply(t, target)
<1>2. Sound(n) BY ApplySound
<1>3. /\ n.state = target /\ n.paused = t.paused /\ n.id = t.id /\ n.hist = t.hist
      /\ n.result = t.result /\ n.verdictOf = t.verdictOf
      /\ n.approved = (IF target = "planning" THEN FALSE ELSE t.approved)
      /\ n.verdict = (IF target = "validation" THEN "none" ELSE t.verdict)
  BY <1>1 DEF Apply, Task
<1>4. t.state \in STATES /\ t.hist \in Nat /\ ~t.paused
      /\ target \in ALLOWED_TRANSITIONS[t.state] /\ Guard(t, target)
  BY <1>1 DEF Evaluate, Task
<1> HIDE DEF n
<1>5. Moves(t, n, t.approved, t.verdict)
  BY <1>3, <1>4 DEF Moves, Guard, ALLOWED_TRANSITIONS, STATES
<1>6. Judged(t) => Judged(n)
  BY <1>3, <1>5 DEF Judged, Moves
<1>7. Kept(t, n) BY <1>2, <1>3, <1>4, <1>6 DEF Kept, Sound
<1> QED BY <1>3, <1>5, <1>7 DEF n

\* An attempt records, and then moves or not.
LEMMA AttemptKeeps ==
    ASSUME NEW t, Sound(t), NEW target \in STATES, NEW before
    PROVE  LET u == Final(Attempt(t, target, before))
           IN  /\ Kept(t, u)
               /\ \/ Alike(t, u)
                  \/ Moves(t, u, t.approved, t.verdict) /\ u.state = target
               /\ Attempt(t, target, before).saved = Append(before, u)
<1> DEFINE ok == Evaluate(t, target)
           r  == Record(t, ok)
           n  == IF ok THEN Apply(r, target) ELSE NoTask
           e  == [old |-> r, new |-> n, saved |-> Append(before, IF ok THEN n ELSE r)]
<1>1. Attempt(t, target, before) = e BY DEF Attempt
<1>2. t \in Task BY DEF Sound
<1>3. ok \in BOOLEAN BY DEF Evaluate
<1> HIDE DEF ok
<1>4. Kept(t, r) /\ Alike(t, r) /\ Sound(r) BY <1>3, RecordKeeps
<1>5. r.plan = t.plan BY <1>2 DEF Record, Task
<1> HIDE DEF r
<1>6. ASSUME ok
      PROVE  /\ Kept(r, Apply(r, target)) /\ Apply(r, target).state = target
             /\ Moves(t, Apply(r, target), t.approved, t.verdict)
  <2>1. Evaluate(r, target) BY <1>4, <1>5, <1>6 DEF ok, Evaluate, Guard, Alike
  <2>2. /\ Kept(r, Apply(r, target)) /\ Apply(r, target).state = target
        /\ Moves(r, Apply(r, target), r.approved, r.verdict)
    BY <1>4, <2>1, ApplyKeeps
  <2> QED BY <1>4, <2>2 DEF Moves, Alike
<1>7. ok => n # NoTask BY <1>6, NoTaskAssumption DEF Kept
<1>8. Final(e) = IF ok THEN Apply(r, target) ELSE r BY <1>7 DEF Final, Moved
<1>9. e.saved = Append(before, Final(e)) BY <1>8
<1>10. ok => Kept(t, Apply(r, target)) BY <1>2, <1>4, <1>6, KeptOn
<1> HIDE DEF e
<1>11. Kept(t, Final(e)) BY <1>4, <1>8, <1>10
<1>12. \/ Alike(t, Final(e))
       \/ Moves(t, Final(e), t.approved, t.verdict) /\ Final(e).state = target
  BY <1>4, <1>6, <1>8
<1> QED BY <1>1, <1>9, <1>11, <1>12

LEMMA ApprovePlanKeeps ==
    ASSUME NEW t, Sound(t)
    PROVE  LET u == ApprovePlan(t)
           IN  /\ Kept(t, u)
               /\ u.state = t.state /\ u.verdict = t.verdict /\ u.paused = t.paused
               /\ t.state = "plan_approval" => u.approved
               /\ t.state # "plan_approval" => Alike(t, u)
<1>1. t \in Task BY DEF Sound
<1> DEFINE a == [t EXCEPT !.approved = TRUE, !.consent = t.plan]
<1>2. CASE t.state = "plan_approval"
  <2>1. /\ a.state = t.state /\ a.verdict = t.verdict /\ a.paused = t.paused
        /\ a.id = t.id /\ a.hist = t.hist
    BY <1>1 DEF Task
  <2>2. ApprovePlan(t) = Record(a, TRUE) BY <1>2 DEF ApprovePlan
  <2> DEFINE u == Record(a, TRUE)
  <2>3. Sound(u) BY <2>2, ApprovePlanSound
  <2>4. /\ u.state = t.state /\ u.verdict = t.verdict /\ u.paused = t.paused
        /\ u.id = t.id /\ u.hist = t.hist + 1
    BY <1>1 DEF Record, Task
  <2>5. u.approved = TRUE BY <1>1, Zenon DEF Record, Task
  <2>6. t.hist \in Nat BY <1>1 DEF Task
  <2> HIDE DEF u
  <2>7. Judged(u) BY <1>2, <2>4 DEF Judged
  <2>8. Kept(t, u) BY <2>3, <2>4, <2>6, <2>7 DEF Kept, Sound
  <2> QED BY <1>2, <2>2, <2>4, <2>5, <2>8 DEF u
<1>3. CASE t.state # "plan_approval"
  <2>1. ApprovePlan(t) = Record(t, FALSE) BY <1>3 DEF ApprovePlan
  <2> QED BY <1>3, <2>1, RecordKeeps DEF Alike
<1> QED BY <1>2, <1>3

\* A verdict about the result the task has is one that counts.
LEMMA SetValidationKeeps ==
    ASSUME NEW t, Sound(t), NEW passed \in BOOLEAN
    PROVE  LET u == SetValidation(t, passed, t.result)
           IN  /\ Kept(t, u)
               /\ t.state # "validation" => Alike(t, u)
               /\ t.state = "validation" =>
                     /\ u.state = t.state /\ u.approved = t.approved /\ u.paused = t.paused
                     /\ u.verdict = IF passed THEN "pass" ELSE "fail"
<1>1. t \in Task /\ t.result \in Nat BY DEF Sound, Task
<1> DEFINE v == IF passed THEN "pass" ELSE "fail"
           a == [t EXCEPT !.verdict = v, !.verdictOf = t.result]
           u == SetValidation(t, passed, t.result)
<1>2. CASE t.state = "validation"
  <2>1. u = Record(a, TRUE) BY <1>2 DEF SetValidation
  <2>2. Sound(u) BY <1>1, SetValidationSound
  <2> HIDE DEF v
  <2>3. /\ u.state = t.state /\ u.approved = t.approved /\ u.verdict = v
        /\ u.paused = t.paused /\ u.id = t.id /\ u.hist = t.hist + 1
        /\ u.result = t.result /\ u.verdictOf = t.result
    BY <1>1, <2>1 DEF Record, Task
  <2>4. t.hist \in Nat BY <1>1 DEF Task
  <2> HIDE DEF u
  <2>5. Kept(t, u) BY <2>2, <2>3, <2>4 DEF Kept, Judged, Sound
  <2> QED BY <1>2, <2>3, <2>5 DEF u, v
<1>3. CASE t.state # "validation"
  <2>1. u = Record(t, FALSE) BY <1>3 DEF SetValidation
  <2> QED BY <1>3, <2>1, RecordKeeps
<1> QED BY <1>2, <1>3

LEMMA PauseKeeps ==
    ASSUME NEW t, Sound(t)
    PROVE  Kept(t, Pause(t)) /\ Steps(t, Pause(t))
<1>1. t \in Task BY DEF Sound
<1> DEFINE a == [t EXCEPT !.paused = TRUE, !.prev = t.state]
<1>2. CASE ~t.paused /\ t.state # "done"
  <2> DEFINE u == Record(a, TRUE)
  <2>1. Pause(t) = u BY <1>2 DEF Pause
  <2>2. Sound(u) BY <2>1, PauseSound
  <2>3. /\ u.state = t.state /\ u.verdict = t.verdict /\ u.approved = t.approved
        /\ u.id = t.id /\ u.hist = t.hist + 1
        /\ u.result = t.result /\ u.verdictOf = t.verdictOf
    BY <1>1 DEF Record, Task
  <2>4. u.paused = TRUE BY <1>1, Zenon DEF Record, Task
  <2>5. t.hist \in Nat BY <1>1 DEF Task
  <2> HIDE DEF u
  <2>6. Kept(t, u) BY <2>2, <2>3, <2>5 DEF Kept, Judged, Sound
  <2>7. Holds(t, u) BY <1>2, <2>3, <2>4, Zenon DEF Holds
  <2> QED BY <2>1, <2>6, <2>7 DEF Steps
<1>3. CASE t.paused \/ t.state = "done"
  BY <1>3, RecordKeeps DEF Pause, Steps
<1> QED BY <1>2, <1>3

LEMMA ResumeKeeps ==
    ASSUME NEW t, Sound(t)
    PROVE  Kept(t, Resume(t)) /\ Steps(t, Resume(t))
<1>1. t \in Task BY DEF Sound
<1>2. CASE t.paused
  <2> DEFINE a == [t EXCEPT !.state = IF t.prev = "none" THEN t.state ELSE t.prev,
                            !.paused = FALSE, !.prev = "none"]
             b == [a EXCEPT !.expected = ExpectedFor(a)]
             u == Record(b, TRUE)
  <2>1. Resume(t) = u BY <1>2 DEF Resume
  <2>2. Sound(u) /\ u.state = t.state BY <2>1, ResumeSound
  <2>3. /\ u.verdict = t.verdict /\ u.approved = t.approved
        /\ u.id = t.id /\ u.hist = t.hist + 1
        /\ u.result = t.result /\ u.verdictOf = t.verdictOf
    BY <1>1 DEF Record, Task
  <2>4. u.paused = FALSE BY <1>1, Zenon DEF Record, Task
  <2>5. t.hist \in Nat BY <1>1 DEF Task
  <2> HIDE DEF u
  <2>6. Kept(t, u) BY <2>2, <2>3, <2>5 DEF Kept, Judged, Sound
  <2>7. Releases(t, u) BY <1>2, <2>2, <2>3, <2>4, Zenon DEF Releases
  <2> QED BY <2>1, <2>6, <2>7 DEF Steps
<1>3. CASE ~t.paused
  BY <1>3, RecordKeeps DEF Resume, Steps
<1> QED BY <1>2, <1>3

\* New work replaces the result only where no verdict counts.
LEMMA WorkedKeeps ==
    ASSUME NEW t, Sound(t), t.state = "execution", NEW res \in Nat
    PROVE  Kept(t, Worked(t, res)) /\ Alike(t, Worked(t, res))
<1>1. t \in Task BY DEF Sound
<1> DEFINE u == Worked(t, res)
<1>2. Sound(u) BY WorkedSound
<1>3. /\ u.state = t.state /\ u.verdict = t.verdict /\ u.approved = t.approved
      /\ u.paused = t.paused /\ u.id = t.id /\ u.hist = t.hist
  BY <1>1 DEF Worked, Task
<1>4. t.hist \in Nat BY <1>1 DEF Task
<1> HIDE DEF u
<1>5. Kept(t, u) BY <1>2, <1>3, <1>4 DEF Kept, Judged, Sound
<1> QED BY <1>3, <1>5 DEF u, Alike

----------------------------------------------------------------------------
(* Effects.                                                                *)

LEMMA InPlaceLegal ==
    ASSUME NEW t \in Task, NEW u, Kept(t, u), Steps(t, u)
    PROVE  LegalEffect(InPlace(u), t) /\ Final(InPlace(u)) = u
<1>1. u \in Between(t, u) BY KeptItself DEF Kept, Between
<1>2. <<u>> \in Seq(Between(t, u)) /\ <<u>> # <<>> BY <1>1
<1> QED BY <1>2 DEF LegalEffect, InPlace, Final, Moved

LEMMA UntouchedLegal ==
    ASSUME NEW t \in Task
    PROVE  LegalEffect(Untouched(t), t) /\ Final(Untouched(t)) = t
BY KeptItself DEF LegalEffect, Untouched, Final, Moved, Steps, Alike

\* The saves of an attempt, alone or after those of a change a.
LEMMA OutcomeSaved ==
    ASSUME NEW t, NEW u, Kept(t, u),
           NEW before, before = <<>> \/ \E a \in Between(t, u) : before = <<a>>
    PROVE  Append(before, u) \in Seq(Between(t, u)) /\ Append(before, u) # <<>>
<1>1. u \in Between(t, u) BY KeptItself DEF Kept, Between
<1>2. before \in Seq(Between(t, u)) BY NoneSaved, OneSaved
<1> QED BY <1>1, <1>2, OneMore

LEMMA AttemptLegal ==
    ASSUME NEW t, Sound(t), NEW target \in STATES
    PROVE  LegalEffect(Attempt(t, target, <<>>), t)
<1> DEFINE e == Attempt(t, target, <<>>)
<1>1. /\ Kept(t, Final(e))
      /\ Alike(t, Final(e)) \/ Moves(t, Final(e), t.approved, t.verdict)
      /\ e.saved = Append(<<>>, Final(e))
  BY AttemptKeeps
<1> HIDE DEF e
<1>2. e.saved \in Seq(Between(t, Final(e))) /\ e.saved # <<>>
  BY <1>1, OutcomeSaved
<1> QED BY <1>1, <1>2 DEF LegalEffect, Steps, e

\* Consent, and the start of the execution, in one request.
LEMMA ApproveAndStartLegal ==
    ASSUME NEW t, Sound(t)
    PROVE  LegalEffect(ApproveAndStart(t), t)
<1> DEFINE a == ApprovePlan(t)
           b == <<a>>
           e == Attempt(a, "execution", b)
           u == Final(e)
<1>1. ApproveAndStart(t) = e BY DEF ApproveAndStart
<1>2. /\ Sound(a) /\ Kept(t, a) /\ a.state = t.state
      /\ a.verdict = t.verdict /\ a.paused = t.paused
      /\ t.state = "plan_approval" => a.approved
      /\ t.state # "plan_approval" => Alike(t, a)
  BY ApprovePlanSound, ApprovePlanKeeps
<1>3. t \in Task /\ a \in Task BY <1>2 DEF Sound
<1> HIDE DEF a, b
<1>4. /\ Kept(a, u) /\ e.saved = Append(b, u)
      /\ Alike(a, u) \/ (Moves(a, u, a.approved, a.verdict) /\ u.state = "execution")
  BY <1>2, AttemptKeeps DEF STATES
<1> HIDE DEF e
<1>5. Kept(t, u) BY <1>2, <1>3, <1>4, KeptOn
<1>6. e.saved \in Seq(Between(t, u)) /\ e.saved # <<>>
  <2>1. a \in Between(t, u) BY <1>2, <1>3, <1>4 DEF Between
  <2> QED BY <1>4, <1>5, <2>1, OutcomeSaved DEF b
<1> HIDE DEF u
<1>7. CASE t.state = "plan_approval"
  <2>1. Consents(t, u)
    BY <1>2, <1>4, <1>7, Zenon DEF Consents, Alike, Moves
  <2> QED BY <1>1, <1>5, <1>6, <2>1 DEF LegalEffect, Steps, u
<1>8. CASE t.state # "plan_approval"
  <2>1. Alike(t, u) \/ Moves(t, u, t.approved, t.verdict)
    BY <1>2, <1>4, <1>8 DEF Alike, Moves
  <2> QED BY <1>1, <1>5, <1>6, <2>1 DEF LegalEffect, Steps, u
<1> QED BY <1>7, <1>8

\* A verdict on the result the task has, and the transition it calls for.
LEMMA JudgedByLegal ==
    ASSUME NEW t, Sound(t), NEW passed \in BOOLEAN
    PROVE  LegalEffect(JudgedBy(t, passed, t.result), t)
<1> DEFINE a == SetValidation(t, passed, t.result)
           target == IF passed THEN "done" ELSE "execution"
           v == IF passed THEN "pass" ELSE "fail"
           e == Attempt(a, target, <<a>>)
           u == Final(e)
<1>1. JudgedBy(t, passed, t.result) = e BY DEF JudgedBy
<1>2. t \in Task /\ t.result \in Nat BY DEF Sound, Task
<1>3. /\ Sound(a) /\ Kept(t, a)
      /\ t.state # "validation" => Alike(t, a)
      /\ t.state = "validation" =>
            /\ a.state = t.state /\ a.approved = t.approved /\ a.paused = t.paused
            /\ a.verdict = v
  BY <1>2, SetValidationSound, SetValidationKeeps
<1>4. a \in Task BY <1>3 DEF Sound
<1>5. target \in STATES /\ v \in {"pass", "fail"} BY DEF STATES
<1>6. target = IF v = "pass" THEN "done" ELSE "execution" OBVIOUS
<1> HIDE DEF a, target, v
<1>7. /\ Kept(a, u) /\ e.saved = Append(<<a>>, u)
      /\ Alike(a, u) \/ (Moves(a, u, a.approved, a.verdict) /\ u.state = target)
  BY <1>3, <1>5, AttemptKeeps
<1> HIDE DEF e
<1>8. Kept(t, u) BY <1>2, <1>3, <1>7, KeptOn
<1>9. e.saved \in Seq(Between(t, u)) /\ e.saved # <<>>
  <2>1. a \in Between(t, u) BY <1>3, <1>4, <1>7 DEF Between
  <2> QED BY <1>7, <1>8, <2>1, OutcomeSaved
<1> HIDE DEF u
<1>10. CASE t.state = "validation"
  <2>1. Judges(t, u, v)
    BY <1>3, <1>6, <1>7, <1>10, Zenon DEF Judges, Alike, Moves
  <2> QED BY <1>1, <1>5, <1>8, <1>9, <2>1 DEF LegalEffect, Steps, u
<1>11. CASE t.state # "validation"
  <2>1. Alike(t, u) \/ Moves(t, u, t.approved, t.verdict)
    BY <1>3, <1>7, <1>11 DEF Alike, Moves
  <2> QED BY <1>1, <1>8, <1>9, <2>1 DEF LegalEffect, Steps, u
<1> QED BY <1>10, <1>11

\* The plan is stored first, which nothing here is about.
LEMMA PlanStoredLegal ==
    ASSUME NEW t, Sound(t), t.state = "planning", NEW p \in Plans
    PROVE  LegalEffect(PlanStored(t, p), t)
<1> DEFINE a == [t EXCEPT !.plan = p, !.step = 1]
           e == Attempt(a, "plan_approval", <<>>)
           u == Final(e)
<1>1. PlanStored(t, p) = e BY DEF PlanStored
<1>2. t \in Task BY DEF Sound
<1>3. a \in Task
  <2>1. p \in Plans \cup {NoPlan} /\ 1 \in Nat OBVIOUS
  <2> QED BY <1>2, <2>1, Zenon DEF Task
<1>4. /\ a.state = t.state /\ a.approved = t.approved /\ a.verdict = t.verdict
      /\ a.paused = t.paused /\ a.prev = t.prev /\ a.expected = t.expected
      /\ a.id = t.id /\ a.hist = t.hist
      /\ a.result = t.result /\ a.verdictOf = t.verdictOf
  BY <1>2 DEF Task
<1> HIDE DEF a
<1>5. Sound(a) BY <1>3, <1>4 DEF Sound, Consented, Finished, Preserved, ExpectedFor
<1>6. Kept(t, a) BY <1>2, <1>3, <1>4 DEF Kept, Judged, Task
<1>7. /\ Kept(a, u) /\ e.saved = Append(<<>>, u)
      /\ Alike(a, u) \/ (Moves(a, u, a.approved, a.verdict) /\ u.state = "plan_approval")
  BY <1>5, AttemptKeeps DEF STATES
<1> HIDE DEF e
<1>8. Kept(t, u) BY <1>2, <1>6, <1>7, KeptOn
<1>9. e.saved \in Seq(Between(t, u)) /\ e.saved # <<>> BY <1>7, <1>8, OutcomeSaved
<1> HIDE DEF u
<1>10. Alike(t, u) \/ Moves(t, u, t.approved, t.verdict)
  BY <1>4, <1>7 DEF Alike, Moves
<1> QED BY <1>1, <1>8, <1>9, <1>10 DEF LegalEffect, Steps, u

\* Whatever the intent, its effect is legal, and a call that works or judges is
\* made only with a task that is being executed, or validated.
LEMMA IntendedLegal ==
    ASSUME NEW t, Sound(t), NEW intent \in Intents, NEW auto \in BOOLEAN
    PROVE  LET e  == Intended(intent, t)
               at == NextAwait(intent, t, e, auto)
           IN  /\ LegalEffect(e, t)
               /\ at = "work" => Final(e).state = "execution"
               /\ at = "judge" => Final(e).state = "validation"
<1> DEFINE e == Intended(intent, t)
<1>1. t \in Task BY DEF Sound
<1>2. LegalEffect(e, t)
  <2>1. LegalEffect(InPlace(ApprovePlan(t)), t)
    <3>1. Kept(t, ApprovePlan(t)) /\ Steps(t, ApprovePlan(t))
      BY ApprovePlanKeeps, Zenon DEF Steps, Alike, Consents
    <3> QED BY <1>1, <3>1, InPlaceLegal
  <2>2. CASE intent = "approve_plan"
    BY <2>1, <2>2, ApproveAndStartLegal DEF Intended, RunApprove
  <2>3. CASE intent \in {"rollback", "complete_task"}
    BY <2>3, AttemptLegal DEF Intended, STATES
  <2>4. CASE intent = "start_execution"
    BY <1>1, <2>4, UntouchedLegal, ApproveAndStartLegal, AttemptLegal
    DEF Intended, RunStartExecution, STATES
  <2>5. CASE intent = "request_validation"
    BY <1>1, <2>5, UntouchedLegal, AttemptLegal DEF Intended, RunRequestValidation, STATES
  <2>6. CASE intent \in {"validation_passed", "validation_failed"}
    <3>1. ASSUME NEW passed \in BOOLEAN PROVE LegalEffect(RunValidationFlag(t, passed), t)
      <4>1. CASE t.state = "validation" BY <4>1, JudgedByLegal DEF RunValidationFlag
      <4>2. CASE t.state # "validation"
        <5>1. RunValidationFlag(t, passed) = InPlace(SetValidation(t, passed, t.result))
          BY <4>2 DEF RunValidationFlag
        <5>2. /\ Kept(t, SetValidation(t, passed, t.result))
              /\ Steps(t, SetValidation(t, passed, t.result))
          BY <4>2, SetValidationKeeps DEF Steps
        <5> QED BY <1>1, <5>1, <5>2, InPlaceLegal
      <4> QED BY <4>1, <4>2
    <3> QED BY <2>6, <3>1 DEF Intended
  <2>7. CASE intent = "pause" BY <1>1, <2>7, PauseKeeps, InPlaceLegal DEF Intended
  <2>8. CASE intent = "resume" BY <1>1, <2>8, ResumeKeeps, InPlaceLegal DEF Intended
  <2>9. CASE intent = "continue_planning"
    <3>1. Kept(t, Record(t, FALSE)) /\ Steps(t, Record(t, FALSE))
      BY RecordKeeps DEF Steps
    <3>2. LegalEffect(RunPlanningStage(t), t)
      BY <1>1, <3>1, UntouchedLegal, InPlaceLegal DEF RunPlanningStage
    <3> QED BY <2>9, <3>2 DEF Intended
  <2>10. CASE intent \in {"normal_message", "unrecognised"}
    BY <1>1, <2>10, UntouchedLegal DEF Intended
  <2> QED BY <2>2, <2>3, <2>4, <2>5, <2>6, <2>7, <2>8, <2>9, <2>10 DEF Intents
<1>3. intent = "approve_plan" /\ Moved(e) => Final(e).state = "execution"
  <2>1. e = ApproveAndStart(t) \/ ~Moved(e) \/ intent # "approve_plan"
    BY DEF Intended, RunApprove, InPlace, Moved
  <2>3. Moved(ApproveAndStart(t)) => Final(ApproveAndStart(t)).state = "execution"
    BY ApproveAndStartOK
  <2> QED BY <2>1, <2>3
<1>4. intent = "start_execution" /\ Moved(e) => Final(e).state = "execution"
  <2>1. \/ e = ApproveAndStart(t) \/ e = Attempt(t, "execution", <<>>)
        \/ ~Moved(e) \/ intent # "start_execution"
    BY DEF Intended, RunStartExecution, Untouched, Moved
  <2>3. Moved(ApproveAndStart(t)) => Final(ApproveAndStart(t)).state = "execution"
    BY ApproveAndStartOK
  <2>4. Moved(Attempt(t, "execution", <<>>)) => Final(Attempt(t, "execution", <<>>)).state = "execution"
    BY BareAttemptOK DEF STATES
  <2> QED BY <2>1, <2>3, <2>4
<1>5. intent = "start_execution" /\ t.state = "execution" => Final(e).state = "execution"
  BY DEF Intended, RunStartExecution, Untouched, Final, Moved
<1> HIDE DEF e
<1>6. NextAwait(intent, t, e, auto) = "work" => Final(e).state = "execution"
  BY <1>3, <1>4, <1>5 DEF NextAwait, Intents
<1>7. NextAwait(intent, t, e, auto) = "judge" => Final(e).state = "validation"
  BY DEF NextAwait, Intents
<1> QED BY <1>2, <1>6, <1>7 DEF e

\* A chat turn saves around the effect the task as it was and as it is.
LEMMA InTurnLegal ==
    ASSUME NEW t \in Task, NEW e, LegalEffect(e, t), NEW said \in {<<>>, <<t>>}, NEW at
    PROVE  LegalEffect(InTurn(said, e, at), t) /\ Final(InTurn(said, e, at)) = Final(e)
<1> DEFINE w == said \o e.saved
           f == InTurn(said, e, at)
           S == Between(t, Final(e))
<1>1. /\ f.old = e.old /\ f.new = e.new
      /\ f.saved = IF at = "idle" THEN Append(w, Final(e)) ELSE w
  BY DEF InTurn
<1>2. Final(f) = Final(e) /\ (Moved(f) <=> Moved(e)) BY <1>1 DEF Final, Moved
<1>3. Kept(t, Final(e)) /\ Steps(t, Final(e)) /\ e.saved \in Seq(S)
      /\ (e.saved = <<>> => ~Moved(e))
  BY DEF LegalEffect
<1>4. Kept(t, t) /\ Kept(Final(e), Final(e)) /\ Final(e) \in Task
  BY <1>3, KeptItself DEF Kept
<1>5. t \in S /\ Final(e) \in S BY <1>3, <1>4 DEF Between
<1> HIDE DEF S, f
<1>6. w \in Seq(S) /\ (w = <<>> <=> said = <<>> /\ e.saved = <<>>)
  BY <1>3, <1>5, Around
<1> HIDE DEF w
<1>7. f.saved \in Seq(S) /\ (f.saved = <<>> => ~Moved(f))
  <2>1. CASE at = "idle" BY <1>1, <1>5, <1>6, <2>1, OneMore
  <2>2. CASE at # "idle" BY <1>1, <1>2, <1>3, <1>6, <2>2
  <2> QED BY <2>1, <2>2
<1> QED BY <1>2, <1>3, <1>7 DEF LegalEffect, S, f

----------------------------------------------------------------------------
(* Storing an effect.                                                      *)

\* With one slot nothing but the current object stays in memory.
LEMMA PlaceAlone ==
    ASSUME OneAtATime, IInv, NoObj \notin Objs, NEW r \in Requests, NEW c \in Objs, NEW h,
           NEW at, NEW S, NEW saved \in Seq(S), Place(r, h, c, at, saved)
    PROVE  /\ cur' = c /\ heap'[c] = h[c]
           /\ \A x \in Objs : x # c => heap'[x] = NoTask
           /\ \A q \in Requests :
                 /\ reqs'[q].at = at
                 /\ reqs'[q].obj = IF at = "plan" THEN c ELSE NoObj
                 /\ reqs'[q].seen = IF at = "judge" THEN h[c].result ELSE 0
           /\ disk' \in {disk} \cup S
<1> DEFINE q0 == [at |-> at, obj |-> IF at = "plan" THEN c ELSE NoObj,
                  seen |-> IF at = "judge" THEN h[c].result ELSE 0]
           rs == [reqs EXCEPT ![r] = q0]
<1>1. /\ reqs' = rs /\ cur' = c
      /\ heap' = [x \in Objs |-> IF x = c \/ x \in Refs(rs) THEN h[x] ELSE NoTask]
      /\ disk' \in {disk} \cup S
  BY SavedOrNot DEF Place
<1>2. \A q \in Requests : q = r BY DEF OneAtATime
<1>3. rs[r] = q0 BY DEF IInv, TypeOK
<1>4. q0.at = at /\ q0.obj = (IF at = "plan" THEN c ELSE NoObj)
      /\ q0.seen = IF at = "judge" THEN h[c].result ELSE 0
  OBVIOUS
<1> HIDE DEF q0, rs
<1>5. \A q \in Requests : rs[q] = q0 BY <1>2, <1>3
<1>6. Refs(rs) \subseteq {c, NoObj} BY <1>4, <1>5 DEF Refs
<1>7. \A x \in Objs : x # c => heap'[x] = NoTask BY <1>1, <1>6
<1>8. heap'[c] = h[c] BY <1>1
<1>9. \A q \in Requests : reqs'[q] = q0 BY <1>1, <1>5
<1> QED BY <1>1, <1>4, <1>7, <1>8, <1>9

LEMMA PlaceKeepsSInv ==
    ASSUME OneAtATime, IInv, SInv, NEW r \in Requests, NEW c \in Objs, NEW h,
           NEW at \in {"idle", "plan", "intent", "work", "judge", "answer"},
           NEW S, NEW saved \in Seq(S),
           h[c] \in Task, Judged(h[c]), h[c].id <= issued',
           issued' \in Nat, issued <= issued',
           \A s \in S : Kept(s, h[c]) /\ s \in Task /\ Judged(s),
           disk # NoTask =>
              /\ disk.id <= h[c].id
              /\ disk.id = h[c].id => disk.hist <= h[c].hist,
           at = "work" => h[c].state = "execution",
           at = "judge" => h[c].state = "validation",
           Place(r, h, c, at, saved)
    PROVE  SInv'
<1>1. NoObj \notin Objs BY ServiceAssumption
<1>2. /\ cur' = c /\ heap'[c] = h[c]
      /\ \A x \in Objs : x # c => heap'[x] = NoTask
      /\ \A q \in Requests :
            /\ reqs'[q].at = at
            /\ reqs'[q].obj = IF at = "plan" THEN c ELSE NoObj
            /\ reqs'[q].seen = IF at = "judge" THEN h[c].result ELSE 0
      /\ disk' \in {disk} \cup S
  BY <1>1, PlaceAlone
<1>3. h[c].id \in Nat /\ h[c].hist \in Nat /\ issued \in Nat
  BY DEF Task, IInv, TypeOK
<1>4. disk # NoTask => disk \in Task /\ disk.id \in Nat /\ Judged(disk) /\ disk.id <= issued
  BY DEF IInv, TypeOK, SInv, Known, Task
<1>5. \A s \in S : s.id = h[c].id /\ s.hist <= h[c].hist /\ s.id \in Nat
  BY <1>3 DEF Kept, Task
<1>6. disk' # NoTask =>
         /\ Judged(disk') /\ disk'.id <= h[c].id
         /\ disk'.id = h[c].id => disk'.hist <= h[c].hist
  <2>1. CASE disk' = disk BY <1>4, <2>1
  <2>2. CASE disk' \in S BY <1>3, <1>5, <2>2
  <2> QED BY <1>2, <2>1, <2>2
<1>7. disk' # NoTask => disk'.id <= issued'
  <2>1. CASE disk' = disk BY <1>3, <1>4, <2>1
  <2>2. CASE disk' \in S BY <1>5, <2>2
  <2> QED BY <1>2, <2>1, <2>2
<1>8. (\A t \in Known : Judged(t) /\ t.id <= issued)'
  <2>1. \A t \in Known' : t = h[c] \/ (t = disk' /\ disk' # NoTask)
    BY <1>2 DEF Known
  <2>2. \A t \in Known' : Judged(t) /\ t.id <= issued' BY <1>6, <1>7, <2>1
  <2> QED BY <2>2
<1>9. FileLagsMemory' BY <1>2, <1>6 DEF FileLagsMemory
<1>10. (\A q \in Requests : Awaited(q))'
  BY <1>1, <1>2 DEF Awaited
<1> QED BY <1>8, <1>9, <1>10 DEF SInv

\* A legal effect on the current task makes a current task that follows from it.
LEMMA SettleKeepsSInv ==
    ASSUME OneAtATime, IInv, SInv, cur # NoObj, NEW r \in Requests, NEW e,
           LegalEffect(e, heap[cur]),
           NEW at \in {"idle", "plan", "intent", "work", "judge", "answer"},
           at = "work" => Final(e).state = "execution",
           at = "judge" => Final(e).state = "validation",
           Settle(r, cur, e, at), UNCHANGED issued
    PROVE  /\ SInv'
           /\ cur' # NoObj
           /\ Kept(heap[cur], heap'[cur']) /\ Steps(heap[cur], heap'[cur'])
<1>1. PICK n \in Unused :
        LET x == IF Moved(e) THEN n ELSE cur
            c == IF e.saved = <<>> THEN cur ELSE x
        IN  Place(r, [heap EXCEPT ![cur] = e.old, ![x] = Final(e)], c, at, e.saved)
  BY DEF Settle
<1> DEFINE c == IF Moved(e) THEN n ELSE cur
           h == [heap EXCEPT ![cur] = e.old, ![c] = Final(e)]
           t == heap[cur]
           S == Between(t, Final(e))
<1>2. cur \in Objs /\ t # NoTask BY DEF IInv, TypeOK
<1>3. c \in Objs BY <1>2 DEF Unused
<1>4. h[c] = Final(e) BY <1>2, <1>3 DEF IInv, TypeOK
<1>5. Place(r, h, c, at, e.saved)
  <2>1. c = IF e.saved = <<>> THEN cur ELSE c BY DEF LegalEffect
  <2> QED BY <1>1, <2>1
<1>6. t \in Known BY <1>2 DEF Known
<1>7. t \in Task /\ Judged(t) /\ t.id <= issued BY <1>6 DEF IInv, SInv, Sound
<1>8. /\ Kept(t, Final(e)) /\ Steps(t, Final(e))
      /\ e.saved \in Seq(S) /\ \A s \in S : Kept(t, s) /\ Kept(s, Final(e)) /\ s \in Task
  BY DEF LegalEffect, Between
<1>9. NoObj \notin Objs BY ServiceAssumption
<1> HIDE DEF c, h, S
<1>10. cur' = c /\ heap'[c] = Final(e) BY <1>3, <1>4, <1>5, <1>8, <1>9, PlaceAlone
<1>11. /\ h[c] \in Task /\ Judged(h[c]) /\ h[c].id <= issued'
       /\ issued' \in Nat /\ issued <= issued'
  BY <1>4, <1>7, <1>8 DEF Kept, IInv, TypeOK
<1>12. \A s \in S : Kept(s, h[c]) /\ s \in Task /\ Judged(s)
  BY <1>4, <1>7, <1>8 DEF Kept
<1>13. disk # NoTask =>
          /\ disk.id <= h[c].id
          /\ disk.id = h[c].id => disk.hist <= h[c].hist
  <2>1. h[c].id = t.id /\ h[c].hist >= t.hist BY <1>4, <1>8 DEF Kept
  <2>2. t.hist \in Nat /\ h[c].hist \in Nat BY <1>7, <1>11 DEF Task
  <2>3. disk # NoTask => disk.hist \in Nat BY DEF IInv, TypeOK, Task
  <2> QED BY <2>1, <2>2, <2>3 DEF SInv, FileLagsMemory
<1>14. SInv'
  BY <1>3, <1>4, <1>5, <1>8, <1>11, <1>12, <1>13, PlaceKeepsSInv
<1> QED BY <1>3, <1>8, <1>9, <1>10, <1>14

\* A task that is made goes ahead of every one before it.
LEMMA InstallKeepsSInv ==
    ASSUME OneAtATime, IInv, SInv, NEW r \in Requests, NEW t, Sound(t), Judged(t),
           issued' = issued + 1, t.id = issued', NEW at \in {"idle", "plan"}, Install(r, t, at)
    PROVE  SInv' /\ cur' # NoObj /\ heap'[cur'] = t
<1>1. PICK n \in Unused : Place(r, [heap EXCEPT ![n] = t], n, at, <<t>>) BY DEF Install
<1> DEFINE h == [heap EXCEPT ![n] = t]
<1>2. n \in Objs /\ NoObj \notin Objs BY ServiceAssumption DEF Unused
<1>3. h[n] = t BY <1>2 DEF IInv, TypeOK
<1>4. Place(r, h, n, at, <<t>>) /\ <<t>> \in Seq({t}) BY <1>1, OneSaved
<1> DEFINE w == <<t>>
<1> HIDE DEF h, w
<1>5. cur' = n /\ heap'[n] = t
  <2>1. Place(r, h, n, at, w) /\ w \in Seq({t}) BY <1>4 DEF w
  <2> QED BY <1>2, <1>3, <2>1, PlaceAlone
<1>6. t \in Task BY DEF Sound
<1>7. issued \in Nat /\ issued' \in Nat BY DEF IInv, TypeOK
<1>8. \A s \in {t} : Kept(s, h[n]) /\ s \in Task /\ Judged(s) BY <1>3, <1>6, KeptItself
<1>9. disk # NoTask =>
         /\ disk.id <= h[n].id
         /\ disk.id = h[n].id => disk.hist <= h[n].hist
  <2>1. disk # NoTask => disk.id <= issued /\ disk.id \in Nat
    BY DEF SInv, Known, IInv, TypeOK, Task
  <2> QED BY <1>3, <1>7, <2>1
<1>10. SInv'
  <2>1. Place(r, h, n, at, w) /\ w \in Seq({t}) BY <1>4 DEF w
  <2> QED BY <1>2, <1>3, <1>6, <1>7, <1>8, <1>9, <2>1, PlaceKeepsSInv
<1> QED BY <1>2, <1>5, <1>10

\* How a task starts: in planning, or where a demo scenario puts it.
Begins(t) ==
    /\ ~t.paused
    /\ \/ t.state = "planning" /\ ~t.approved /\ t.verdict = "none"
       \/ t.state = "execution" /\ t.approved /\ t.verdict = "none"
       \/ t.state = "validation" /\ t.approved /\ t.verdict = "fail"

LEMMA CreatedBegins ==
    ASSUME NEW id \in Nat
    PROVE  Created(id).id = id /\ Begins(Created(id)) /\ Judged(Created(id))
<1>1. /\ Created(id).id = id /\ Created(id).state = "planning" /\ Created(id).verdict = "none"
      /\ Created(id).paused = FALSE /\ Created(id).approved = FALSE
  BY DEF Created
<1> QED BY <1>1, Zenon DEF Begins, Judged

LEMMA SeededBegins ==
    ASSUME NEW id \in Nat, NEW name \in Scenarios
    PROVE  Seeded(name, id).id = id /\ Begins(Seeded(name, id)) /\ Judged(Seeded(name, id))
<1> DEFINE c == Created(id)
           t1 == [c EXCEPT !.plan = DefaultPlan]
           t2 == [c EXCEPT !.plan = DefaultPlan, !.state = "execution",
                           !.approved = TRUE, !.consent = DefaultPlan, !.step = 2,
                           !.hist = 2, !.last = "allowed"]
           t3 == [c EXCEPT !.plan = DefaultPlan, !.state = "validation",
                           !.approved = TRUE, !.consent = DefaultPlan,
                           !.step = PlanLen[DefaultPlan], !.verdict = "fail",
                           !.hist = 4, !.last = "blocked"]
           s == Seeded(name, id)
<1>1. c \in Task BY CreatedSound DEF Sound
<1>2. c.id = id /\ c.state = "planning" /\ c.verdict = "none" /\ c.paused = FALSE
      /\ c.approved = FALSE
  BY DEF Created
<1>3. \E t \in {t1, t2, t3} : s = [t EXCEPT !.expected = ExpectedFor(t)]
  BY DEF Seeded, Scenarios
<1> HIDE DEF c, s
<1>4. t1.id = id /\ t1.state = "planning" /\ t1.verdict = "none" /\ t1.paused = FALSE
      /\ t1.approved = FALSE
  BY <1>1, <1>2 DEF Task
<1>5. t2.id = id /\ t2.state = "execution" /\ t2.verdict = "none" /\ t2.paused = FALSE
      /\ t2.approved = TRUE
  BY <1>1, <1>2 DEF Task
<1>6. t3.id = id /\ t3.state = "validation" /\ t3.verdict = "fail" /\ t3.paused = FALSE
      /\ t3.approved = TRUE
  BY <1>1, <1>2 DEF Task
<1>7. t1 \in Task /\ t2 \in Task /\ t3 \in Task
  <2>1. /\ DefaultPlan \in Plans \cup {NoPlan} /\ 2 \in Nat /\ 4 \in Nat /\ TRUE \in BOOLEAN
        /\ "execution" \in STATES /\ "validation" \in STATES /\ "fail" \in Verdicts
        /\ "allowed" \in {"none", "allowed", "blocked"}
        /\ "blocked" \in {"none", "allowed", "blocked"}
        /\ PlanLen[DefaultPlan] \in Nat
    BY PlansAssumption DEF STATES, Verdicts
  <2> QED BY <1>1, <2>1, Zenon DEF Task
<1> HIDE DEF t1, t2, t3
<1>8. PICK t \in {t1, t2, t3} : s = [t EXCEPT !.expected = ExpectedFor(t)] BY <1>3
<1>9. t \in Task BY <1>7, <1>8
<1>10. s.id = t.id /\ s.state = t.state /\ s.verdict = t.verdict
       /\ s.paused = t.paused /\ s.approved = t.approved
  BY <1>8, <1>9 DEF Task
<1>11. t.id = id /\ Begins(t) /\ t.verdict # "pass"
  BY <1>4, <1>5, <1>6, <1>8, Zenon DEF Begins
<1>12. s.id = id /\ Begins(s) /\ Judged(s) BY <1>10, <1>11 DEF Begins, Judged
<1> QED BY <1>12 DEF s

----------------------------------------------------------------------------
(* The steps.                                                              *)

Continues ==
    /\ cur # NoObj /\ cur' # NoObj /\ UNCHANGED issued
    /\ Kept(heap[cur], heap'[cur']) /\ Steps(heap[cur], heap'[cur'])

Starts ==
    /\ cur' # NoObj /\ issued' = issued + 1
    /\ heap'[cur'].id = issued' /\ Begins(heap'[cur'])

LEMMA StepKeepsSInv ==
    ASSUME OneAtATime, IInv, SInv, [Next]_vars
    PROVE  /\ SInv'
           /\ Continues \/ Starts \/ cur' = NoObj \/ Restart \/ UNCHANGED vars
<1> DEFINE Goal == SInv' /\ (Continues \/ Starts \/ cur' = NoObj \/ Restart \/ UNCHANGED vars)
<1>1. issued + 1 \in Nat BY DEF IInv, TypeOK
<1>2. cur # NoObj => cur \in Objs /\ heap[cur] \in Task /\ Sound(heap[cur])
  BY DEF IInv, TypeOK, Known, Sound
<1>3. ASSUME NEW r \in Requests,
             CreateTask(r) \/ StartTask(r) \/ \E name \in Scenarios : SetupScenario(r, name)
      PROVE  Goal
  <2>1. CASE CreateTask(r) \/ StartTask(r)
    <3>1. PICK at \in {"idle", "plan"} : Install(r, Created(issued'), at) /\ issued' = issued + 1
      BY <2>1 DEF CreateTask, StartTask
    <3>2. /\ Sound(Created(issued')) /\ Judged(Created(issued'))
          /\ Created(issued').id = issued' /\ Begins(Created(issued'))
      BY <1>1, <3>1, CreatedSound, CreatedBegins
    <3>3. SInv' /\ cur' # NoObj /\ heap'[cur'] = Created(issued')
      BY <3>1, <3>2, InstallKeepsSInv
    <3> QED BY <3>1, <3>2, <3>3 DEF Starts
  <2>2. ASSUME NEW name \in Scenarios, SetupScenario(r, name) PROVE Goal
    <3>1. Install(r, Seeded(name, issued'), "idle") /\ issued' = issued + 1
      BY <2>2 DEF SetupScenario
    <3>2. /\ Sound(Seeded(name, issued')) /\ Judged(Seeded(name, issued'))
          /\ Seeded(name, issued').id = issued' /\ Begins(Seeded(name, issued'))
      BY <1>1, <3>1, SeededSound, SeededBegins
    <3>3. SInv' /\ cur' # NoObj /\ heap'[cur'] = Seeded(name, issued')
      BY <3>1, <3>2, InstallKeepsSInv
    <3> QED BY <3>1, <3>2, <3>3 DEF Starts
  <2> QED BY <1>3, <2>1, <2>2
<1>4. ASSUME NEW r \in Requests, ResetTask(r) PROVE Goal
  <2>1. cur' = NoObj /\ issued' = issued /\ reqs' = reqs
        /\ disk' \in {disk, NoTask} /\ \A x \in Objs : heap'[x] \in {heap[x], NoTask}
    BY <1>4 DEF ResetTask
  <2>2. Known' \subseteq Known BY <2>1 DEF Known
  <2>3. \A q \in Requests : reqs[q].at = "idle" BY <1>4 DEF ResetTask, OneAtATime
  <2>4. SInv' BY <2>1, <2>2, <2>3 DEF SInv, FileLagsMemory, Awaited
  <2> QED BY <2>1, <2>4
\* What the handlers that end with one effect on the current task have in common.
<1>5. ASSUME NEW r \in Requests, cur # NoObj, NEW u, Kept(heap[cur], u), Steps(heap[cur], u),
             NEW at \in {"idle", "intent"},
             Settle(r, cur, InPlace(u), at), UNCHANGED issued
      PROVE  Goal
  <2>1. LegalEffect(InPlace(u), heap[cur]) BY <1>2, <1>5, InPlaceLegal
  <2>2. SInv' /\ cur' # NoObj /\ Kept(heap[cur], heap'[cur']) /\ Steps(heap[cur], heap'[cur'])
    BY <1>5, <2>1, SettleKeepsSInv
  <2> QED BY <1>5, <2>2 DEF Continues
<1>6. ASSUME NEW r \in Requests, cur # NoObj, NEW e, LegalEffect(e, heap[cur]),
             Settle(r, cur, e, "idle"), UNCHANGED issued
      PROVE  Goal
  <2>1. SInv' /\ cur' # NoObj /\ Kept(heap[cur], heap'[cur']) /\ Steps(heap[cur], heap'[cur'])
    BY <1>6, SettleKeepsSInv
  <2> QED BY <1>6, <2>1 DEF Continues
<1> HIDE DEF Goal
<1>7. ASSUME NEW r \in Requests, PreparePlan(r) PROVE Goal
  <2>1. cur # NoObj /\ UNCHANGED issued BY <1>7 DEF PreparePlan, Arrives
  <2>2. CASE heap[cur].state = "planning"
    <3>1. Settle(r, cur, Untouched(heap[cur]), "plan") BY <1>7, <2>2 DEF PreparePlan
    <3>2. LegalEffect(Untouched(heap[cur]), heap[cur]) BY <1>2, <2>1, UntouchedLegal
    <3>3. SInv' /\ cur' # NoObj /\ Kept(heap[cur], heap'[cur']) /\ Steps(heap[cur], heap'[cur'])
      BY <2>1, <3>1, <3>2, SettleKeepsSInv
    <3> QED BY <2>1, <3>3 DEF Goal, Continues
  <2>3. CASE heap[cur].state # "planning"
    BY <1>2, <1>5, <1>7, <2>1, <2>3, RecordKeeps DEF PreparePlan, Steps
  <2> QED BY <2>2, <2>3
<1>8. ASSUME NEW r \in Requests, Approve(r) PROVE Goal
  <2>1. cur # NoObj /\ UNCHANGED issued /\ Settle(r, cur, InPlace(ApprovePlan(heap[cur])), "idle")
    BY <1>8 DEF Approve, Arrives
  <2>2. Kept(heap[cur], ApprovePlan(heap[cur])) /\ Steps(heap[cur], ApprovePlan(heap[cur]))
    BY <1>2, <2>1, ApprovePlanKeeps, Zenon DEF Steps, Alike, Consents
  <2> QED BY <1>5, <2>1, <2>2
<1>9. ASSUME NEW r \in Requests, NEW passed \in BOOLEAN, Validate(r, passed) PROVE Goal
  <2> DEFINE u == SetValidation(heap[cur], passed, heap[cur].result)
  <2>1. cur # NoObj /\ UNCHANGED issued /\ Settle(r, cur, InPlace(u), "idle")
    BY <1>9 DEF Validate, Arrives
  <2>2. /\ Kept(heap[cur], u)
        /\ heap[cur].state # "validation" => Alike(heap[cur], u)
        /\ heap[cur].state = "validation" =>
              /\ u.state = heap[cur].state /\ u.approved = heap[cur].approved
              /\ u.paused = heap[cur].paused
              /\ u.verdict = IF passed THEN "pass" ELSE "fail"
    BY <1>2, <2>1, SetValidationKeeps
  <2> HIDE DEF u
  <2>3. Steps(heap[cur], u) BY <2>2, Zenon DEF Steps, Judges
  <2> QED BY <1>5, <2>1, <2>2, <2>3
<1>10. ASSUME NEW r \in Requests, NEW target \in STATES, Transition(r, target) PROVE Goal
  BY <1>2, <1>6, <1>10, AttemptLegal DEF Transition, Arrives
<1>11. ASSUME NEW r \in Requests, PauseTask(r) \/ ResumeTask(r) PROVE Goal
  BY <1>2, <1>5, <1>11, PauseKeeps, ResumeKeeps DEF PauseTask, ResumeTask, Arrives
<1>12. ASSUME NEW r \in Requests, Converse(r) \/ AnswerReady(r) PROVE Goal
  <2>1. cur # NoObj /\ UNCHANGED issued BY <1>12 DEF Converse, AnswerReady, Arrives
  <2>2. Kept(heap[cur], heap[cur]) /\ Steps(heap[cur], heap[cur])
    BY <1>2, <2>1, KeptItself DEF Steps, Alike
  <2> QED BY <1>5, <1>12, <2>1, <2>2 DEF Converse, AnswerReady
<1>13. ASSUME NEW r \in Requests, NEW intent \in Intents,
              ForcedIntent(r, intent) \/ IntentRecognised(r, intent)
       PROVE  Goal
  <2> DEFINE t == heap[cur]
             e == Intended(intent, t)
  <2>1. cur # NoObj /\ UNCHANGED issued BY <1>13 DEF ForcedIntent, IntentRecognised, Arrives
  <2>2. PICK auto \in BOOLEAN, said \in {<<>>, <<t>>} :
          LET at == NextAwait(intent, t, e, auto)
          IN  Settle(r, cur, InTurn(said, e, at), at)
    BY <1>13 DEF ForcedIntent, IntentRecognised
  <2> DEFINE at == NextAwait(intent, t, e, auto)
             f == InTurn(said, e, at)
  <2>3. at \in {"idle", "plan", "work", "judge", "answer"} BY <1>2, <2>1, IntendedOK
  <2>4. /\ LegalEffect(e, t)
        /\ at = "work" => Final(e).state = "execution"
        /\ at = "judge" => Final(e).state = "validation"
    BY <1>2, <2>1, IntendedLegal
  <2>5. Settle(r, cur, f, at) BY <2>2
  <2> HIDE DEF e, at
  <2>6. LegalEffect(f, t) /\ Final(f) = Final(e) BY <1>2, <2>1, <2>4, InTurnLegal
  <2> HIDE DEF f
  <2>7. SInv' /\ cur' # NoObj /\ Kept(t, heap'[cur']) /\ Steps(t, heap'[cur'])
    BY <2>1, <2>3, <2>4, <2>5, <2>6, SettleKeepsSInv
  <2> QED BY <2>1, <2>7 DEF Goal, Continues
<1>14. ASSUME NEW r \in Requests, NEW p \in Plans, PlanReady(r, p) PROVE Goal
  <2>1. reqs[r].at = "plan" /\ UNCHANGED issued BY <1>14 DEF PlanReady
  <2>2. cur # NoObj /\ reqs[r].obj = cur BY <2>1 DEF SInv, Awaited
  <2>3. heap[cur].state = "planning" BY <2>1, <2>2 DEF IInv, PlanningHeld
  <2>4. Settle(r, cur, PlanStored(heap[cur], p), "idle") BY <1>14, <2>2 DEF PlanReady
  <2>5. LegalEffect(PlanStored(heap[cur], p), heap[cur]) BY <1>2, <2>2, <2>3, PlanStoredLegal
  <2> QED BY <1>6, <2>1, <2>2, <2>4, <2>5
<1>15. ASSUME NEW r \in Requests, WorkDone(r) PROVE Goal
  <2>1. reqs[r].at = "work" /\ cur # NoObj /\ UNCHANGED issued /\ works' \in Nat
        /\ Settle(r, cur, InPlace(Worked(heap[cur], works')), "idle")
    BY <1>15 DEF WorkDone, IInv, TypeOK
  <2>2. heap[cur].state = "execution" BY <2>1 DEF SInv, Awaited
  <2>3. Kept(heap[cur], Worked(heap[cur], works')) /\ Steps(heap[cur], Worked(heap[cur], works'))
    BY <1>2, <2>1, <2>2, WorkedKeeps DEF Steps
  <2> QED BY <1>5, <2>1, <2>3
<1>16. ASSUME NEW r \in Requests, NEW passed \in BOOLEAN, VerdictReady(r, passed) PROVE Goal
  <2>1. reqs[r].at = "judge" /\ cur # NoObj /\ UNCHANGED issued
        /\ Settle(r, cur, JudgedBy(heap[cur], passed, reqs[r].seen), "idle")
    BY <1>16 DEF VerdictReady
  <2>2. reqs[r].seen = heap[cur].result BY <2>1 DEF SInv, Awaited
  <2>3. LegalEffect(JudgedBy(heap[cur], passed, heap[cur].result), heap[cur])
    BY <1>2, <2>1, JudgedByLegal
  <2> QED BY <1>6, <2>1, <2>2, <2>3
<1>17. ASSUME NEW r \in Requests, NEW at \in {"intent", "work", "judge", "answer"}, Gone(r, at)
       PROVE  Goal
  <2>1. reqs[r].at # "idle" /\ cur = NoObj BY <1>17 DEF Gone
  <2> QED BY <2>1 DEF SInv, Awaited
<1>18. ASSUME Restart PROVE Goal
  <2>1. PICK n \in Objs : Load(n, disk) BY <1>18 DEF Restart
  <2>2. disk' = disk /\ issued' = issued /\ \A q \in Requests : reqs'[q].at = "idle"
    BY <1>18 DEF Restart, Idle
  <2>3. Known' \subseteq Known
    BY <2>1, <2>2 DEF Load, Known
  <2>4. FileLagsMemory'
    <3>1. cur' # NoObj => heap'[cur'] = disk BY <2>1 DEF Load
    <3>2. disk # NoTask => disk.id \in Nat /\ disk.hist \in Nat
      BY DEF IInv, TypeOK, Task
    <3> QED BY <2>2, <3>1, <3>2 DEF FileLagsMemory
  <2>5. SInv' BY <2>2, <2>3, <2>4 DEF SInv, Awaited
  <2> QED BY <1>18, <2>5 DEF Goal
<1>19. CASE UNCHANGED vars
  <2>1. SInv' BY <1>19 DEF vars, SInv, Known, FileLagsMemory, Awaited
  <2> QED BY <1>19, <2>1 DEF Goal
<1> USE DEF Goal
<1> QED
  BY <1>3, <1>4, <1>7, <1>8, <1>9, <1>10, <1>11, <1>12, <1>13, <1>14, <1>15,
     <1>16, <1>17, <1>18, <1>19 DEF Next

\* If no save failed, a restart brings back the task as it was.
LEMMA RestartReturns ==
    ASSUME IInv, DiskIsMemory, Restart
    PROVE  \/ cur' = NoObj
           \/ cur # NoObj /\ cur' # NoObj /\ UNCHANGED issued /\ heap'[cur'] = heap[cur]
<1>1. PICK n \in Objs : Load(n, disk) BY DEF Restart
<1>2. UNCHANGED issued BY DEF Restart
<1>3. CASE disk = NoTask BY <1>1, <1>3 DEF Load
<1>4. CASE disk # NoTask
  <2>1. cur # NoObj /\ disk = heap[cur] BY <1>4 DEF DiskIsMemory
  <2>2. cur' = n /\ heap'[n] = disk BY <1>1, <1>4 DEF Load
  <2>3. n # NoObj BY ServiceAssumption
  <2> QED BY <1>2, <2>1, <2>2, <2>3
<1> QED BY <1>3, <1>4

\* With one request at a time, SInv holds whether or not saves fail.
THEOREM SequentialInvariance == OneAtATime => (Spec => []SInv)
<1>1. Init => SInv
  BY ServiceAssumption DEF Init, SInv, Known, FileLagsMemory, Awaited, Idle
<1>2. ASSUME OneAtATime PROVE Spec => []SInv
  <2>1. IInv /\ SInv /\ [Next]_vars => SInv' BY <1>2, StepKeepsSInv
  <2> QED BY <1>1, <2>1, Invariance, PTL DEF Spec
<1> QED BY <1>2

\* A verdict that unlocks or unlocked DONE is about the result the task has, on
\* every path on which work, rollback and validation are repeated.
THEOREM VerdictsAreOfResult == OneAtATime => (Spec => []VerdictIsForResult)
<1>1. IInv /\ SInv => VerdictIsForResult
  <2> SUFFICES ASSUME IInv, SInv, cur # NoObj PROVE Judged(heap[cur])
    BY DEF VerdictIsForResult, Judged
  <2>1. heap[cur] \in Known BY DEF IInv, TypeOK, Known
  <2> QED BY <2>1 DEF SInv
<1>2. ASSUME OneAtATime PROVE Spec => []VerdictIsForResult
  <2>1. Spec => []SInv BY <1>2, SequentialInvariance
  <2> QED BY <1>1, <2>1, Invariance, PTL
<1> QED BY <1>2

\* The file never holds a later task, or a later moment of the task, than the
\* memory, however saves and deletions fail.
THEOREM FileIsBehind == OneAtATime => (Spec => []FileLagsMemory)
<1>1. SInv => FileLagsMemory BY DEF SInv
<1>2. ASSUME OneAtATime PROVE Spec => []FileLagsMemory
  <2>1. Spec => []SInv BY <1>2, SequentialInvariance
  <2> QED BY <1>1, <2>1, PTL
<1> QED BY <1>2

\* The history of a task only grows, and a task that was replaced or deleted does
\* not come back: with one request at a time, and as long as saves work.
THEOREM HistoryStays == OneAtATime /\ ~DiskFaults => (Spec => HistoryIsKept)
<1>1. ASSUME OneAtATime, IInv, SInv, DiskIsMemory, [Next]_vars, ~UNCHANGED vars
      PROVE  /\ SameTask => heap'[cur'].hist >= heap[cur].hist
             /\ cur' # NoObj /\ ~SameTask => issued' = issued + 1 /\ heap'[cur'].id = issued'
  <2>1. cur # NoObj => /\ heap[cur] \in Task /\ heap[cur].id \in Nat
                       /\ heap[cur].id <= issued /\ heap[cur].hist \in Nat
    BY <1>1 DEF IInv, TypeOK, SInv, Known, Task
  <2>2. issued \in Nat BY <1>1 DEF IInv, TypeOK
  <2>3. CASE Continues BY <2>3 DEF Continues, SameTask, Kept
  <2>4. CASE Starts BY <2>1, <2>2, <2>4 DEF Starts, SameTask
  <2>5. CASE cur' = NoObj BY <2>5 DEF SameTask
  <2>6. CASE Restart BY <1>1, <2>1, <2>6, RestartReturns DEF SameTask
  <2> QED BY <1>1, <2>3, <2>4, <2>5, <2>6, StepKeepsSInv
<1>2. ASSUME OneAtATime, ~DiskFaults PROVE Spec => HistoryIsKept
  <2>1. IInv /\ SInv /\ DiskIsMemory /\ [Next]_vars
          => /\ [SameTask => heap'[cur'].hist >= heap[cur].hist]_vars
             /\ [cur' # NoObj /\ ~SameTask => issued' = issued + 1 /\ heap'[cur'].id = issued']_vars
    BY <1>1, <1>2
  <2>2. Spec => []SInv BY <1>2, SequentialInvariance
  <2>3. Spec => []DiskIsMemory BY <1>2, FileIsCurrent
  <2> QED BY <2>1, <2>2, <2>3, Invariance, PTL
          DEF Spec, HistoryIsKept, HistoryGrows, OnlyNewTasksAppear
<1> QED BY <1>2

----------------------------------------------------------------------------
(* The refinement.                                                         *)

\* A step between two tasks is a step of TaskLifecycle, or one that it does not see.
LEMMA StepsAreAbstract ==
    ASSUME cur # NoObj, cur' # NoObj, Steps(heap[cur], heap'[cur']), heap[cur] \in Task
    PROVE  [Abstract!ANext]_(Abstract!avars)
<1> DEFINE t == heap[cur]
           u == heap'[cur']
<1>1. /\ NoneOr(heap[cur].state, "none") = t.state
      /\ NoneOr(heap[cur].approved, FALSE) = t.approved
      /\ NoneOr(heap[cur].verdict, "none") = t.verdict
      /\ NoneOr(heap[cur].paused, FALSE) = t.paused
  BY DEF NoneOr
<1>2. /\ (NoneOr(heap[cur].state, "none"))' = u.state
      /\ (NoneOr(heap[cur].approved, FALSE))' = u.approved
      /\ (NoneOr(heap[cur].verdict, "none"))' = u.verdict
      /\ (NoneOr(heap[cur].paused, FALSE))' = u.paused
  BY DEF NoneOr
<1>3. t.state \in STATES BY DEF Task
<1>4. t.state # "none" BY <1>3 DEF STATES
<1>5. Steps(t, u) OBVIOUS
<1> HIDE DEF t, u
<1>6. ASSUME NEW c, NEW v, Moves(t, u, c, v) PROVE Abstract!Move(c, v)
  BY <1>1, <1>2, <1>4, <1>6 DEF Moves, Abstract!Move
<1>7. CASE Alike(t, u) BY <1>1, <1>2, <1>7 DEF Alike, Abstract!avars
<1>8. CASE Moves(t, u, t.approved, t.verdict)
  <2>1. Abstract!Move(t.approved, t.verdict) BY <1>6, <1>8
  <2>2. Abstract!ANext BY <1>1, <2>1, Zenon DEF Abstract!ANext
  <2> QED BY <2>2
<1>9. CASE Consents(t, u)
  <2>1. Moves(t, u, TRUE, t.verdict) => Abstract!Move(TRUE, t.verdict) BY <1>6
  <2>2. Abstract!Consent BY <1>1, <1>2, <1>9, <2>1, Zenon DEF Consents, Abstract!Consent
  <2> QED BY <2>2 DEF Abstract!ANext
<1>10. ASSUME NEW v \in {"pass", "fail"}, Judges(t, u, v) PROVE Abstract!ANext
  <2>1. Moves(t, u, t.approved, v) => Abstract!Move(t.approved, v) BY <1>6
  <2>2. Abstract!Judge(v) BY <1>1, <1>2, <1>10, <2>1, Zenon DEF Judges, Abstract!Judge
  <2> QED BY <2>2 DEF Abstract!ANext
<1>11. CASE Holds(t, u)
  <2>1. Abstract!Hold BY <1>1, <1>2, <1>4, <1>11, Zenon DEF Holds, Abstract!Hold
  <2> QED BY <2>1 DEF Abstract!ANext
<1>12. CASE Releases(t, u)
  <2>1. Abstract!Release BY <1>1, <1>2, <1>12, Zenon DEF Releases, Abstract!Release
  <2> QED BY <2>1 DEF Abstract!ANext
<1> QED BY <1>5, <1>7, <1>8, <1>9, <1>10, <1>11, <1>12 DEF Steps

LEMMA StepIsAbstract ==
    ASSUME OneAtATime, IInv, SInv, DiskIsMemory, [Next]_vars
    PROVE  [Abstract!ANext]_(Abstract!avars)
<1>1. cur # NoObj => heap[cur] \in Task BY DEF IInv, TypeOK
<1>2. CASE Continues BY <1>1, <1>2, StepsAreAbstract DEF Continues
<1>3. CASE Starts
  <2>1. Abstract!Begin BY <1>3, Zenon DEF Starts, Begins, Abstract!Begin, NoneOr
  <2> QED BY <2>1 DEF Abstract!ANext
<1>4. CASE cur' = NoObj
  <2>1. Abstract!Forget BY <1>4, Zenon DEF Abstract!Forget, NoneOr
  <2> QED BY <2>1 DEF Abstract!ANext
<1>5. CASE Restart
  <2>1. CASE cur # NoObj /\ cur' # NoObj /\ heap'[cur'] = heap[cur]
    <3>1. Steps(heap[cur], heap'[cur']) BY <2>1 DEF Steps, Alike
    <3> QED BY <1>1, <2>1, <3>1, StepsAreAbstract
  <2> QED BY <1>4, <1>5, <2>1, RestartReturns
<1>6. CASE UNCHANGED vars
  BY <1>6 DEF vars, Abstract!avars, NoneOr
<1> QED BY <1>2, <1>3, <1>4, <1>5, <1>6, StepKeepsSInv

\* With one request at a time, and as long as saves work, every behaviour of the
\* service is one of TaskLifecycle, restarts between any two handlers included.
THEOREM Refinement == OneAtATime /\ ~DiskFaults => (Spec => ImplementsTaskLifecycle)
<1>1. Init => Abstract!AInit BY DEF Init, Abstract!AInit, NoneOr
<1>2. ASSUME OneAtATime, ~DiskFaults PROVE Spec => Abstract!ASpec
  <2>1. IInv /\ SInv /\ DiskIsMemory /\ [Next]_vars => [Abstract!ANext]_(Abstract!avars)
    BY <1>2, StepIsAbstract
  <2>2. Spec => []SInv BY <1>2, SequentialInvariance
  <2>3. Spec => []DiskIsMemory BY <1>2, FileIsCurrent
  <2> QED BY <1>1, <2>1, <2>2, <2>3, Invariance, PTL DEF Spec, Abstract!ASpec
<1> QED BY <1>2 DEF ImplementsTaskLifecycle
============================================================================
