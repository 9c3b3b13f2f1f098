-------------------------- MODULE MonitoringProofs --------------------------
(***************************************************************************)
(* The safety of Monitoring for any set of jobs, any number of crashes,    *)
(* with and without faults.  The strengthening adds to the properties that *)
(* a waiting run belongs to a row that exists, and that a job is not in    *)
(* its first run and in a scheduled one at once.                           *)
(***************************************************************************)
EXTENDS Monitoring, TLAPS

RunsBelong ==
    /\ \A j \in first : row[j].status # "absent"
    /\ \A j \in Jobs : tick[j] # "none" => row[j].status # "absent"
    /\ \A j \in first : tick[j] # "collecting"

IInv ==
    /\ TypeOK
    /\ OnlyActiveScheduled
    /\ ActiveIsScheduled
    /\ StoppedHasNoNext
    /\ LastRunIsRecorded
    /\ RunningIsExact
    /\ RunsBelong

\* The end of a run keeps the status, and sets next_run_at only for an active job.
LEMMA RanFacts ==
    ASSUME TypeOK, NEW j \in Jobs
    PROVE  /\ Ran(j) \in Row
           /\ Ran(j).status = row[j].status
           /\ Ran(j).status = "stopped" => Ran(j).next = row[j].next
BY DEF TypeOK, Ran, Row, Active

LEMMA InitIInv == Init => IInv
BY MonitoringAssumption
   DEF Init, IInv, TypeOK, Row, NoRow, Statuses, OnlyActiveScheduled, ActiveIsScheduled,
       StoppedHasNoNext, LastRunIsRecorded, RunningIsExact, RunsBelong, Active

LEMMA StepKeepsIInv == IInv /\ [Next]_vars => IInv'
<1> SUFFICES ASSUME IInv, [Next]_vars PROVE IInv'
  OBVIOUS
<1> USE DEF IInv
<1>1. ASSUME NEW j \in Jobs, StartJob(j) PROVE IInv'
  <2> DEFINE new == [status |-> "active", next |-> FALSE, last |-> FALSE]
  <2>1. new \in Row /\ new.status = "active" /\ ~new.next /\ ~new.last
    BY DEF Row, Statuses
  <2>2. row' = [row EXCEPT ![j] = new] /\ row[j].status = "absent"
    BY <1>1 DEF StartJob
  <2> HIDE DEF new
  <2>3. TypeOK' BY <1>1, <2>1, <2>2 DEF StartJob, TypeOK
  <2>4. OnlyActiveScheduled' /\ ActiveIsScheduled' /\ StoppedHasNoNext' /\ LastRunIsRecorded'
    BY <1>1, <2>1, <2>2 DEF StartJob, TypeOK, OnlyActiveScheduled, ActiveIsScheduled,
                      StoppedHasNoNext, LastRunIsRecorded, Active
  <2>5. RunningIsExact' /\ RunsBelong'
    BY <1>1, <2>1, <2>2 DEF StartJob, TypeOK, RunningIsExact, RunsBelong
  <2> QED BY <2>3, <2>4, <2>5
<1>2. ASSUME NEW j \in Jobs, FirstRunDone(j) PROVE IInv'
  <2> DEFINE r == Ran(j)
  <2>1. r \in Row /\ r.status = row[j].status /\ (r.status = "stopped" => r.next = row[j].next)
    BY RanFacts
  <2>2. \/ Active(j) /\ sched' = sched \cup {j} /\ row' = [row EXCEPT ![j] = r]
        \/ Active(j) /\ sched' = sched \ {j}
             /\ row' = [row EXCEPT ![j] = [r EXCEPT !.status = "error"]]
        \/ ~Active(j) /\ sched' = sched /\ row' = [row EXCEPT ![j] = r]
    BY <1>2 DEF FirstRunDone, RegisterOrFail
  <2>3. /\ j \in first /\ first' = first \ {j} /\ running' = running \ {j}
        /\ recorded' = recorded \cup {j} /\ UNCHANGED <<tick, orphaned, crashes>>
    BY <1>2 DEF FirstRunDone
  <2> HIDE DEF r
  <2>4. [r EXCEPT !.status = "error"] \in Row /\ [r EXCEPT !.status = "error"].status = "error"
    BY <2>1 DEF Row, Statuses
  <2>5. TypeOK' BY <2>1, <2>2, <2>3, <2>4 DEF TypeOK
  <2>6. OnlyActiveScheduled' BY <2>1, <2>2 DEF TypeOK, OnlyActiveScheduled, Active
  <2>7. ActiveIsScheduled'
    BY <2>1, <2>2, <2>3, <2>4 DEF TypeOK, ActiveIsScheduled, Active
  <2>8. StoppedHasNoNext' BY <2>1, <2>2, <2>4 DEF TypeOK, StoppedHasNoNext
  <2>9. LastRunIsRecorded' BY <2>2, <2>3 DEF TypeOK, LastRunIsRecorded
  <2>10. RunningIsExact' /\ RunsBelong'
    BY <2>1, <2>2, <2>3, <2>4 DEF TypeOK, RunningIsExact, RunsBelong
  <2> QED BY <2>5, <2>6, <2>7, <2>8, <2>9, <2>10
<1>3. ASSUME NEW j \in Jobs, FirstRunAborted(j) PROVE IInv'
  BY <1>3 DEF FirstRunAborted, TypeOK, OnlyActiveScheduled, ActiveIsScheduled,
              StoppedHasNoNext, LastRunIsRecorded, RunningIsExact, RunsBelong, Active
<1>4. ASSUME NEW j \in Jobs, Fire(j) PROVE IInv'
  <2>1. row[j].status # "absent" BY <1>4 DEF Fire, OnlyActiveScheduled, Active
  <2> QED
    BY <1>4, <2>1 DEF Fire, TypeOK, OnlyActiveScheduled, ActiveIsScheduled,
              StoppedHasNoNext, LastRunIsRecorded, RunningIsExact, RunsBelong, Active
<1>5. ASSUME NEW j \in Jobs, BeginRun(j) PROVE IInv'
  <2>1. TypeOK' BY <1>5 DEF BeginRun, TypeOK
  <2>2. OnlyActiveScheduled' /\ ActiveIsScheduled' /\ StoppedHasNoNext' /\ LastRunIsRecorded'
    BY <1>5 DEF BeginRun, OnlyActiveScheduled, ActiveIsScheduled, StoppedHasNoNext,
                LastRunIsRecorded, Active
  <2>3. RunningIsExact' /\ RunsBelong'
    BY <1>5 DEF BeginRun, TypeOK, RunningIsExact, RunsBelong
  <2> QED BY <2>1, <2>2, <2>3
<1>6. ASSUME NEW j \in Jobs, RunDone(j) PROVE IInv'
  <2> DEFINE r == Ran(j)
  <2>1. r \in Row /\ r.status = row[j].status /\ (r.status = "stopped" => r.next = row[j].next)
    BY RanFacts
  <2>2. row' = [row EXCEPT ![j] = r] BY <1>6 DEF RunDone
  <2> HIDE DEF r
  <2>3. TypeOK' BY <1>6, <2>1, <2>2 DEF RunDone, TypeOK
  <2>4. OnlyActiveScheduled' /\ ActiveIsScheduled' /\ StoppedHasNoNext' /\ LastRunIsRecorded'
    BY <1>6, <2>1, <2>2 DEF RunDone, TypeOK, OnlyActiveScheduled, ActiveIsScheduled,
                            StoppedHasNoNext, LastRunIsRecorded, Active
  <2>5. RunningIsExact' /\ RunsBelong'
    BY <1>6, <2>1, <2>2 DEF RunDone, TypeOK, RunningIsExact, RunsBelong
  <2> QED BY <2>3, <2>4, <2>5
<1>7. ASSUME NEW j \in Jobs, RunAborted(j) PROVE IInv'
  BY <1>7 DEF RunAborted, TypeOK, OnlyActiveScheduled, ActiveIsScheduled,
              StoppedHasNoNext, LastRunIsRecorded, RunningIsExact, RunsBelong, Active
<1>8. ASSUME NEW j \in Jobs, StopJob(j) PROVE IInv'
  <2> DEFINE r == [row[j] EXCEPT !.status = "stopped", !.next = FALSE]
  <2>1. r \in Row /\ r.status = "stopped" /\ r.next = FALSE /\ r.last = row[j].last
    BY DEF TypeOK, Row, Statuses
  <2>2. row' = [row EXCEPT ![j] = r] BY <1>8 DEF StopJob
  <2> HIDE DEF r
  <2>3. TypeOK' BY <1>8, <2>1, <2>2 DEF StopJob, TypeOK
  <2>4. OnlyActiveScheduled' /\ ActiveIsScheduled' /\ StoppedHasNoNext' /\ LastRunIsRecorded'
    BY <1>8, <2>1, <2>2 DEF StopJob, TypeOK, OnlyActiveScheduled, ActiveIsScheduled,
                            StoppedHasNoNext, LastRunIsRecorded, Active
  <2>5. RunningIsExact' /\ RunsBelong'
    BY <1>8, <2>1, <2>2 DEF StopJob, TypeOK, RunningIsExact, RunsBelong
  <2> QED BY <2>3, <2>4, <2>5
<1>9. ASSUME CrashAndRestart PROVE IInv'
  <2>1. /\ crashes' = crashes + 1 /\ first' = {} /\ running' = {}
        /\ tick' = [j \in Jobs |-> "none"]
    BY <1>9 DEF CrashAndRestart
  <2>2. Interrupted(row', recorded') BY <1>9 DEF CrashAndRestart
  <2>3. PICK failed \in SUBSET Restorable(row') :
            sched' = Restorable(row') \ failed /\ orphaned' = failed
    BY <1>9 DEF CrashAndRestart
  <2>4. /\ row' \in [Jobs -> Row] /\ recorded' \subseteq Jobs
        /\ \A j \in Jobs : /\ row'[j].status = row[j].status
                           /\ row'[j].status = "stopped" => row'[j].next = row[j].next
                           /\ row'[j].last => row[j].last \/ j \in recorded'
        /\ recorded \subseteq recorded'
    <3>1. CASE row' = row /\ recorded' = recorded BY <3>1 DEF TypeOK
    <3>2. ASSUME NEW j \in Jobs, recorded' = recorded \cup {j},
                 row' \in {row, [row EXCEPT ![j] = Ran(j)]}
          PROVE  <2>4
      <4> DEFINE r == Ran(j)
      <4>1. r \in Row /\ r.status = row[j].status /\ (r.status = "stopped" => r.next = row[j].next)
        BY RanFacts
      <4> HIDE DEF r
      <4>2. row' = row \/ row' = [row EXCEPT ![j] = r] BY <3>2 DEF r
      <4> QED BY <3>2, <4>1, <4>2 DEF TypeOK
    <3> QED BY <2>2, <3>1, <3>2 DEF Interrupted
  <2>5. TypeOK' BY <2>1, <2>3, <2>4 DEF TypeOK, Restorable
  <2>6. OnlyActiveScheduled' /\ ActiveIsScheduled'
    BY <2>3 DEF OnlyActiveScheduled, ActiveIsScheduled, Restorable, Active
  <2>7. StoppedHasNoNext' /\ LastRunIsRecorded'
    BY <2>4 DEF StoppedHasNoNext, LastRunIsRecorded
  <2>8. RunningIsExact' /\ RunsBelong' BY <2>1 DEF RunningIsExact, RunsBelong
  <2> QED BY <2>5, <2>6, <2>7, <2>8
<1>10. CASE UNCHANGED vars
  BY <1>10 DEF vars, TypeOK, OnlyActiveScheduled, ActiveIsScheduled, StoppedHasNoNext,
               LastRunIsRecorded, RunningIsExact, RunsBelong, Active
<1> QED
  BY <1>1, <1>2, <1>3, <1>4, <1>5, <1>6, <1>7, <1>8, <1>9, <1>10 DEF Next

\* The strengthening that the safety theorems follow from.
THEOREM Invariance == Spec => []IInv
BY InitIInv, StepKeepsIInv, PTL DEF Spec

\* Every variable keeps its type.
THEOREM TypeCorrect == Spec => []TypeOK
<1>1. IInv => TypeOK BY DEF IInv
<1> QED BY <1>1, Invariance, PTL

\* No stop, crash or fault leaves an inactive job with the scheduler.
THEOREM SchedulerHoldsActive == Spec => []OnlyActiveScheduled
<1>1. IInv => OnlyActiveScheduled BY DEF IInv
<1> QED BY <1>1, Invariance, PTL

\* Only a fault can leave an active job without a schedule.
THEOREM ActiveNotForgotten == Spec => []ActiveIsScheduled
<1>1. IInv => ActiveIsScheduled BY DEF IInv
<1> QED BY <1>1, Invariance, PTL

\* A late run never gives a stopped job a next run, and the history has the run
\* that a row speaks of.
THEOREM RowsAreHonest == Spec => [](StoppedHasNoNext /\ LastRunIsRecorded)
<1>1. IInv => StoppedHasNoNext /\ LastRunIsRecorded BY DEF IInv
<1> QED BY <1>1, Invariance, PTL

\* The overlap guard never leaks a job.
THEOREM GuardIsExact == Spec => []RunningIsExact
<1>1. IInv => RunningIsExact BY DEF IInv
<1> QED BY <1>1, Invariance, PTL

\* No interleaving of runs, stops, crashes and faults revives a stopped job.
THEOREM StopIsFinal == Spec => StoppedStaysStopped
<1>1. ASSUME IInv, [Next]_vars
      PROVE  [\A j \in Jobs : row[j].status = "stopped" => row'[j].status = "stopped"]_vars
  <2> SUFFICES ASSUME NEW j \in Jobs, row[j].status = "stopped", Next
               PROVE  row'[j].status = "stopped"
    BY <1>1
  <2>1. row \in [Jobs -> Row] BY <1>1 DEF IInv, TypeOK
  <2>2. \A i \in Jobs : Ran(i).status = row[i].status
    BY <1>1, RanFacts DEF IInv
  <2>3. ASSUME NEW i \in Jobs,
               StartJob(i) \/ FirstRunAborted(i) \/ Fire(i) \/ BeginRun(i) \/ RunAborted(i)
        PROVE  row'[j].status = "stopped"
    BY <2>1, <2>3 DEF StartJob, FirstRunAborted, Fire, BeginRun, RunAborted
  <2>4. ASSUME NEW i \in Jobs, FirstRunDone(i) PROVE row'[j].status = "stopped"
    BY <2>1, <2>2, <2>4 DEF FirstRunDone, RegisterOrFail, Active
  <2>5. ASSUME NEW i \in Jobs, RunDone(i) \/ StopJob(i) PROVE row'[j].status = "stopped"
    <3>1. CASE RunDone(i) BY <2>1, <2>2, <3>1 DEF RunDone
    <3>2. CASE StopJob(i) BY <2>1, <3>2 DEF StopJob, Row
    <3> QED BY <2>5, <3>1, <3>2
  <2>6. ASSUME CrashAndRestart PROVE row'[j].status = "stopped"
    <3>1. Interrupted(row', recorded') BY <2>6 DEF CrashAndRestart
    <3> QED BY <2>1, <2>2, <3>1 DEF Interrupted
  <2> QED BY <2>3, <2>4, <2>5, <2>6 DEF Next
<1> QED BY <1>1, Invariance, PTL DEF Spec, StoppedStaysStopped
============================================================================
