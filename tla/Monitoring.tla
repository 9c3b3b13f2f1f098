----------------------------- MODULE Monitoring -----------------------------
(***************************************************************************)
(* The Day 18 monitoring service (src/app/services/day18/): jobs are rows  *)
(* of a SQLite table, the schedule is APScheduler's in-memory table, and   *)
(* the first run of a job happens inside the request that starts it.       *)
(*                                                                         *)
(* A run waits for the log server in _collect; everything else can happen  *)
(* in the meantime, a stop and a restart of the process included.  SQLite  *)
(* commits each call on its own, so a crash may fall between two of them.  *)
(* A scheduled run first is a task APScheduler has submitted, and reads    *)
(* the job only when the event loop gets to it.  Clock times are left out: *)
(* a registered job may fire at any moment.                                *)
(***************************************************************************)
EXTENDS Naturals

CONSTANTS Jobs,        \* ids of monitoring jobs
          Faults,      \* whether registering may fail, and a first run be aborted
          MaxCrashes   \* bound: crashes of the process

ASSUME MonitoringAssumption == Faults \in BOOLEAN /\ MaxCrashes \in Nat

VARIABLES row,        \* monitor_jobs: status, whether next_run_at and last_run_at are set
          recorded,   \* monitor_runs: jobs with at least one run
          sched,      \* the ids registered with the scheduler
          first,      \* jobs whose start_job waits for its inline run
          tick,       \* scheduled run of a job: none, submitted or collecting
          running,    \* MonitoringService._running
          orphaned,   \* history: jobs that a fault left active and unscheduled
          crashes     \* crashes so far

vars == <<row, recorded, sched, first, tick, running, orphaned, crashes>>

Statuses == {"absent", "active", "stopped", "error"}
Row == [status: Statuses, next: BOOLEAN, last: BOOLEAN]
NoRow == [status |-> "absent", next |-> FALSE, last |-> FALSE]

Active(j) == row[j].status = "active"

Init ==
    /\ row = [j \in Jobs |-> NoRow]
    /\ recorded = {}
    /\ sched = {}
    /\ first = {}
    /\ tick = [j \in Jobs |-> "none"]
    /\ running = {}
    /\ orphaned = {}
    /\ crashes = 0

----------------------------------------------------------------------------
(* The end of a run: the run is recorded, then the job is read again and   *)
(* its row updated.                                                        *)

\* Mutant: the row is written back from the copy read before the await.
RanStale(j) == [row[j] EXCEPT !.status = "active", !.next = TRUE, !.last = TRUE]

Ran(j) ==
    IF Active(j) THEN [row[j] EXCEPT !.next = TRUE, !.last = TRUE]
                 ELSE [row[j] EXCEPT !.last = TRUE]

\* Registers the job or, when the scheduler fails, marks it as failed; in
\* the row r that it has by now.
RegisterOrFail(j, r) ==
    \/ sched' = sched \cup {j} /\ row' = [row EXCEPT ![j] = r]
    \/ Faults /\ sched' = sched \ {j} /\ row' = [row EXCEPT ![j] = [r EXCEPT !.status = "error"]]

----------------------------------------------------------------------------
(* Requests and scheduler events.                                          *)

\* start_job up to the await of its inline run.
StartJob(j) ==
    /\ row[j].status = "absent"
    /\ row' = [row EXCEPT ![j] = [status |-> "active", next |-> FALSE, last |-> FALSE]]
    /\ first' = first \cup {j}
    /\ running' = running \cup {j}
    /\ UNCHANGED <<recorded, sched, tick, orphaned, crashes>>

\* Mutant: the job is scheduled although it was stopped during its first run.
FirstRunDoneUnchecked(j) ==
    /\ j \in first
    /\ recorded' = recorded \cup {j}
    /\ first' = first \ {j}
    /\ running' = running \ {j}
    /\ RegisterOrFail(j, Ran(j))
    /\ UNCHANGED <<tick, orphaned, crashes>>

\* The inline run ends and start_job goes on without another await.
FirstRunDone(j) ==
    /\ j \in first
    /\ recorded' = recorded \cup {j}
    /\ first' = first \ {j}
    /\ running' = running \ {j}
    /\ IF Active(j)
       THEN RegisterOrFail(j, Ran(j))
       ELSE row' = [row EXCEPT ![j] = Ran(j)] /\ UNCHANGED sched
    /\ UNCHANGED <<tick, orphaned, crashes>>

\* The inline run raises (the database is locked) or its task is cancelled (the
\* MCP session timed out): nothing registers the job.
FirstRunAborted(j) ==
    /\ Faults
    /\ j \in first
    /\ first' = first \ {j}
    /\ running' = running \ {j}
    /\ orphaned' = IF Active(j) THEN orphaned \cup {j} ELSE orphaned
    /\ UNCHANGED <<row, recorded, sched, tick, crashes>>

\* APScheduler submits a run of a registered job; max_instances=1.
Fire(j) ==
    /\ j \in sched
    /\ tick[j] = "none"
    /\ tick' = [tick EXCEPT ![j] = "submitted"]
    /\ UNCHANGED <<row, recorded, sched, first, running, orphaned, crashes>>

\* The submitted task starts: it leaves at once if the job runs already or is
\* not active any more.
BeginRun(j) ==
    /\ tick[j] = "submitted"
    /\ IF j \notin running /\ Active(j)
       THEN tick' = [tick EXCEPT ![j] = "collecting"] /\ running' = running \cup {j}
       ELSE tick' = [tick EXCEPT ![j] = "none"] /\ UNCHANGED running
    /\ UNCHANGED <<row, recorded, sched, first, orphaned, crashes>>

\* Mutant: the end of a run leaves the job in _running.
RunDoneLeaky(j) ==
    /\ tick[j] = "collecting"
    /\ recorded' = recorded \cup {j}
    /\ row' = [row EXCEPT ![j] = Ran(j)]
    /\ tick' = [tick EXCEPT ![j] = "none"]
    /\ UNCHANGED <<running, sched, first, orphaned, crashes>>

RunDone(j) ==
    /\ tick[j] = "collecting"
    /\ recorded' = recorded \cup {j}
    /\ row' = [row EXCEPT ![j] = Ran(j)]
    /\ tick' = [tick EXCEPT ![j] = "none"]
    /\ running' = running \ {j}
    /\ UNCHANGED <<sched, first, orphaned, crashes>>

\* A scheduled run raises: APScheduler logs it and keeps the schedule.
RunAborted(j) ==
    /\ Faults
    /\ tick[j] = "collecting"
    /\ tick' = [tick EXCEPT ![j] = "none"]
    /\ running' = running \ {j}
    /\ UNCHANGED <<row, recorded, sched, first, orphaned, crashes>>

\* Stopping a job that is stopped already only unregisters it again.
StopJob(j) ==
    /\ row[j].status # "absent"
    /\ row' = [row EXCEPT ![j] = [@ EXCEPT !.status = "stopped", !.next = FALSE]]
    /\ sched' = sched \ {j}
    /\ orphaned' = orphaned \ {j}
    /\ UNCHANGED <<recorded, first, tick, running, crashes>>

----------------------------------------------------------------------------
(* Crash and restart.                                                      *)

\* Mutant: only jobs with a planned run are restored.
RestorablePlanned(rows) == {j \in Jobs : rows[j].status = "active" /\ rows[j].next}

\* restore_active_jobs lists the active jobs, with or without a planned run.
Restorable(rows) == {j \in Jobs : rows[j].status = "active"}

\* What a crash leaves in the database if it happens between two handlers, or in
\* the end of a run between create_run and update_job, or (a first run) between
\* update_job and the registration.
Interrupted(rows, recs) ==
    \/ rows = row /\ recs = recorded
    \/ \E j \in Jobs :
          /\ j \in first \/ tick[j] = "collecting"
          /\ recs = recorded \cup {j}
          /\ rows \in {row, [row EXCEPT ![j] = Ran(j)]}

\* The process dies and starts again: what was waiting is lost, the lifespan
\* handler starts the scheduler and restores the active jobs.  With faults some
\* of them fail to register and stay active.
CrashAndRestart ==
    /\ crashes < MaxCrashes
    /\ crashes' = crashes + 1
    /\ \E rows \in {row} \cup {[row EXCEPT ![j] = Ran(j)] : j \in Jobs},
          recs \in {recorded} \cup {recorded \cup {j} : j \in Jobs} :
          /\ Interrupted(rows, recs)
          /\ row' = rows
          /\ recorded' = recs
          /\ \E failed \in IF Faults THEN SUBSET Restorable(rows) ELSE {{}} :
                /\ sched' = Restorable(rows) \ failed
                /\ orphaned' = failed
    /\ first' = {}
    /\ tick' = [j \in Jobs |-> "none"]
    /\ running' = {}

Next ==
    \/ \E j \in Jobs :
          \/ StartJob(j) \/ FirstRunDone(j) \/ FirstRunAborted(j)
          \/ Fire(j) \/ BeginRun(j) \/ RunDone(j) \/ RunAborted(j) \/ StopJob(j)
    \/ CrashAndRestart

Spec == Init /\ [][Next]_vars

\* A call to the log server returns or times out (VictoriaLogsClient sets a
\* timeout), the event loop gets to every submitted task, and the scheduler
\* fires a registered job again and again (interval trigger).  A fault is not for
\* ever: of infinitely many runs of a job some are recorded.
Fairness ==
    \A j \in Jobs :
        WF_vars(FirstRunDone(j)) /\ WF_vars(Fire(j)) /\ WF_vars(BeginRun(j)) /\ SF_vars(RunDone(j))

FairSpec == Spec /\ Fairness

----------------------------------------------------------------------------
(* Properties.                                                             *)

TypeOK ==
    /\ row \in [Jobs -> Row]
    /\ recorded \subseteq Jobs /\ sched \subseteq Jobs /\ first \subseteq Jobs
    /\ tick \in [Jobs -> {"none", "submitted", "collecting"}]
    /\ running \subseteq Jobs /\ orphaned \subseteq Jobs
    /\ crashes \in Nat

\* The scheduler never holds a job that was stopped or failed, although a stop may
\* fall into the first run of the job (start_job re-reads the row, stop_job unregisters).
OnlyActiveScheduled == \A j \in sched : Active(j)

\* An active job is scheduled or still in its first run, so it is not forgotten
\* without a trace: a crash anywhere before the registration is made good by the
\* restart (restore_active_jobs).  Faults may orphan a job.
ActiveIsScheduled == \A j \in Jobs : Active(j) => j \in sched \cup first \cup orphaned

\* A stopped job shows no next run, although a run may end after the stop (run_job).
StoppedHasNoNext == \A j \in Jobs : row[j].status = "stopped" => ~row[j].next

\* The run behind last_run_at is in the history, whenever the process dies
\* (create_run before update_job).
LastRunIsRecorded == \A j \in Jobs : row[j].last => j \in recorded

\* _running holds exactly the jobs that wait for the log server: nothing leaks into
\* it, which would silence the job for ever (the finally of run_job).
RunningIsExact == running = first \cup {j \in Jobs : tick[j] = "collecting"}

\* Once stopped, a job stays stopped: no run that was under way writes back the
\* status it read before (run_job, "Never clobber a stopped/error status").
StoppedStaysStopped ==
    [][\A j \in Jobs : row[j].status = "stopped" => row'[j].status = "stopped"]_vars

\* A job that stays active and that no fault orphaned is run again and again, by
\* the process that started it or by a later one (interval trigger, restart).
ActiveKeepsRunning ==
    \A j \in Jobs : <>[](Active(j) /\ j \notin orphaned) => []<>(tick[j] = "collecting")

\* Every job that was started gets a result, unless it is stopped, fails or is
\* orphaned: the dashboard does not wait for ever for its first result.
FirstResultArrives ==
    \A j \in Jobs : Active(j) ~> (j \in recorded \/ ~Active(j) \/ j \in orphaned)

\* What a job is started for: a first result soon, and runs for as long as it is active.
JobsMakeProgress == FirstResultArrives /\ ActiveKeepsRunning
=============================================================================
