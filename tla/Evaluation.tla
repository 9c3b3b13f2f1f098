----------------------------- MODULE Evaluation -----------------------------
(***************************************************************************)
(* The evaluation services: Days 22, 23 and 24 ask the questions of a data *)
(* set, Day 25 plays scenarios of several turns; people grade the answers  *)
(* of the first three.  One service is looked at; its results are one JSON *)
(* file, read and written whole, each time within one step of the event    *)
(* loop, but not atomically: a process that dies while it saves leaves a   *)
(* file no reader understands, and that counts as empty.                   *)
(***************************************************************************)
EXTENDS Integers, Sequences, FiniteSets

CONSTANTS Clients,     \* those who start runs
          Items,       \* number of questions of the data set (or of scenarios)
          Turns,       \* number of turns of a scenario
          Grades, Outcomes,
          None,
          MaxDeaths    \* bound on the deaths of the process

VARIABLES service,     \* "day22" ... "day25"
          file,        \* what the results file holds
          run,         \* the run each client waits for
          report,      \* what its last run over everything reported
          deaths

vars == <<service, file, run, report, deaths>>

Services == {"day22", "day23", "day24", "day25"}
Ids == 1 .. Items
Broken == <<>>           \* holds no record at all

Record(checks, grade) == [checks |-> checks, grade |-> grade]
Fresh == Record(<<>>, None)
Empty == [i \in Ids |-> None]
Idle == [todo |-> <<>>, all |-> FALSE, got |-> <<>>]

Graded == [checks : Seq(Outcomes), grade : Grades \cup {None}]
Records == Graded \cup {None}

\* Assumed of the constants by the runs and the theorems.
EvaluationAssumption == Items \in Nat \ {0} /\ None \notin Graded /\ MaxDeaths \in Nat

TypeOK ==
    /\ service \in Services
    /\ file = Broken \/ file \in [Ids -> Records]
    /\ run \in [Clients -> [todo : Seq(Ids), all : BOOLEAN, got : Seq(Outcomes)]]
    /\ report \in [Clients -> -1 .. Items]
    /\ deaths \in 0 .. MaxDeaths

Init ==
    /\ service \in Services
    /\ file = Empty
    /\ run = [c \in Clients |-> Idle]
    /\ report = [c \in Clients |-> -1]
    /\ deaths = 0

----------------------------------------------------------------------------
(* The file.                                                               *)

Load == IF file = Broken THEN Empty ELSE file

Save(i, record) == file' = [Load EXCEPT ![i] = record]

Existing(i) == IF Load[i] = None THEN Fresh ELSE Load[i]

\* Mutant: a run starts a record of its own.
PersistRunFresh(i, outcome) == Save(i, [Fresh EXCEPT !.checks = <<outcome>>])

\* Day 24 keeps the grade a person gave.
PersistRun(i, outcome) == Save(i, [Existing(i) EXCEPT !.checks = <<outcome>>])

\* The questions that count as evaluated.
Evaluated(records) == Cardinality({i \in Ids : records[i] # None})

----------------------------------------------------------------------------
(* Runs.                                                                   *)

\* One question, or one scenario.
Run(c, i) ==
    /\ run[c] = Idle
    /\ run' = [run EXCEPT ![c].todo = <<i>>]
    /\ UNCHANGED <<service, file, report, deaths>>

RunAll(c) ==
    /\ run[c] = Idle /\ service # "day25"
    /\ run' = [run EXCEPT ![c] = [Idle EXCEPT !.todo = [i \in Ids |-> i], !.all = TRUE]]
    /\ UNCHANGED <<service, file, report, deaths>>

Asks(c) == run[c].todo # <<>>

\* The question is answered; only Day 24 stores what it found, and its run over
\* everything ends with the summary.
Answered(c, o) ==
    /\ Asks(c) /\ service # "day25"
    /\ IF service = "day24" THEN PersistRun(Head(run[c].todo), o) ELSE UNCHANGED file
    /\ LET over == Len(run[c].todo) = 1
           next == [run[c] EXCEPT !.todo = Tail(@), !.got = Append(@, o)]
       IN
       /\ run' = [run EXCEPT ![c] = IF over THEN Idle ELSE next]
       /\ report' = IF over /\ run[c].all /\ service = "day24"
                    THEN [report EXCEPT ![c] = Evaluated(file')] ELSE report
    /\ UNCHANGED <<service, deaths>>

\* A turn of a scenario is answered; the last one saves the result.
Turn(c, o) ==
    /\ Asks(c) /\ service = "day25"
    /\ LET got == Append(run[c].got, o) IN
       IF Len(got) = Turns
       THEN /\ Save(Head(run[c].todo), Record(got, None))
            /\ run' = [run EXCEPT ![c] = Idle]
       ELSE /\ run' = [run EXCEPT ![c].got = got]
            /\ UNCHANGED file
    /\ UNCHANGED <<service, report, deaths>>

\* An error ends the run (or the scenario, whose result is only returned).
Fails(c) ==
    /\ Asks(c)
    /\ run' = [run EXCEPT ![c] = Idle]
    /\ UNCHANGED <<service, file, report, deaths>>

----------------------------------------------------------------------------
(* Grades.                                                                 *)

\* Days 22 and 23 store the record they are given; Day 24 only takes the grade.
UpdateResult(i, g) ==
    /\ service # "day25"
    /\ Save(i, IF service = "day24" THEN [Existing(i) EXCEPT !.grade = g] ELSE Record(<<>>, g))
    /\ UNCHANGED <<service, run, report, deaths>>

\* A save may be under way: a grade arrives at any time, a scenario must be over.
MaySave == service = "day25" => \E c \in Clients : Asks(c) /\ Len(run[c].got) + 1 = Turns

\* The process dies, perhaps while it saves, and starts again.
Dies ==
    /\ deaths < MaxDeaths
    /\ deaths' = deaths + 1
    /\ run' = [c \in Clients |-> Idle]
    /\ UNCHANGED file \/ (MaySave /\ file' = Broken)
    /\ UNCHANGED <<service, report>>

Next ==
    \/ \E c \in Clients : RunAll(c) \/ Fails(c) \/ \E i \in Ids : Run(c, i)
    \/ \E c \in Clients, o \in Outcomes : Answered(c, o) \/ Turn(c, o)
    \/ \E i \in Ids, g \in Grades : UpdateResult(i, g)
    \/ Dies

Spec == Init /\ [][Next]_vars

----------------------------------------------------------------------------
(* Properties.                                                             *)

GradeOf(i) == IF Load[i] = None THEN None ELSE Load[i].grade

\* No run, of whoever and of whatever question, erases or changes a grade: only
\* a person grading that question does, and the death of the process may.
GradesSurvive ==
    [][\A i \in Ids : GradeOf(i) \notin {None, GradeOf(i)'} =>
           deaths' # deaths \/ \E g \in Grades : UpdateResult(i, g)]_vars

\* The summary a Day 24 run over everything ends with is never short of a
\* question, whatever others ran, graded or lost in the meantime.
SummaryIsComplete == \A c \in Clients : report[c] \in {-1, Items}

\* Only scenarios that were played to the end are kept as results.
ResultsAreWhole ==
    service = "day25" => \A i \in Ids : Load[i] # None => Len(Load[i].checks) = Turns
=============================================================================
