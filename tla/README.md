# A verification project for llm-agent-lab

llm-agent-lab is one FastAPI application that grew by a "day" per feature: plain chats with a language
model, agents with a persistent context, several memory schemes, a controlled task lifecycle, tool calling
over MCP, scheduled log monitoring, and a retrieval-augmented (RAG) assistant with a task memory.
This directory models the parts of it that keep state, change it across awaits, processes or crashes, and
promise something about it. TLC checks the models on small instances; TLAPS proves the most important
promises for every value of their constants.

`PROJECT.json` lists components, runs, mutants (plausible bugs that make each property fail), the map from
definitions to source lines, findings and hazards.

## 1. Inventory

One uvicorn process runs everything on one event loop. Every route is `async`, services are created once and
kept in `app.state`, so two requests interleave only where a handler awaits: at a call of the provider, of
the log server or of an MCP tool. Other actors are the scheduler of Day 18 (timer tasks on the same loop),
the command line that builds the RAG index (another process on the same files) and the operator who restarts
the container. State lives in Python objects, in SQLite files (agents, monitoring, chats, vector index) and
in JSON files (lifecycle task, Day 13 task, long-term memory, grades, artifacts).

| Component | State | What is hard | What makes it correct |
|---|---|---|---|
| Day 15 lifecycle machine (`day15/lifecycle.py`) | none: a table and guards over a task | which sequences of transitions, pauses and rollbacks the guards allow | only table moves; nothing executed without an approved plan; nothing done without a passed validation |
| Day 15 lifecycle service (`day15/service.py`, `store.py`) | the current task and its file | the task object read before an await is changed after it; failed saves; restart | the machine's promises survive overlap; the history is complete; file and memory agree |
| Day 15 chat journal (`day15/service.py`) | the last 80 messages | a turn remembers a place in a list that others write, trim and replace | a turn's reply holds the turn |
| Day 18 monitoring (`day18/*`) | job and run rows, timers, ids being run | stop during a run; crash between commits; failing registration | what is scheduled is what the rows call active; a stopped job stays stopped; an active one keeps running |
| Day 25 task memory (`day25/task_state.py`) | goal, facts, notes, vehicle of a chat | any operation in any order, since a model proposes them | a correction supersedes; nothing is there twice; copies of one value agree |
| Day 25 chat (`day25/chat_service.py`, `repository.py`) | sessions, messages, evidence, task states | two awaits between reading and writing the memory; deletion in between | an answer follows its question; no lesson of a turn is lost; no rows of a deleted chat |
| Agents, Day 6/7 (`agents/*`) | live agents, two tables | the live history and the stored one are written apart | the live history is the stored one; turns are whole |
| Compression, Day 9 (`day9.py`, `context_compression.py`) | one dialog, a summary, its count | the count moves after an await | every message is in the summary or behind the count |
| Strategies and branches, Day 10 (`day10/*`) | a tree of branches; a window and facts | the answer comes when another branch is active; a failed extraction | turns are whole; a branch keeps its past; facts survive failures |
| Memory layers, Days 11/12 (`day11/*`, `day12/*`) | short-term, working and long-term memory | lifetimes of three layers; temporary sessions of a comparison | a layer outlives what it should and nothing else |
| Task stages, Day 13 (`day13/*`) | one task, its file | a turn works on an object of the past | steps in order, the file has the current task |
| RAG index build (`rag/ingestion`, `rag/index`) | temporary and live index file | crash, full disk, a second build, readers during the replacement | the live index is always one whole build |
| Chunking (`rag/chunking`) | none: text to chunks | windows, separators and cuts at their boundaries | nothing is lost, only the overlap repeats, sources are right, sizes are kept |
| RAG answers (`rag/answer_service.py`, `rag/grounding`, `rag/rewriting`) | none between requests | fallbacks, thresholds, neighbours, two generations | no answer without evidence that was in the context |
| RAG and Day 25 evaluation (`rag/*evaluation.py`, `day25/evaluation.py`) | files of grades and results | several clients load, modify and save one file | grades survive, summaries are complete |
| Day 20 investigation (`day20/*`, `mcp/registry.py`, `mcp/reports`) | one request's messages, budgets and report | two budgets, unknown tools, timeouts, a report written during the call it counts | the loop ends; every call is answered; a report that is said to be saved is there |
| Tool agents, Days 17/18 (`day17`, `day18/agent.py`, `mcp/*`) | the messages of one request | ids, broken arguments, the iteration limit, a truncated search | every call is answered and told |
| Day 19 pipeline and masking (`day19/*`) | artifacts of one run, the masker's names | names learned late, a step or a save that fails half way | no known name gets out; a run that looks whole is |
| Provider clients and routes (`deepseek.py`, `openrouter_service.py`, `api/routes.py`) | none | an exception crosses up to four layers | the failing service's status reaches the user |
| Others: Days 1 to 5, Day 8 arithmetic, Day 14, links, loaders, Gitea client, heuristics, pages, deployment | none or presentation | | see section 6 |

## 2. Modules

| Module | Models | Checked in |
|---|---|---|
| `Lifecycle`, `TaskLifecycle` | the pure machine; what a lifecycle promises, without plans, chats or files | `MCLifecycle` |
| `LifecycleService` | every endpoint and intent of Day 15 with its awaits, the JSON file | `MCLifecycle`, `MCDialogs` |
| `Monitoring` | job rows, run rows, scheduler, overlap guard, crashes | itself |
| `IndexBuild` | builds of the vector index, deaths and full disks, a search across a replacement | `MCIndexBuild` |
| `Investigation` | discovery, the tool loop, the report and its files | `MCInvestigation` |
| `AgentDialog`, `Compression`, `Branching`, `StickyFacts`, `MemoryLayers`, `TaskStages` | the dialogs of Days 6 to 13 | `MCDialogs` |
| `ChatJournal` | the journal of Day 15 | `MCServices`, itself |
| `TaskMemory` | the merge of operations into the task memory, and the reset | `MCServices`, `MCTaskMemory` |
| `ChatSessions` | the Day 25 chats: four tables, one action per commit or await of a turn | `MCServices` |
| `GroundedAnswer` | one question to the knowledge base: rewriting, retrieval, gate, generation, validation | `MCServices` |
| `ToolLoop` | one chat with a tool-calling agent and the log server's search | `MCServices` |
| `LogPipeline` | one run of the Day 19 pipeline with its masker and artifacts | `MCServices` |
| `Evaluation` | the runs and grades of Days 22 to 25 and the files they share | `MCServices` |
| `ErrorPaths` | for each endpoint the calls that can fail and the layers around them | `MCServices` |
| `FixedChunker`, `StructuralChunker` | the two ways to chunk a document | `MCServices` |
| `Services`, `Dialogs` | the components above that share no state, side by side: what `MCServices` and `MCDialogs` instantiate | |
| `Sublist` | the elements of a list that are in a set, in their order, said by counting so that it can be proved about | |
| `LifecycleProofs`, `MonitoringProofs`, `IndexBuildProofs`, `InvestigationProofs` | theorems about the module of that name | |
| `KnowledgeProofs` | theorems about `FixedChunker`, `StructuralChunker`, `TaskMemory`, `Evaluation` and `GroundedAnswer`; lemmas about lists | |
| `ToolProofs` | theorems about `ToolLoop`, `LogPipeline` and `ErrorPaths` | |
| `ChatProofs` | theorems about `ChatJournal` and `ChatSessions`, and about `Services` as a whole | |
| `DialogProofs` | theorems about `AgentDialog`, `Compression`, `Branching`, `StickyFacts`, `MemoryLayers` and `TaskStages`, and about `Dialogs` as a whole | |

`Dialogs` and `Services` hold components that share no state. A behaviour is one of one component, chosen in the
first state, so each component's states are explored in full and add up instead of multiplying; each property looks
at its component. Both state the assumptions that the modules make of their constants. The proof modules about their
components extend them, so the theorems state the very properties that the runs check.

`map` in `PROJECT.json` gives the source lines of every definition. Definitions whose comment begins with
"Mutant:" are no part of a model: each is a plausible bug of the definition after it, and the run named in
`mutants` finds the property broken when it is put in that definition's place.

### 2.1 Lifecycle, LifecycleService, TaskLifecycle, ChatJournal

The machine is pure, so `Evaluate`, `Apply` and `Record` are operators on a task. A task keeps the fields the
guards read; texts are left out, a plan is a model value with a length, a history is its length and the outcome
of its last record. `consent` and `verdictOf` are history fields: which plan the user really approved and which
result was really judged. The properties compare them with the flags the code keeps.

The service has the current object, the file and a slot for each request in hand. An action is the code between
two awaits; a handler that calls the model stops at its await, and the slot says which one and what the code
remembers across it. `prepare_plan` remembers the task OBJECT, so objects have identity (`heap`): a transition
makes a copy and leaves the old object to whoever still holds it. The effect of a handler lists the tasks it gives to
`_save`, in order (`saved`): a change and the attempt that follows it, and in a chat turn the journal entries around them
(`InTurn`). Only these reach the file (`Saves`) and only a handler that saves makes its object the current one
(`Settle`), so a handler which forgets a save leaves the file behind. When saves can fail (`DiskFaults`) the file
ends as any of the values it was given, or as it was; otherwise as the last one.

`TaskLifecycle` is the abstract specification: a phase, a consent, a verdict and a hold.
`ImplementsTaskLifecycle` says that requests which come one at a time implement it.

`ChatJournal` is the human side of the same service. A message is its turn and its kind; `intact` records, for the
properties only, whether the list lost anything since a turn began.

### 2.2 Monitoring

One row of the `jobs` table per job, the jobs registered with the scheduler, the runs that wait for the log
server, and the in-memory set that keeps runs of one job from overlapping. `StartJob` stores a job and starts its
first run; `FirstRunDone` records it and registers the job or marks it `error`; `Fire`, `BeginRun` and `RunDone`
are the timer, the start of the submitted task and its end; `StopJob` unregisters and marks; `CrashAndRestart`
loses everything but the rows and restores the active jobs. The actions with `Faults` are the failures between
two of these commits. `orphaned` is a history variable: jobs that a fault left active and unscheduled, which
the code mends at the next start.

### 2.3 TaskMemory and ChatSessions

The extractor is a language model, so `Next` of `TaskMemory` applies any operation of `task_state.py` to any memory,
in updates of any length, with the reset of an explicit change of task between them. Facts stay a sequence as they
are searched in order, by key and then by text; folding of case and spaces is in the values (a text stands for all
that fold to it).

In `ChatSessions` a turn is one message. `SendMessage`, `SetTitle`, `Extracted`, `Grounded`, `Reply`, `AddEvidence`
and `SaveState` are its steps, each up to a commit or an await; the failures of each step are actions of their own.
Between two commits that no await separates no other handler runs (`LoopFree`), but the process may die.

### 2.4 IndexBuild, FixedChunker, StructuralChunker

The build command is a process of its own next to the server. A file is told apart from its name, so a search keeps
the file it opened. What was committed (`all`) is told apart from what the main file of a WAL database holds
(`main`): only the checkpoint makes them equal, and only the main file is moved.

A text is its length, where its segments are and which positions are blank; a chunk is an interval. The fixed chunker
joins segments one by one (`Join`) and then cuts windows; the structural one makes its document up while it reads, adds
a segment to the open group or flushes first, and splits a segment that is too long at sentences and blanks. Blanks
come in runs of any length in `Blanks`: a run at a cut is dropped (`Cut(k, w)`), and a sentence is joined to the buffer
with one blank however many there were (`Sentence(n, w)`). A segment counts them as history (`spare`), so that what
its pieces hold is compared with its length exactly.

### 2.5 Investigation and ToolLoop

One request, since registry, report context and client are made for each. `AskForCalls` and `AskForAnswer` are the
answers of the model, `StartCall` is the code before the await of a tool call, and its ends are `OtherCall` or one of
the four ends of a save: nothing written, stopped in one of the two files, written but reported as failed, saved.
Writing does not await, so a timeout comes before the first write or after the last. Messages are two counts, the calls
they contain and the calls they answer; a file is the number of the call that wrote it and whether it is whole.

`ToolLoop` keeps the whole message list of the simpler agents, with the ids the provider gave or left out, and `Serve`
is what the call does on its server: nothing and an error, a search of a response line by line, or a new job.

### 2.6 The dialogs: AgentDialog, Compression, Branching, StickyFacts, MemoryLayers, TaskStages

They have one shape: a handler reads shared state, awaits the provider, and writes. A request therefore has a phase and
what it remembers; between its two actions anything else may happen. The repository of the agents never suspends, so a
turn's writes are one step (`Keep`), but its second insert may fail (`AnswerCut`) or the process may die between them
(`DiesInAnswer`). History variables named `crossed`, `overlapped`, `overwritten` or `fileFailed` mark the overlaps under
which the code promises nothing; each property says which of them it excepts, and nothing else is excepted.

The long-term memory of `MemoryLayers` is a table of keys: a decision replaces the values of its own keys and leaves the
others (`Upserted`). A value is known by the request that gave it.

The task machine of Day 13 does not change a task but returns a changed copy. In `TaskStages` the copy gets an identity
of its own only while a turn still holds the original; otherwise nobody can tell the two apart (`Copied`).

### 2.7 GroundedAnswer, LogPipeline, Evaluation, ErrorPaths

`GroundedAnswer` chooses one of four pipelines at the start. Scores of chunks, the rewriting and whatever the model
cites are free choices; filter, selection, expansion by neighbours, gate and validation are the code's.

In `LogPipeline` a text is the set of names in it. The masker knows the request's service at first and learns the names
in identifier fields of rows; what is sent, written and shown is masked with what it knows at that time.

`Evaluation` has one file shared by clients that run one question, all questions, or grade. Runs of Day 25 are played
turn by turn. All endpoints are coroutines, so a load, a change and a save are one step; a death may truncate the file.

`ErrorPaths` has a table with a row for each handler: its calls in order, each with its source of failure and the layers
around it, and the classes it catches. A failing call raises one of the exceptions its source can raise, and each layer
translates, absorbs or lets it through. The table is a set of rows, and `Routes` takes a handler's row from it.

## 3. Runs

| Run | Question | Result |
|---|---|---|
| `lifecycle_sequential` | Does the lifecycle keep its promises when requests come one at a time, and does the service then implement `TaskLifecycle`? | holds |
| `lifecycle_overlap` | Which promises survive two requests that wait for the model at once? | the safety of plans, results, pauses and the file does |
| `lifecycle_off_table` | "The ONLY transitions the code allows" with two requests | violated, finding |
| `lifecycle_blocked` | "A blocked attempt ... never mutates state, current_step" with two requests | violated, finding |
| `monitoring` | Do rows, scheduler and runs agree through stops, faults and two crashes? Does an active job keep running? | holds |
| `index_build` | Is the index in place always one whole build, and a search always within one? | holds |
| `index_overlap` | "only `os.replace`d into place after it succeeds" with two builds at once | violated, finding |
| `investigation` | Does the loop end within its budgets with every call answered, and is a report that is said to be saved on disk? | holds |
| `dialogs` | Do the dialogs of Days 6 to 13 keep what they were told, whatever overlaps, fails or is reset meanwhile? And what does Day 15 keep when saves fail? | holds |
| `services` | Do chats, memory, grounding, tool loops, errors, evaluation, journal, pipeline and chunking keep theirs? | holds |
| `memory_vehicle` | "kept in sync": the vehicle field and the fact that goes with it | violated, finding |
| `journal_slice` | "Chat messages produced by THIS turn", one turn after another | violated, finding |

### 3.1 Properties

Each is stated in full above its definition. The ones a reader of the code may doubt:

- `ApprovedPlanOnly`: a task is past approval only with the plan the user approved. `approved` is a flag of a task,
  and planning calls return to objects that others have changed meanwhile.
- `PlanningHeld`: the object that a waiting planning call holds is in planning until it returns. This is the
  reason the overlap does not break `ApprovedPlanOnly`, and the strengthening the proof needs.
- `DiskIsMemory`: if saves work, the file holds the current task whenever no handler runs. Nothing copies the memory to
  the file but the handlers' own saves: the one after a blocked attempt is easily forgotten, and a planning call that
  saves an object of the past makes it the current one, too.
- `VerdictIsForResult`: a passed verdict is about the latest result, for requests one at a time: a judgement can
  overlap with new work.
- `ActiveIsScheduled`, `JobsMakeProgress`: no interleaving of the first run, timers, stops and crashes forgets
  an active job. `StoppedStaysStopped` is the converse: no late run revives a stopped one.
- `TablesAgree`, `TasksHold`: the saved memory comes from answered messages and loses no lasting lesson.
- `LiveIsWhole`: the log of a WAL database is not moved with it.
- `CallsAreAnswered`, `LoopIsHonest`: unknown tools, failures and timeouts are answered, too, in their place.
- `SavedReport`: the metadata of a report count the call that is writing them, and `report_saved` is exactly that a save
  was successful, whatever later saves do.
- `AgentsMatchStorage`: a live agent is what a restart would read back, though the table and the list are written apart.
- `NothingLostToSummary`: the summary stands for exactly the messages before its count, also when summaries overlap:
  the later one then counts from the same base, since a base is captured with its text.
- `BranchesHold`: a branch with checkpoints up to its root never sees what its parent gets later.
- `MemoriesHold`, `StagesHold`: late answers land in the session, and in the step, that they belong to.
- `AnswersAreGrounded`: a citation of an answered question is verbatim in a chunk the model was shown.
- `EvaluationHolds`: a run over everything never erases the grade a person gives meanwhile.
- `PipelineHolds`: a name learned from the last row is masked in the first one, too.
- `ChunksKeepText`: windows and groups at every boundary of sizes, separators and overlap.
- `FailuresAreTold`: except for the sources and endpoints named in `Escapes`, which section 5 lists.

### 3.2 Bounds

| Run | Instance | Why it is enough |
|---|---|---|
| `lifecycle_*` | two plans (the fallback of three steps, one of one step); one or two requests; one object more per request than can be held, and one spare; two tasks; 9, 5 or 4 history records; 3 or 1 results | two requests show every pairwise overlap of awaits; a second task shows what a late answer does to it; a full pass through the table with one rollback takes nine records |
| `monitoring` | two jobs, two crashes, faults | jobs meet only in the scheduler and at restart; the second crash hits what the first restart restored |
| `index_build` | three builds, one file each, up to two batches, one search | a killed build, a failed one and a good one in any order; two batches tell a partial file from a whole one |
| `index_overlap` | two builds | the smallest overlap |
| `investigation` | two servers with every combination of up and down and one conflict, one tool that does not exist; three iterations, three calls, two calls in an answer | either budget can run out first, the total one in the middle of an answer |
| `dialogs` | agents, branches, memory and Day 13: two requests; compression and facts: three; two agents; limits 0 and 2, batches 1 and 2; four branches; one comparison of one profile in two sessions; two keys of the long-term memory, one in a decision; Day 13 plans of up to two steps and histories of two records | two requests show every pair of overlaps; a third one lets a summary or an extraction overlap two that also overlap; a branch of a branch of a branch has a grandparent; limit 0 leaves no window |
| `services`: chat | two chats, two turns, two crashes | the properties relate two turns, in one chat or in two, and a crash may cut either of them; the theorems of section 4 hold for any number of turns |
| `services`: memory, `memory_vehicle` | two texts, two keys of which one is the vehicle's, one field with two values, one list with one note | a fact can be found by key, by text, by both or by neither, and its key can be the vehicle's |
| `services`: grounding | three chunks on two documents, three scores around the threshold and the expansion minimum, two quotes, two citations | a quote on two pages, a neighbour below the threshold, a chunk too many |
| `services`: tool loop | two iterations, two calls, a limit of one row in two lines | a call without id in either place; a malformed line before and after the limit |
| `services`: the others | two clients and two questions; two turns and a journal of four; three names of which one is short; three segments around the sizes of both chunkers, two sentences in the segments that are too long, one of them so long that what a cut leaves is cut again, runs of no and of two blanks | the smallest instances in which two saves, an overflow, a late name and every kind of boundary meet |
| `journal_slice` | one turn, a journal of five messages | a turn writes at least three, so the third turn meets a full journal |

Objects, requests, messages, builds and files are symmetric sets. `monitoring` checks liveness and uses no symmetry.
`lifecycle_*`, `monitoring` and `memory_vehicle` check for deadlock. The others do not: their turns, builds, searches
and requests are used up, so the models stop when the last one has ended.

### 3.3 Fairness

`monitoring` and `investigation` check liveness. `FairSpec` of `Monitoring` assumes, for each job: a call of the log
server ends, since the client has a timeout; the event loop gets to each submitted task; an interval trigger fires
again; and a fault is not for ever (strong fairness of `RunDone`: of infinitely many runs that could be recorded some
are). It assumes nothing about users, crashes or registrations. The liveness properties except jobs that a failed
registration orphaned. `FairSpec` of `Investigation` is weak fairness of its next step: all it waits for is the
provider, discovery and tool calls, and each has a timeout. It assumes nothing about what the model asks for.

## 4. Proofs

Eight modules prove safety for every value of the constants. They assume what the modules assume of their constants
(named, and checked by the runs for their instances) and, where a theorem says so, one thing more. Each follows one
argument: an invariant that `Init` establishes and every action keeps, with a lemma per action; what the runs check
follows from it, or is a part of it. Invariants are written down where their proofs begin; here is why they are needed.

### 4.1 The lifecycle of Day 15 (`LifecycleProofs`)

*Any number of overlapping requests*, any plans, with or without disk faults. `IInv` says that every task known to
anyone (current, held by a waiting request, in the file) is sound, which is the conjunction of consent, validation, pause
and freshness of the expected action, and that held planning objects stay in planning. Soundness of all known tasks
is needed because a stale object or file may become current again. Operations keep a task sound (`ApplySound` to
`PlanStoredOK`), and storing a sound effect keeps `IInv` (`PlaceKeepsIInv`), so every handler does. For
`FileIsCurrent`, assuming `~DiskFaults`, each effect also gives its outcome to `_save` last, or saves nothing and changes
nothing (`SavesOutcome`): every operation is shown to (`AttemptOK`, `JudgedByOK`, ...), a chat turn keeps it so
(`InTurnOK`), and then the file follows the memory whichever object became current (`PlaceKeepsFile`).

*One request at a time* (`OneAtATime`). With one slot nothing else is served during an await, so what a request knew
before it still holds after it: `Awaited` says what that is at each await, and `SInv` adds that a verdict which counts is
about the result the task has, and that the file is behind the memory and nothing worse. From `SInv` follow
`VerdictsAreOfResult`, `FileIsBehind`, `HistoryStays` (an action property) and `Refinement`: each step of the service is a
step of `TaskLifecycle` or a stutter. The two runs with overlapping requests show that the assumption is needed.

### 4.2 Services that run on their own

- **MonitoringProofs** (any jobs and crashes, faults or not). `IInv` adds to the properties that a waiting run has a row
  and that a job is not in its first run and in a scheduled one at once. `StopIsFinal` proves the action property.
- **IndexBuildProofs** (any builds, files, searches and batches, assuming `~Overlap`). `IInv` says which file has the
  temporary name at each step, that metadata come after the last batch, that the log is in the main file before the
  move, and that the live file and the files of searches are never written to again (`BuildKeepsReaders`).
- **InvestigationProofs** (any servers, tools, budgets and answers). `IInv` adds that a running call is within the budget
  and that the report's context counts it, which is why the metadata of a save do. Every end of a call goes through
  `Record`, so `RecordKeeps` carries budgets and answers and each end only adds what it did to the files.

### 4.3 Dialogs (`DialogProofs`)

Any requests, however they overlap. A turn that waits for the provider relies on something that others could take away,
and the strengthening says that they do not, or that the history variable of the overlap is set.

- Agents: a turn under way keeps its agent loaded (`AskingIsLoaded`). Otherwise the answer would be appended to a history
  that is read from the table later. Only the end of the process forgets an agent, and that ends the turns as well.
  `DialogsWhole` adds that a turn which has written is over: one under way finds no message of its own.
- Compression: what a waiting summary covers is a beginning of the dialog as it is (`SummariesOfPrefix`), so that the
  later of two summaries may take the place of the earlier one.
- Branches: `BranchState` says that a checkpoint is always in what the parent shows (`Forked`) and that only answered
  requests have messages (`Recorded`), so ids are never used twice (`Log`). What a branch shows is defined by recursion over
  its ancestors, so what holds of it is proved of the least branch first (`EveryNumber`): it shows each message once
  (`HistoryIsListed`); it shows all it did, in the same order, when a turn is recorded anywhere (`HistoriesGrow`), so that
  checkpoints stay; and an anchored branch cuts its parent where it did (`AnchoredStays`). A new branch changes nothing of
  what the others show (`HistoriesStay`). The theorem assumes that no id stands for "no message" and that no request is
  called "seed", which is the author of the demo's messages.
- Facts: what an extraction will leave out are only turns it overlaps (`BaseHolds`).
- Memory layers: what a request leaves is in the session it began in (`TracesApart`), and one comparison alone goes
  back to a session that is not temporary (`ComparisonsApart`).
- Day 13: an object stays as long as someone refers to it, and no longer (`OnlyReferenced`). As there are fewer requests
  than objects, a transition finds room for its copy (`NewObject`), so no live object is overwritten. A finished plan
  stays finished (`Orderly`) because a late turn only adds a step it was given.
- Day 15: `LifecycleProofs` is taken over by `INSTANCE` for the lifecycle among the dialogs, since each of its steps is a
  step of that one (`LifecycleSteps`): `FileIsOfTheLastSave` and the types of its variables follow. `Dialogs` states what it
  assumes there: plans and default plan as in `LifecycleService`, and one request, as in `OneAtATime`.

The invariants of all components together give `DialogsTyped`, the types of all variables of `Dialogs`.

### 4.4 Chats (`ChatProofs`)

- Journal: `PlaceIsRemembered` is inductive by itself: whatever only appends keeps a place (`PlaceStays`), and whatever
  does not clears `intact`.
- Day 25: `ChatInv` has three layers. Between two commits that no await separates one turn runs (`OneCritical`), so what
  it wrote last is still the last message (`InChat`). An answered turn is in its chat (`AnswersAreOfChat`), so its memory
  is too. And in a chat that no overlap, deletion or death disturbed (`Alone`), what a turn will save is what is saved,
  with its own lessons and without what a change of task drops (`Carries`).

Each component's invariant has its types in it or is extended by the rest of them (`LoopTyped`, `PipelineTyped`,
`ReplyTyped`); together they give `ServicesTyped`, the types of all variables of `Services`.

### 4.5 Tools, pipeline and knowledge (`ToolProofs`, `KnowledgeProofs`)

- Tool loop: the calls still to run are those of the last question that are not answered (`OpenSince`), and everything
  before it is closed (`ClosedUpTo`); their windows are the user's if he chose one (`WindowsEnforced`).
- Pipeline: nothing was said before the search has taught the masker its names (`MaskInv`); artifacts are written in one
  order (`FilesInv`), and the trace belongs to the stage (`TraceInv`).
- The way of errors: of each call it is shown, layer by layer, which classes can come through the layers around it
  (`Flow`), and which ones reach the handler (`Arrives`: none, where one of the layers absorbs); and
  of each row of the table, that its handler knows every class that comes through one of its calls, but for those that
  no layer knows and for the places in `Escapes` (`GoodRow`). `ErrorInv` then says of the request under way that its
  exception is one that its cause can have become (`Kin`: the same status, or 503 for one without) and that the layers
  still around it are the rest of its call's, behind which its class may arrive (`Rising`).
- Fixed chunker: every character before the next window is blank or in a chunk, and a chunk so far ends at most an
  overlap beyond the start of the next window and before the end of the text (`FixedInv`).
- Structural chunker: groups follow each other and end where the open group begins or where a segment is being cut
  (`InLine`, `Ready`); what the pieces of a segment hold, their number, what is left of it and its spare blanks make up
  its length (`Adds`); a short group is forced by the segment after it, or that one is still growing and will turn out too long
  (`Justified`). What a list of pieces holds is a sum, and one more piece adds its length to it (`HeldGrows`).
- Task memory: facts that keep apart stay so because an operation writes over the first fact that it finds, by key and then
  by text, and adds one only if it finds none. `KeptIsInOrder` says what a sublist holds, from how many of its elements
  come before each place; the reset needs it.
- Evaluation: a run over everything has stored what it already asked (`Progress`), and no one grades the scenarios of Day
  25 (`Played`), which is why a new result may replace an old one there.
- Answers: whatever two searches return, merging keeps each chunk once (`MergedIs`) and the selection takes only what
  reached the threshold and neighbours of that (`Backed`, `SelectedIs`), so that what ends in the context is in the trace
  (`PreparedIs`). The selection goes candidate by candidate; that it has the value its steps give it (`StepsExist`) and
  that what every step keeps holds at the end (`StepsKeep`) are proved once, by the least step that does not.
  `GroundingInv` adds that there is no status before the end, and that a model was asked only on the way there.

### 4.6 Only model-checked

- Liveness, and everything else that rests on fairness: `JobsMakeProgress`, `Terminates`. The prover cannot do it.

Every other property of a passing run is stated by a theorem, for every number of sessions, turns, clients, chunks,
names and deaths, where the run has one.

## 5. Findings, and divergences without a run

`findings` in `PROJECT.json` has the five that a run shows. Further disagreements between the code and what is
written about it, met while modelling; the models contain the step, and no run checks the sentence:

- A planning call that returns late drops history records written meanwhile (`day15/service.py:576`), though
  `schemas/day15.py:22` speaks of the complete history. And a task that was reset or replaced during its planning call
  comes back when the call returns (`service.py:575-576`); `store.py:8-9` says a reset removes it.
- A fact renamed to the text of another one stays twice in the list (`day25/task_state.py:113`, against line 14).
- A change of task keeps constraints and terms (`chat_service.py:415`), against the comment at line 402; and it resets
  the memory even when the extractor failed, while `README.md:3022` says the previous state stays.
- An investigation that runs out of its total budget in the middle of an answer sends its final request with calls that
  no message answers (`day20/orchestrator.py:474`, `741`). The chat API refuses such a conversation; the response is then
  `partial` with an empty answer, while the comment at line 490 promises a partial summary.
- The metadata of a saved report say `completed` for ever, also when the investigation ends `partial` or `failed`: the
  update at `orchestrator.py:528` reaches no file, though `reports.py:87` calls it the context written to metadata. A
  save that times out after writing is reported as not saved.
- The docstring of `Agent.chat` calls a turn atomic; it is two transactions, and a failure of the second leaves a question
  without an answer in the table and in the live history (`agents/agent.py:119-124`, the `cut` turns of the model).
- The count of Day 9 may exceed the dialog when the dialog is cleared while a summary is being written
  (`day9.py:217`, against `context_compression.py:62-63`).
- Overlapping chats of one Day 11 session add their messages between each other's (`day11/service.py:236`).
- A Day 10 turn is recorded on the branch that is active when its answer comes (`strategies.py:336`), so it can be on
  another branch than the one it was asked on (`README.md:909`).
- Overlapping comparisons, or a chat without a session during one, leave a session of a comparison active
  (`day12/service.py:209` says the user's session is restored).
- A Day 13 turn that overlaps a step already done marks the next step as done, and a late turn can bring back an older
  task object.
- Chunks marked as used can be more than those sent: the cap of the prompt is applied later
  (`rag/answer_service.py:541-570`, `rag/context.py`, against `schemas/day23.py:73-77`). A grounded answer may be `answered`
  with an empty text.
- The fallback of the Ollama embedder and an answer of Ollama that is no JSON raise exceptions that no layer knows; the
  status endpoints and the Day 23 scores do not catch an index error, nor does the lookup of neighbours; and a chat deleted
  during a scenario of Day 25 raises an error nobody catches. All end as a bare 500 (`Escapes` in `ErrorPaths`).
- The evaluation files are written in place. A death in the middle leaves a file that `load` takes for an empty one, and
  the next save loses every grade. A Day 24 run keeps the grade that a person gave to the answer before.
- Masking knows no names of fewer than three characters and none that occur in messages only (`masking.py:6-13` promises
  more).
- `start_monitoring` may answer with an internal error after it has created the job.
- A forced intent of Day 15 may change the state with nothing shown in the chat, against the docstring of `_emit`.
- Below its minimum a structural chunk does not end at a heading or section, against the module's docstring.

Numbers and clocks that the models abstract away have traps of their own: a NaN confidence of an intent passes its clamp
as 1.0 (`day15/intent.py:248`), an infinite mileage raises outside the handler that keeps the previous memory
(`day25/task_state.py:91`), a window of under one second is empty once formatted (Day 17), and the next run that a job
shows is counted from the end of the last one, while the scheduler counts from its start (`day18/scheduler.py:83`).

## 6. Not modelled

`components` in `PROJECT.json` has the reason for each part. In short: presentation, configuration and formatting without
state; loaders and normalization, which read files and rewrite strings; token and price arithmetic; heuristics over natural
language, whose outcome enters the models as a free choice; whether a model obeys a prompt (Day 14); HTTP and MCP
transport, which enters as a call that returns, fails or does not return before something else happens.

Within modelled parts, wording, prompts and traces are left out unless a property is about them. One hazard has no
property: the results kept across replanning (`day15/service.py:557`), about which nothing says what is meant.

## 7. Plan

1. An abstract specification of a chat turn (asked, then answered or failed) that `ChatSessions` and `AgentDialog` both
   implement for turns that do not overlap.
2. The profile and the rules of Days 12 and 14, if their services get operations that await between a read and a write.
