------------------------------ MODULE Dialogs -------------------------------
(***************************************************************************)
(* The dialogs of Days 7 to 15, each with its own service, its own state   *)
(* and its own races.  They share nothing, so a behaviour is one of one    *)
(* component, chosen at the start, and the states add up.  Day 15 is here  *)
(* with a disk that may fail; its other runs are MCLifecycle's.            *)
(***************************************************************************)
EXTENDS Naturals, Sequences

CONSTANTS Requests,          \* two requests at a time,
          ManyRequests,      \* or three where one is cheap
          Comparisons, Profiles, MaxSessions, NoSession, Keys, NoRequest, MaxEntries,
          Agents, Default, None,
          Limits, BatchSizes, DemoLength,
          MaxBranches, SeedLength, NoBranch, NoMessage,
          MaxSteps, MaxTasks, MaxObjects, NoTask,
          Plans, DefaultPlan, NoPlan, PlanLen, DiskFaults, Objs, NoObj, OneRequest,
          MaxCycles, MaxHist, MaxResults

VARIABLES component,
          stored, configs, live, agentRequest,
          fullHistory, summary, count, day9Request, outlived,
          branches, messages, activeBranch, madeBranches, branchRequest,
          histories, facts, factsError, factsRequest, crossed,
          madeSessions, activeSession, shortTerm, working, longTerm, memoryFile,
          memoryRequest, comparison, temporary, memoryFailed, overlapped,
          objects, current, taskFile, taskRequest, taskFailed, overwritten, forced,
          heap, cur, disk, reqs, issued, works

agentVars == <<stored, configs, live, agentRequest>>
day9Vars == <<fullHistory, summary, count, day9Request, outlived>>
branchVars == <<branches, messages, activeBranch, madeBranches, branchRequest>>
factsVars == <<histories, facts, factsError, factsRequest, crossed>>
memoryVars == <<madeSessions, activeSession, shortTerm, working, longTerm, memoryFile,
                memoryRequest, comparison, temporary, memoryFailed, overlapped>>
taskVars == <<objects, current, taskFile, taskRequest, taskFailed, overwritten, forced>>
lifecycleVars == <<heap, cur, disk, reqs, issued, works>>
vars == <<component, agentVars, day9Vars, branchVars, factsVars, memoryVars, taskVars,
          lifecycleVars>>

Dialog == INSTANCE AgentDialog WITH request <- agentRequest
Compressed == INSTANCE Compression WITH
    Requests <- ManyRequests, history <- fullHistory, request <- day9Request,
    crossed <- outlived
Branched == INSTANCE Branching WITH
    active <- activeBranch, made <- madeBranches, request <- branchRequest
Sticky == INSTANCE StickyFacts WITH
    Requests <- ManyRequests, history <- histories, request <- factsRequest
Layered == INSTANCE MemoryLayers WITH
    made <- madeSessions, active <- activeSession, file <- memoryFile,
    request <- memoryRequest, fileFailed <- memoryFailed
Staged == INSTANCE TaskStages WITH
    file <- taskFile, request <- taskRequest, fileFailed <- taskFailed

Cycled == INSTANCE LifecycleService WITH Requests <- OneRequest, MaxTasks <- MaxCycles

\* What the modules assume of their constants.
DialogsAssumption ==
    /\ Dialog!AgentsAssumption /\ Compressed!CompressionAssumption
    /\ Branched!BranchingAssumption /\ Layered!LayersAssumption /\ Staged!StagesAssumption
    /\ Cycled!PlansAssumption /\ Cycled!NoTaskAssumption /\ Cycled!ServiceAssumption
    /\ \A r, q \in OneRequest : r = q

ASSUME DialogsConstants == DialogsAssumption

Init ==
    /\ component \in {"agents", "compression", "branching", "facts", "memory", "task",
                      "lifecycle"}
    /\ Dialog!Init /\ Compressed!Init /\ Branched!Init
    /\ Sticky!Init /\ Layered!Init /\ Staged!Init /\ Cycled!Init
    /\ component # "agents" => configs = [a \in Agents |-> None]

Only(name, others) == component = name /\ UNCHANGED <<component, others>>

Next ==
    \/ /\ Only("agents", <<day9Vars, branchVars, factsVars, memoryVars, taskVars, lifecycleVars>>)
       /\ Dialog!Next
    \/ /\ Only("compression", <<agentVars, branchVars, factsVars, memoryVars, taskVars, lifecycleVars>>)
       /\ Compressed!Next
    \/ /\ Only("branching", <<agentVars, day9Vars, factsVars, memoryVars, taskVars, lifecycleVars>>)
       /\ Branched!Next
    \/ /\ Only("facts", <<agentVars, day9Vars, branchVars, memoryVars, taskVars, lifecycleVars>>)
       /\ Sticky!Next
    \/ /\ Only("memory", <<agentVars, day9Vars, branchVars, factsVars, taskVars, lifecycleVars>>)
       /\ Layered!Next
    \/ /\ Only("task", <<agentVars, day9Vars, branchVars, factsVars, memoryVars, lifecycleVars>>)
       /\ Staged!Next
    \/ /\ Only("lifecycle", <<agentVars, day9Vars, branchVars, factsVars, memoryVars, taskVars>>)
       /\ Cycled!Next

Spec == Init /\ [][Next]_vars

----------------------------------------------------------------------------
(* Properties, each of one component.                                      *)

Of(name, property) == component = name => property

\* The variables of the component at work have their types.
TypeOK ==
    /\ Of("agents", Dialog!TypeOK) /\ Of("compression", Compressed!TypeOK)
    /\ Of("branching", Branched!TypeOK) /\ Of("facts", Sticky!TypeOK)
    /\ Of("memory", Layered!TypeOK) /\ Of("task", Staged!TypeOK)
    /\ Of("lifecycle", Cycled!TypeOK)

\* A live agent shows and sends what a restart would read back, and stored
\* dialogs consist of whole turns.
AgentsMatchStorage == Of("agents", Dialog!LiveIsStored /\ Dialog!TurnsWhole)

\* No message is lost between the summary and the messages after its count.
NothingLostToSummary ==
    Of("compression", Compressed!SummaryOfPrefix /\ Compressed!OnlyPendingIsLeftOut)

\* Branches form a tree, turns are recorded whole, whichever branch is active
\* when the answer comes, and an anchored branch never sees what its parent or a
\* sibling gets later.
BranchesHold ==
    /\ []Branched!ConversationIsTree /\ []Branched!TurnsStayWhole
    /\ Branched!PastIsFixed

\* Facts survive failures and never outlive their dialog.
FactsHold == Of("facts", Sticky!FactsAreKept /\ Sticky!FactsAreOfThisDialog)

\* Requests stay in the session they began in, a comparison gives the user the
\* session back, and the long-term memory keeps what it was given.
MemoriesHold ==
    Of("memory", Layered!SessionsApart /\ Layered!LongTermIsKept /\ Layered!RestoredByOne)

\* The file of Day 13 has the current task, no planned step is skipped, and only
\* transitions of the table happen.
StagesHold == []Staged!FileIsCurrent /\ []Staged!StepsInOrder /\ Staged!OnlyTableMoves

\* When saves fail, the file of Day 15 is behind the memory and nothing worse: a
\* restart finds the task as it was at its last save.
FileLagsMemory == Of("lifecycle", Cycled!FileLagsMemory)
=============================================================================
