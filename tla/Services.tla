------------------------------ MODULE Services ------------------------------
(***************************************************************************)
(* The services from Day 15's journal to the Day 25 chat, with the tool    *)
(* loops, the log pipeline, grounding, evaluation and the way of errors.   *)
(* They are checked apart: a behaviour is one of one component, chosen at  *)
(* the start, and the states add up.                                       *)
(***************************************************************************)
EXTENDS Naturals, Sequences

CONSTANTS Sessions, Turns, None, MaxCrashes,                   \* the chat
          Texts, NoText, Keys, NoKey, Fields, Values, NoValue, \* its memory
          VehicleKey, VehicleText, Lists, Notes,
          Chunks, Manual, Neighbors, Text, Quotes, NoQuote,    \* grounding
          Unknown, Scores, Threshold, ExpansionMin,
          RetrievalTopK, FinalTopK, MaxNeighbors, MaxEvidence,
          MaxToolIterations, MaxCalls, Limit, MaxLines,        \* tool loops
          Clients, Items, ScenarioTurns, Grades, Outcomes,     \* evaluation
          MaxDeaths,
          JournalTurns, Keep,                                  \* the journal
          Names, Short,                                        \* the log pipeline
          Size, Overlap, FixedSeparator, Lengths,              \* fixed chunks
          MaxChars, MinChars, StructuralSeparator, Sizes,      \* structural chunks
          Blanks, Sections, NoSection, MaxSegments, MaxSentences       \* (segments of both)

VARIABLES component,
          chatStatus, title, transcript, evidence, saved, turn, disturbed, crashes,
          memory, begun,
          mode, phase, retrieved, used, context, citations, status, asked,
          agent, chosen, stage, iteration, messages, llmCalls, search, windows, jobs,
          toolCalls, result,
          endpoint, at, layers, cause, exception, response,
          service, file, run, report, deaths,
          exists, journal, journalTurn, reply,
          request, pipelineStage, logs, known, analysis, sent, files, written, trace, shown,
          fixedStage, ranges, total, blank, start, chunks,
          segments, current, chars, section, pieces, groups, closed

chatVars == <<chatStatus, title, transcript, evidence, saved, turn, disturbed, crashes>>
memoryVars == <<memory, begun>>
answerVars == <<mode, phase, retrieved, used, context, citations, status, asked>>
loopVars == <<agent, chosen, stage, iteration, messages, llmCalls, search, windows, jobs,
              toolCalls, result>>
errorVars == <<endpoint, at, layers, cause, exception, response>>
evaluationVars == <<service, file, run, report, deaths>>
journalVars == <<exists, journal, journalTurn, reply>>
pipelineVars == <<request, pipelineStage, logs, known, analysis, sent, files, written, trace,
                  shown>>
fixedVars == <<fixedStage, ranges, total, blank, start, chunks>>
structuralVars == <<segments, current, chars, section, pieces, groups, closed>>
chunkVars == <<fixedVars, structuralVars>>
vars == <<component, chatVars, memoryVars, answerVars, loopVars, errorVars, evaluationVars,
          journalVars, pipelineVars, chunkVars>>

----------------------------------------------------------------------------
Chat == INSTANCE ChatSessions WITH
    status <- chatStatus, messages <- transcript, memory <- saved
Remembered == INSTANCE TaskMemory
Grounding == INSTANCE GroundedAnswer
Loop == INSTANCE ToolLoop
Errors == INSTANCE ErrorPaths
Evaluated == INSTANCE Evaluation WITH Turns <- ScenarioTurns
Journal == INSTANCE ChatJournal WITH Turns <- JournalTurns, turn <- journalTurn
Pipeline == INSTANCE LogPipeline WITH stage <- pipelineStage
Fixed == INSTANCE FixedChunker WITH stage <- fixedStage, Separator <- FixedSeparator
Structural == INSTANCE StructuralChunker WITH
    Separator <- StructuralSeparator, ended <- closed

\* What the modules assume of their constants.
ServicesAssumption ==
    /\ Chat!ChatAssumption /\ Remembered!MemoryAssumption /\ Grounding!GroundingAssumption
    /\ Loop!ToolLoopAssumption /\ Fixed!FixedAssumption /\ Structural!StructuralAssumption
    /\ Journal!KeepAssumption /\ Evaluated!EvaluationAssumption

ASSUME ServicesConstants == ServicesAssumption

Unless(name, property) == component # name => property

\* The components that begin in one of several states do so when they are chosen.
Init ==
    /\ component \in {"chat", "memory", "grounding", "tool loop", "errors", "evaluation",
                      "journal", "pipeline", "fixed chunks", "structural chunks"}
    /\ Chat!Init /\ Remembered!Init /\ Journal!Init /\ Fixed!Init
    /\ Structural!Init
    /\ Grounding!Init /\ Unless("grounding", mode = "plain")
    /\ Loop!Init /\ Unless("tool loop", agent = "logs" /\ ~chosen)
    /\ Errors!Init /\ Unless("errors", endpoint = "health")
    /\ Evaluated!Init /\ Unless("evaluation", service = "day22")
    /\ Pipeline!Init
    /\ Unless("pipeline", /\ request.service = CHOOSE n \in Names : TRUE
                          /\ request.question = {} /\ request.filter = {} /\ ~request.mask)

Only(name, others) == component = name /\ UNCHANGED <<component, others>>

Next ==
    \/ /\ Only("chat", <<memoryVars, answerVars, loopVars, errorVars, evaluationVars,
                         journalVars, pipelineVars, chunkVars>>)
       /\ Chat!Next
    \/ /\ Only("memory", <<chatVars, answerVars, loopVars, errorVars, evaluationVars,
                           journalVars, pipelineVars, chunkVars>>)
       /\ Remembered!Next
    \/ /\ Only("grounding", <<chatVars, memoryVars, loopVars, errorVars, evaluationVars,
                              journalVars, pipelineVars, chunkVars>>)
       /\ Grounding!Next
    \/ /\ Only("tool loop", <<chatVars, memoryVars, answerVars, errorVars, evaluationVars,
                              journalVars, pipelineVars, chunkVars>>)
       /\ Loop!Next
    \/ /\ Only("errors", <<chatVars, memoryVars, answerVars, loopVars, evaluationVars,
                           journalVars, pipelineVars, chunkVars>>)
       /\ Errors!Next
    \/ /\ Only("evaluation", <<chatVars, memoryVars, answerVars, loopVars, errorVars,
                               journalVars, pipelineVars, chunkVars>>)
       /\ Evaluated!Next
    \/ /\ Only("journal", <<chatVars, memoryVars, answerVars, loopVars, errorVars,
                            evaluationVars, pipelineVars, chunkVars>>)
       /\ Journal!Next
    \/ /\ Only("pipeline", <<chatVars, memoryVars, answerVars, loopVars, errorVars,
                             evaluationVars, journalVars, chunkVars>>)
       /\ Pipeline!Next
    \/ /\ Only("fixed chunks", <<chatVars, memoryVars, answerVars, loopVars, errorVars,
                                 evaluationVars, journalVars, pipelineVars, structuralVars>>)
       /\ Fixed!Next
    \/ /\ Only("structural chunks", <<chatVars, memoryVars, answerVars, loopVars, errorVars,
                                      evaluationVars, journalVars, pipelineVars, fixedVars>>)
       /\ Structural!Next

Spec == Init /\ [][Next]_vars

----------------------------------------------------------------------------
(* Properties, each of one component (and looked at only there).           *)

Of(name, property) == component = name => property

\* The variables of the component at work have their types.
TypeOK ==
    /\ Of("chat", Chat!TypeOK) /\ Of("memory", Remembered!TypeOK)
    /\ Of("grounding", Grounding!TypeOK) /\ Of("tool loop", Loop!TypeOK)
    /\ Of("errors", Errors!TypeOK) /\ Of("evaluation", Evaluated!TypeOK)
    /\ Of("journal", Journal!TypeOK) /\ Of("pipeline", Pipeline!TypeOK)
    /\ Of("fixed chunks", Fixed!TypeOK) /\ Of("structural chunks", Structural!TypeOK)

\* The four tables of the chat agree, whatever fails, dies or is deleted between
\* two commits: no rows without their chat, no evidence without its answer, no
\* lesson of a turn that failed, no title but the first message.
TablesAgree ==
    Of("chat", /\ Chat!RowsHaveSession /\ Chat!EvidenceHasAnswer
               /\ Chat!MemoryOfAnswered /\ Chat!TitleIsFirst)

\* Turns that do not overlap lose no lasting lesson and never mix two tasks.
TasksHold == Of("chat", Chat!NothingForgotten /\ Chat!TasksNotMixed)

\* Facts never contradict each other, and repeating an operation adds nothing.
FactsHold == Of("memory", Remembered!FactsSupersede /\ Remembered!RepeatIsHarmless)

\* An answer cites verbatim what the model was shown, which is never below the
\* threshold but for the neighbours of a good hit.
AnswersAreGrounded == Of("grounding", Grounding!AnsweredIsProved /\ Grounding!ContextIsRelevant)

\* Every call of the model is answered, and every call that started a job or lost
\* rows is told; the user's window is the only one searched.
LoopIsHonest ==
    Of("tool loop", /\ Loop!CallsAreClosed /\ Loop!StartedIsReported
                    /\ Loop!ChosenWindowOnly /\ Loop!CompleteUnlessTruncated)

\* A failure is told with its status, and a side call never costs the answer.
FailuresAreTold == Of("errors", Errors!FailureIsExplained /\ Errors!SideCallsAreHarmless)

\* Only a person grading a question, or a death, changes its grade; summaries count
\* every question, and results are of whole scenarios.
EvaluationHolds ==
    Evaluated!GradesSurvive /\ []Evaluated!SummaryIsComplete /\ []Evaluated!ResultsAreWhole

\* Unless the journal lost messages meanwhile, a turn is delivered whole.
TurnIsDelivered == Of("journal", Journal!PlaceIsRemembered /\ Journal!TurnIsDelivered)

\* No name the masker learned reaches the model, the disk or the user; a pipeline
\* tells what became of each tool, and its metadata comes last.
PipelineHolds ==
    Of("pipeline", /\ Pipeline!KnownStaysInside
                   /\ Pipeline!MetadataMeansWhole /\ Pipeline!OutcomesAreTold)

\* Chunking loses nothing, repeats only the overlap, names its sources and keeps to
\* the sizes.
ChunksKeepText ==
    /\ Of("fixed chunks", /\ Fixed!NothingLeftOut /\ Fixed!OnlyOverlapRepeats
                          /\ Fixed!SourcesAreNamed)
    /\ Of("structural chunks", /\ Structural!WithinLimit /\ Structural!SegmentsAreKept
                               /\ Structural!ShortIsForced)
=============================================================================
