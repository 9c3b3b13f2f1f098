--------------------------- MODULE Investigation ----------------------------
(***************************************************************************)
(* One investigation of Day 20 (src/app/services/day20/orchestrator.py,    *)
(* with mcp/registry.py, day20/reports.py, day20/artifacts.py and          *)
(* mcp/reports/client.py): the model chooses tools of several MCP servers  *)
(* until it answers or a budget is used up; one of the tools writes the    *)
(* report, which is two files.                                             *)
(*                                                                         *)
(* The registry, the report context and the client are made anew for each  *)
(* request, so investigations share nothing.  Arguments, results, masking  *)
(* and the trace are left out; a result is known by how the call ended.    *)
(***************************************************************************)
EXTENDS Naturals, Sequences

CONSTANTS Servers, Tools,
          SaveReport,         \* the tool that writes the report
          Listings,           \* what the servers may offer, by server
          MaxToolIterations, MaxTotalToolCalls,
          MaxBatch,           \* bound: tool calls in one answer of the model
          NoFile

ASSUME InvestigationAssumption ==
    /\ Listings \subseteq [Servers -> SUBSET Tools]
    /\ MaxToolIterations \in Nat /\ MaxTotalToolCalls \in Nat /\ MaxBatch \in Nat

VARIABLES phase,
          toolMap,       \* the tools that resolve to a server
          iterations,
          batch,         \* the tool calls of the model's last answer
          position,      \* the one of them the loop is at
          asked,         \* how many tool calls the messages contain
          answered,      \* how many of them the messages answer
          toolCalls,     \* tool_calls_out: the calls made and how they ended
          context,       \* what the report's metadata are taken from
          files,         \* investigation.md and metadata.json on disk
          artifacts,     \* whether the client has captured a descriptor
          content,       \* whether there is an answer
          loopError, limitReached, status

conversation == <<batch, position, asked, answered>>
vars == <<phase, toolMap, iterations, conversation, toolCalls, context, files,
          artifacts, content, loopError, limitReached, status>>

Context == [status: {"in_progress", "completed", "partial", "failed"}, count: Nat]

\* A file says which call wrote it and whether all of it was written; the
\* metadata also hold the context as it was.
File == [call: Nat, whole: BOOLEAN]
MetadataFile == [call: Nat, whole: BOOLEAN, context: Context]
CallRecord == [tool: Tools, status: {"ok", "error", "timeout"}]

Init ==
    /\ phase = "discover"
    /\ toolMap = {}
    /\ iterations = 0
    /\ batch = <<>> /\ position = 1
    /\ asked = 0 /\ answered = 0
    /\ toolCalls = <<>>
    /\ context = [status |-> "in_progress", count |-> 0]
    /\ files = [md |-> NoFile, meta |-> NoFile]
    /\ artifacts = FALSE
    /\ content = FALSE /\ loopError = FALSE /\ limitReached = FALSE
    /\ status = "none"

----------------------------------------------------------------------------
(* Discovery.                                                              *)

Colliding(listing) ==
    {t \in Tools : \E s1, s2 \in Servers :
        s1 # s2 /\ t \in listing[s1] /\ t \in listing[s2]}

ToolsIn(listing) == UNION {listing[s] : s \in Servers}

\* A server that does not answer offers nothing and hides no other.  Two
\* servers with one tool, or no tool at all, end the investigation.
Discover(listing) ==
    /\ phase = "discover"
    /\ toolMap' = ToolsIn(listing) \ Colliding(listing)
    /\ IF Colliding(listing) # {} \/ ToolsIn(listing) = {}
       THEN phase' = "done" /\ status' = "failed"
       ELSE phase' = "ask" /\ status' = status
    /\ UNCHANGED <<iterations, conversation, toolCalls, context, files,
                   artifacts, content, loopError, limitReached>>

----------------------------------------------------------------------------
(* A request to the model.                                                 *)

\* The model may name a tool that no server offers.
Batches == UNION {[1 .. n -> Tools] : n \in 1 .. MaxBatch}

AskForCalls(calls) ==
    /\ phase = "ask"
    /\ iterations < MaxToolIterations
    /\ iterations' = iterations + 1
    /\ batch' = calls
    /\ position' = 1
    /\ asked' = asked + Len(calls)
    /\ phase' = "calls"
    /\ UNCHANGED <<toolMap, answered, toolCalls, context, files, artifacts,
                   content, loopError, limitReached, status>>

\* An answer without calls has text, or the provider's client raises.
AskForAnswer ==
    /\ phase = "ask"
    /\ iterations < MaxToolIterations
    /\ iterations' = iterations + 1
    /\ phase' = "finish"
    /\ \/ content' = TRUE /\ loopError' = loopError
       \/ loopError' = TRUE /\ content' = content
    /\ UNCHANGED <<toolMap, conversation, toolCalls, context, files, artifacts,
                   limitReached, status>>

IterationsUsedUp ==
    /\ phase = "ask"
    /\ iterations >= MaxToolIterations
    /\ limitReached' = TRUE
    /\ phase' = "finish"
    /\ UNCHANGED <<toolMap, iterations, conversation, toolCalls, context, files,
                   artifacts, content, loopError, status>>

----------------------------------------------------------------------------
(* The calls of one answer, one after the other.                           *)

Current == batch[position]

NextCall ==
    /\ position' = position + 1
    /\ phase' = IF position = Len(batch) THEN "ask" ELSE "calls"

HasBudget == Len(toolCalls) < MaxTotalToolCalls

\* The calls that are left stay in the messages without an answer.
CallsUsedUp ==
    /\ phase = "calls"
    /\ ~HasBudget
    /\ limitReached' = TRUE
    /\ phase' = "finish"
    /\ UNCHANGED <<toolMap, iterations, conversation, toolCalls, context, files,
                   artifacts, content, loopError, status>>

\* Mutants: an unknown tool is skipped without an answer; or it takes the
\* iteration back and asks again.
UnknownToolSkipped ==
    /\ phase = "calls"
    /\ HasBudget
    /\ Current \notin toolMap
    /\ NextCall
    /\ UNCHANGED <<toolMap, iterations, batch, asked, answered, toolCalls, context,
                   files, artifacts, content, loopError, limitReached, status>>
UnknownToolRetried ==
    /\ phase = "calls"
    /\ HasBudget
    /\ Current \notin toolMap
    /\ iterations' = iterations - 1
    /\ asked' = asked - Len(batch)
    /\ answered' = answered - (position - 1)
    /\ position' = position
    /\ phase' = "ask"
    /\ UNCHANGED <<toolMap, batch, toolCalls, context, files, artifacts, content,
                   loopError, limitReached, status>>

\* It is answered with an error and does not count as a call.
UnknownTool ==
    /\ phase = "calls"
    /\ HasBudget
    /\ Current \notin toolMap
    /\ answered' = answered + 1
    /\ NextCall
    /\ UNCHANGED <<toolMap, iterations, batch, asked, toolCalls, context, files,
                   artifacts, content, loopError, limitReached, status>>

\* sync_context before the call, which counts it.  Mutant: it does not.
PendingUncounted(t) ==
    [status |-> IF t = SaveReport THEN "completed" ELSE "in_progress",
     count |-> Len(toolCalls)]
Pending(t) ==
    [status |-> IF t = SaveReport THEN "completed" ELSE "in_progress",
     count |-> Len(toolCalls) + 1]

StartCall ==
    /\ phase = "calls"
    /\ HasBudget
    /\ Current \in toolMap
    /\ context' = Pending(Current)
    /\ phase' = "await"
    /\ UNCHANGED <<toolMap, iterations, conversation, toolCalls, files, artifacts,
                   content, loopError, limitReached, status>>

\* What follows every call: its record, sync_context and its answer.
Record(how) ==
    /\ toolCalls' = Append(toolCalls, [tool |-> Current, status |-> how])
    /\ context' = [status |-> "in_progress", count |-> Len(toolCalls) + 1]
    /\ answered' = answered + 1
    /\ NextCall
    /\ UNCHANGED <<toolMap, iterations, batch, asked, content, loopError,
                   limitReached, status>>

OtherCall(how) ==
    /\ phase = "await"
    /\ Current # SaveReport
    /\ Record(how)
    /\ UNCHANGED <<files, artifacts>>

----------------------------------------------------------------------------
(* A call of save_report.  It writes without giving up the processor, so   *)
(* a timeout comes before the first write or after the last.               *)

ThisCall == Len(toolCalls) + 1
Md(whole) == [call |-> ThisCall, whole |-> whole]
Meta(whole) == [call |-> ThisCall, whole |-> whole, context |-> context]

\* The arguments are refused, the session fails or the time is up before the
\* report is written, or the file cannot be opened.
SaveRefused(how) ==
    /\ phase = "await" /\ Current = SaveReport
    /\ how \in {"error", "timeout"}
    /\ Record(how)
    /\ UNCHANGED <<files, artifacts>>

\* Writing stops in one of the two files; the first is whole when the second
\* is opened.
SaveBroken ==
    /\ phase = "await" /\ Current = SaveReport
    /\ \/ files' = [files EXCEPT !.md = Md(FALSE)]
       \/ files' = [files EXCEPT !.md = Md(TRUE)]
       \/ files' = [md |-> Md(TRUE), meta |-> Meta(FALSE)]
    /\ Record("error")
    /\ UNCHANGED artifacts

\* The report is written and then its session fails or its time is up.
SaveLost(how) ==
    /\ phase = "await" /\ Current = SaveReport
    /\ how \in {"error", "timeout"}
    /\ files' = [md |-> Md(TRUE), meta |-> Meta(TRUE)]
    /\ Record(how)
    /\ UNCHANGED artifacts

Save ==
    /\ phase = "await" /\ Current = SaveReport
    /\ files' = [md |-> Md(TRUE), meta |-> Meta(TRUE)]
    /\ artifacts' = TRUE
    /\ Record("ok")

----------------------------------------------------------------------------
(* The end.                                                                *)

StatusOf(hasContent) ==
    IF loopError /\ ~hasContent THEN "failed"
    ELSE IF limitReached \/ loopError THEN "partial" ELSE "completed"

\* Without an answer the model is asked once more, without tools; that may
\* fail.  The context gets its last values, which no file is written from.
Finish(synthesis) ==
    /\ phase = "finish"
    /\ content' = (content \/ synthesis)
    /\ status' = StatusOf(content \/ synthesis)
    /\ context' = [status |-> StatusOf(content \/ synthesis), count |-> Len(toolCalls)]
    /\ phase' = "done"
    /\ UNCHANGED <<toolMap, iterations, conversation, toolCalls, files, artifacts,
                   loopError, limitReached>>

Next ==
    \/ \E listing \in Listings : Discover(listing)
    \/ \E calls \in Batches : AskForCalls(calls)
    \/ AskForAnswer
    \/ IterationsUsedUp
    \/ CallsUsedUp
    \/ UnknownTool
    \/ StartCall
    \/ \E how \in {"ok", "error", "timeout"} : OtherCall(how)
    \/ \E how \in {"error", "timeout"} : SaveRefused(how)
    \/ SaveBroken
    \/ \E how \in {"error", "timeout"} : SaveLost(how)
    \/ Save
    \/ \E synthesis \in BOOLEAN : Finish(synthesis)

Spec == Init /\ [][Next]_vars

\* Every request to the provider and every call of a tool has a timeout, and
\* nothing else is waited for.
FairSpec == Spec /\ WF_vars(Next)

----------------------------------------------------------------------------
(* Properties.                                                             *)

\* Types, with both budgets: the model is asked at most MaxToolIterations
\* times in the loop of investigate, and at most MaxTotalToolCalls calls reach
\* a server.
TypeOK ==
    /\ phase \in {"discover", "ask", "calls", "await", "finish", "done"}
    /\ toolMap \subseteq Tools
    /\ iterations \in 0 .. MaxToolIterations
    /\ batch \in Seq(Tools)
    /\ position \in Nat \ {0}
    /\ phase \in {"calls", "await"} => position <= Len(batch)
    /\ asked \in Nat /\ answered \in Nat
    /\ toolCalls \in Seq(CallRecord)
    /\ Len(toolCalls) <= MaxTotalToolCalls
    /\ context \in Context
    /\ files \in [md: File \cup {NoFile}, meta: MetadataFile \cup {NoFile}]
    /\ artifacts \in BOOLEAN /\ content \in BOOLEAN
    /\ loopError \in BOOLEAN /\ limitReached \in BOOLEAN
    /\ status \in {"none", "completed", "partial", "failed"}

\* Whenever the model is asked with tools, the messages answer every call it
\* has made before, also those of unknown tools and failed servers, as the
\* protocol of the provider demands.  Calls stay open in the request for the
\* final synthesis only when the total budget ran out among the calls of one
\* answer; they are then the rest of that answer.
CallsAreAnswered ==
    /\ phase = "ask" => answered = asked
    /\ phase \in {"calls", "await"} => asked = answered + (Len(batch) - position + 1)
    /\ phase \in {"finish", "done"} /\ answered # asked =>
           /\ limitReached
           /\ Len(toolCalls) = MaxTotalToolCalls
           /\ asked = answered + (Len(batch) - position + 1)

Saved(i) == toolCalls[i] = [tool |-> SaveReport, status |-> "ok"]

\* The response says that a report was saved iff a call of save_report was
\* successful.  A successful save that no later save has disturbed is on disk
\* as two whole files of one call, and its metadata count the calls up to and
\* including itself and say that the investigation is completed.
SavedReport ==
    /\ artifacts <=> \E i \in DOMAIN toolCalls : Saved(i)
    /\ \A i \in DOMAIN toolCalls :
           /\ Saved(i)
           /\ \A j \in DOMAIN toolCalls : j > i => toolCalls[j].tool # SaveReport
           => files = [md |-> [call |-> i, whole |-> TRUE],
                       meta |-> [call |-> i, whole |-> TRUE,
                                 context |-> [status |-> "completed", count |-> i]]]

\* The loop ends whatever the model and the servers do.
Terminates == <>(phase = "done")
=============================================================================
