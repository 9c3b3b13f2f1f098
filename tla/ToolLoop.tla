------------------------------ MODULE ToolLoop ------------------------------
(***************************************************************************)
(* One chat with a tool-calling agent: Day 17 (search_logs over the        *)
(* VictoriaLogs MCP server) and Day 18 (the monitoring MCP server).  The   *)
(* tools are discovered, then the model is asked in turn with tool calls   *)
(* being executed, at most MaxToolIterations times.                        *)
(*                                                                         *)
(* A call is known by its place, the round and its number in it.  Both MCP *)
(* clients turn every exception into an error result, so the agents'       *)
(* handlers for exceptions of call_tool are left out.                      *)
(***************************************************************************)
EXTENDS Naturals, SequencesExt

CONSTANTS MaxToolIterations,  \* MAX_TOOL_ITERATIONS
          MaxCalls,           \* bound: tool calls in one message of the model
          Limit, MaxLines     \* rows a search may return; bound: lines of a response

\* Assumed of the constants by the runs and the theorems.
ToolLoopAssumption ==
    MaxToolIterations \in Nat \ {0} /\ MaxCalls \in Nat \ {0} /\ Limit \in Nat \ {0}

VARIABLES agent,       \* which of the two agents
          chosen,      \* the user chose a time window (Day 17)
          stage,       \* "start", "ready" (to ask the model), "calling", "ended"
          iteration,   \* messages of the model so far
          messages,    \* the dialog after the question
          llmCalls,    \* tool calls of the last message that are still to run
          search,      \* the last response of the log server and what became of it
          windows,     \* the time windows that were searched
          jobs,        \* the jobs that were started, by the place of the call
          toolCalls,   \* tool_calls of the response
          result       \* "none", "answer" or "error"

vars == <<agent, chosen, stage, iteration, messages, llmCalls, search, windows,
          jobs, toolCalls, result>>

Places == (1 .. MaxToolIterations) \X (1 .. MaxCalls)

\* A provider's ids are unique; a call without one is numbered in its message.
Ids == Places \cup ({0} \X (1 .. MaxCalls))

Tools(kind) == IF kind = "logs" THEN {"search_logs"}
               ELSE {"start_monitoring", "stop_monitoring", "get_monitoring_summary"}

\* Arguments that are no JSON object count as no arguments at all.
Call == [place : Places, id : Ids, tool : Tools("logs") \cup Tools("monitoring") \cup {"unknown"},
         given : BOOLEAN, window : {"own", "chosen"}]
Message == [role : {"assistant"}, ids : Seq(Ids)] \cup [role : {"tool"}, id : Ids]

NoSearch == [lines |-> <<>>, rows |-> 0, malformed |-> 0, truncated |-> FALSE]

TypeOK ==
    /\ agent \in {"logs", "monitoring"} /\ chosen \in BOOLEAN
    /\ stage \in {"start", "ready", "calling", "ended"}
    /\ iteration \in 0 .. MaxToolIterations
    /\ messages \in Seq(Message) /\ llmCalls \in Seq(Call)
    /\ search \in [lines : Seq({"row", "malformed", "blank"}), rows : 0 .. Limit,
                   malformed : Nat, truncated : BOOLEAN]
    /\ windows \subseteq {"own", "chosen"}
    /\ jobs \subseteq Places /\ toolCalls \in Seq(Places)
    /\ result \in {"none", "answer", "error"}

Init ==
    /\ agent \in {"logs", "monitoring"}
    /\ chosen \in BOOLEAN /\ (chosen => agent = "logs")
    /\ stage = "start" /\ iteration = 0
    /\ messages = <<>> /\ llmCalls = <<>> /\ toolCalls = <<>>
    /\ search = NoSearch /\ windows = {} /\ jobs = {}
    /\ result = "none"

----------------------------------------------------------------------------
(* The log server's search.                                                *)

Lines == UNION {[1 .. n -> {"row", "malformed", "blank"}] : n \in 0 .. MaxLines}

HowMany(lines, n, kind) == Cardinality({i \in 1 .. n : lines[i] = kind})

\* The client reads a response up to the line that completes the limit.
LinesRead(lines) ==
    Min({n \in 0 .. Len(lines) : HowMany(lines, n, "row") = Limit} \cup {Len(lines)})

Found(lines) ==
    LET read == LinesRead(lines) IN
    [lines |-> lines, rows |-> HowMany(lines, read, "row"),
     malformed |-> HowMany(lines, read, "malformed"),
     truncated |-> HowMany(lines, read, "row") >= Limit]

\* What a call does on the server.  Wrong arguments, an unknown job, a log
\* server that fails and a lost connection all come back as an error result
\* without an effect; start_monitoring may fail after it has created the job.
Serve(call) ==
    \/ UNCHANGED <<search, windows, jobs>>
    \/ /\ call.given /\ call.tool = "search_logs"
       /\ \E lines \in Lines : search' = Found(lines)
       /\ windows' = windows \cup {call.window}
       /\ UNCHANGED jobs
    \/ /\ call.given /\ call.tool = "start_monitoring"
       /\ jobs' = jobs \cup {call.place}
       /\ UNCHANGED <<search, windows>>

----------------------------------------------------------------------------
(* The agent.                                                              *)

\* Mutant: an error forgets the calls made so far.
EndsForgetful(how) ==
    /\ stage' = "ended" /\ result' = how
    /\ toolCalls' = IF how = "error" THEN <<>> ELSE toolCalls

Ends(how) == stage' = "ended" /\ result' = how /\ toolCalls' = toolCalls

Discover ==
    /\ stage = "start"
    /\ stage' = "ready"
    /\ UNCHANGED <<agent, chosen, iteration, messages, llmCalls, search, windows,
                   jobs, toolCalls, result>>

\* The server is not available, or the model fails.
Fails ==
    /\ stage = "start" \/ (stage = "ready" /\ iteration < MaxToolIterations)
    /\ Ends("error")
    /\ UNCHANGED <<agent, chosen, iteration, messages, llmCalls, search, windows, jobs>>

Answers ==
    /\ stage = "ready" /\ iteration < MaxToolIterations
    /\ Ends("answer")
    /\ UNCHANGED <<agent, chosen, iteration, messages, llmCalls, search, windows, jobs>>

IterationLimit ==
    /\ stage = "ready" /\ iteration = MaxToolIterations
    /\ Ends("error")
    /\ UNCHANGED <<agent, chosen, iteration, messages, llmCalls, search, windows, jobs>>

\* Day 17: the user's window replaces the model's.
Enforced(calls) ==
    [i \in DOMAIN calls |->
        IF chosen /\ calls[i].tool = "search_logs"
        THEN [calls[i] EXCEPT !.window = "chosen"] ELSE calls[i]]

\* The tool calls a message of the model may have, with or without ids.
Selections ==
    LET At(i) == {c \in [place : {<<iteration + 1, i>>}, id : {<<iteration + 1, i>>, <<0, i>>},
                         tool : Tools(agent) \cup {"unknown"}, given : BOOLEAN,
                         window : {"own"}] : c.tool = "unknown" => c.given}
    IN  UNION {{s \in [1 .. n -> UNION {At(i) : i \in 1 .. n}] : \A i \in 1 .. n : s[i] \in At(i)} :
                  n \in 1 .. MaxCalls}

SelectTools ==
    /\ stage = "ready" /\ iteration < MaxToolIterations
    /\ \E calls \in Selections :
          /\ messages' = Append(messages,
                [role |-> "assistant", ids |-> [i \in DOMAIN calls |-> calls[i].id]])
          /\ llmCalls' = Enforced(calls)
    /\ iteration' = iteration + 1
    /\ stage' = "calling"
    /\ UNCHANGED <<agent, chosen, search, windows, jobs, toolCalls, result>>

Answered(call) == Append(messages, [role |-> "tool", id |-> call.id])

RunToolCall ==
    /\ stage = "calling"
    /\ LET call == Head(llmCalls) IN
          /\ messages' = Answered(call)
          /\ \/ call.tool = "unknown" /\ UNCHANGED <<search, windows, jobs, toolCalls>>
             \/ /\ call.tool # "unknown"
                /\ Serve(call)
                /\ toolCalls' = Append(toolCalls, call.place)
    /\ llmCalls' = Tail(llmCalls)
    /\ stage' = IF Len(llmCalls) = 1 THEN "ready" ELSE "calling"
    /\ UNCHANGED <<agent, chosen, iteration, result>>

Next == Discover \/ Fails \/ Answers \/ IterationLimit \/ SelectTools \/ RunToolCall

Spec == Init /\ [][Next]_vars

----------------------------------------------------------------------------
(* Properties.                                                             *)

\* Whenever the model is asked, each tool call it ever made has been answered,
\* right after the message that made it and in its order: a provider refuses a
\* dialog with an open call.
CallsAreClosed ==
    stage # "calling" =>
        LET LastAnswer(i) == i + Len(messages[i].ids)
            asked == {i \in DOMAIN messages : messages[i].role = "assistant"}
        IN  /\ \A i \in asked :
                  /\ LastAnswer(i) <= Len(messages)
                  /\ \A k \in DOMAIN messages[i].ids :
                        messages[i + k] = [role |-> "tool", id |-> messages[i].ids[k]]
            /\ \A j \in DOMAIN messages \ asked : \E i \in asked : i < j /\ j <= LastAnswer(i)

\* However the chat ends, the user is told of every call that started a job.
StartedIsReported == jobs \subseteq Range(toolCalls)

\* Once the user has chosen a time window no other one is searched.
ChosenWindowOnly == chosen => "own" \notin windows

\* A result that is not marked as truncated has every row and counts every
\* malformed line of the response.
CompleteUnlessTruncated ==
    ~search.truncated =>
        /\ search.rows = HowMany(search.lines, Len(search.lines), "row")
        /\ search.malformed = HowMany(search.lines, Len(search.lines), "malformed")
=============================================================================
