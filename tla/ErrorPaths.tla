----------------------------- MODULE ErrorPaths -----------------------------
(***************************************************************************)
(* How a failure travels: one HTTP request of any endpoint makes its calls *)
(* one after another; a call that fails raises an exception, which rises   *)
(* through the layers around the call (each may absorb it or turn it into  *)
(* another) to the endpoint, which answers with the status of the classes  *)
(* it knows; the last-resort handler of the application answers 500 to     *)
(* everything else.                                                        *)
(*                                                                         *)
(* Endpoints have the names of their handlers.  Requests refused by the    *)
(* schemas (422) never reach a handler and are left out.                   *)
(***************************************************************************)
EXTENDS Naturals, Sequences

VARIABLES endpoint,    \* the handler, chosen at the start
          at,          \* the number of the call that runs
          layers,      \* the layers still around it
          cause,       \* the exception as it was raised
          exception,   \* the exception as it is now
          response     \* status, and whose text it carries

vars == <<endpoint, at, layers, cause, exception, response>>

Exc(class, status) == [class |-> class, status |-> status]
NoExc == Exc("none", 0)

\* An exception that says nothing about an HTTP status.
NoStatus == 0

----------------------------------------------------------------------------
(* What the sources of failure raise.                                      *)

\* DeepSeekService: authentication, rate limit, timeout, connection; errors of
\* the API; an answer that is malformed, blank, or cut before it began.
DeepSeekErrors ==
    LET ApiStatus(s) == IF s \in {400, 422, 402, 500, 503} THEN s ELSE 502
    IN  {Exc("DeepSeekError", s) :
            s \in {401, 429, 504, 502, 500}
                    \cup {ApiStatus(s) : s \in {400, 402, 404, 422, 500, 503}}}

\* OpenRouterService: keeps whatever status the provider gave; no key is 503.
OpenRouterErrors ==
    {Exc("OpenRouterError", s) : s \in {401, 429, 504, 502, 500, 503} \cup {400, 402, 404, 422}}

\* OllamaGenerationProvider; an answer that is no JSON is nobody's exception.
OllamaErrors ==
    {Exc("GenerationError", 502), Exc("GenerationError", 504), Exc("JSONDecodeError", NoStatus)}

\* Reading the index and embedding the query; the fallback for an older Ollama
\* raises the HTTP client's own exception.
SearchErrors ==
    {Exc("EmbeddingError", NoStatus), Exc("VectorIndexError", NoStatus),
     Exc("HTTPStatusError", NoStatus)}

Raises(source) ==
    CASE source = "deepseek" -> DeepSeekErrors
      [] source = "openrouter" -> OpenRouterErrors
      [] source = "agent llm" -> DeepSeekErrors \cup OpenRouterErrors
      [] source = "generation" -> DeepSeekErrors \cup OllamaErrors
      [] source = "provider" -> {Exc("GenerationError", 500)}     \* misconfigured
      [] source = "search" -> SearchErrors \cup {Exc("RagRetrievalError", 503)}
      [] source = "bare search" -> SearchErrors
      [] source = "index" -> {Exc("VectorIndexError", NoStatus)}
      [] source = "questions" -> {Exc("EvaluationError", 400), Exc("EvaluationError", 404)}
      [] source = "scenarios" -> {Exc("ScenarioError", 400), Exc("ScenarioError", 404)}
      [] source = "session" -> {Exc("SessionNotFoundError", 404)}
      [] source = "task" -> {Exc("TaskStateError", 400)}
      [] source = "lifecycle" -> {Exc("Day15Error", 400)}
      [] source = "scenario name" -> {Exc("Day15Error", 404)}
      [] source = "argument" -> {Exc("ValueError", 400)}
      [] source = "artifact" -> {Exc("ArtifactError", 404)}
      [] source = "lookup" -> {Exc("HTTPException", 404)}
      [] source = "storage" -> {Exc("Error", NoStatus)}

----------------------------------------------------------------------------
(* What the layers do.                                                     *)

Classes == {"DeepSeekError", "OpenRouterError", "GenerationError", "EmbeddingError",
            "VectorIndexError", "RagRetrievalError", "SessionNotFoundError",
            "ChatServiceError", "EvaluationError", "ScenarioError", "TaskStateError",
            "Day15Error", "ValueError", "ArtifactError", "JSONDecodeError",
            "HTTPStatusError", "Error"}

Layers == {"generation", "retrieve", "chat", "controlled", "summary", "tool loop", "rewriter",
           "facts", "classifier", "intent", "stage", "updater", "final answer", "scenario"}

\* The classes a layer answers for: the controlled half of a comparison, the
\* summary of Day 9 and the tool-calling loops keep what they have when DeepSeek
\* fails; the query rewriter, the extractors and the others fall back to
\* something simpler whatever happens.
Absorbs(layer) ==
    CASE layer \in {"controlled", "summary", "tool loop"} -> {"DeepSeekError"}
      [] layer \in {"rewriter", "facts", "classifier", "intent", "stage", "updater",
                    "final answer", "scenario"} -> Classes
      [] OTHER -> {}

\* Mutant: the adapter forgets the status and the default is used.
TranslateDefault(layer, e) ==
    CASE layer = "generation" /\ e.class = "DeepSeekError" -> Exc("GenerationError", 502)
      [] layer = "retrieve" /\ e.class \in {"EmbeddingError", "VectorIndexError"} ->
            Exc("RagRetrievalError", 503)
      [] layer = "chat" /\ e.class \in {"GenerationError", "RagRetrievalError"} ->
            Exc("ChatServiceError", e.status)
      [] OTHER -> e

\* The generation adapter, the retrieval and the Day 25 chat put their own
\* class in place of the one below.
Translate(layer, e) ==
    CASE layer = "generation" /\ e.class = "DeepSeekError" -> Exc("GenerationError", e.status)
      [] layer = "retrieve" /\ e.class \in {"EmbeddingError", "VectorIndexError"} ->
            Exc("RagRetrievalError", 503)
      [] layer = "chat" /\ e.class \in {"GenerationError", "RagRetrievalError"} ->
            Exc("ChatServiceError", e.status)
      [] OTHER -> e

----------------------------------------------------------------------------
(* The endpoints: their calls in order, and the classes each one catches.  *)

\* A call, the layers around it from the inside, and whether it may be left out.
Call(source, around) == [source |-> source, around |-> around, optional |-> FALSE]
Maybe(call) == [call EXCEPT !.optional = TRUE]

\* A row of the table for each of the handlers.
On(handlers, calls, catches) ==
    {[handler |-> h, calls |-> calls, catches |-> catches] : h \in handlers}

DeepSeek == Call("deepseek", <<>>)
Storage == Call("storage", <<>>)

AgentRoutes ==
    On({"chat", "agent_chat", "day6_agent_chat"},
       <<Storage, Call("agent llm", <<>>), Storage>>, {"DeepSeekError", "OpenRouterError"})
    \cup On({"chat_history", "clear_chat_history", "list_agents", "agent_history",
           "clear_agent_history", "day6_agent_meta"}, <<Storage>>, {})

\* The free half of a comparison must succeed; the controlled one need not.
Comparison == <<DeepSeek, Call("deepseek", <<"controlled">>)>>

\* Each of the five ways of reasoning asks once.
Reasoning == <<DeepSeek>>
Temperature == <<DeepSeek>>
OpenRouterRun == <<Call("openrouter", <<>>)>>

PromptRoutes ==
    On({"compare"}, Comparison, {"DeepSeekError"})
    \cup On({"reasoning"}, Reasoning, {"DeepSeekError"})
    \cup On({"temperature_run"}, Temperature, {"DeepSeekError"})
    \cup On({"openrouter_run"}, OpenRouterRun, {"OpenRouterError"})
    \cup On({"openrouter_models"}, <<>>, {})

Day8Routes ==
    On({"day8_chat"}, <<DeepSeek>>, {"DeepSeekError"})
    \cup On({"day8_estimate", "day8_overflow", "day8_clear", "day8_history"}, <<>>, {})

Day9Routes ==
    On({"day9_chat"}, <<Maybe(Call("deepseek", <<"summary">>)), DeepSeek>>, {"DeepSeekError"})
    \cup On({"day9_seed", "day9_diagnostics", "day9_clear"}, <<>>, {})

Facts == Maybe(Call("deepseek", <<"facts">>))

Day10Routes ==
    On({"day10_chat"}, <<Maybe(Call("argument", <<>>)), Facts, DeepSeek>>,
       {"ValueError", "DeepSeekError"})
    \cup On({"day10_demo_run"}, <<Facts, DeepSeek, Facts, DeepSeek>>, {"DeepSeekError"})
    \cup On({"day10_create_branch", "day10_activate_branch"}, <<Call("argument", <<>>)>>,
          {"ValueError"})
    \cup On({"day10_scenario", "day10_state", "day10_reset", "day10_seed_branches",
           "day10_evaluate"}, <<>>, {})

Classify == Maybe(Call("deepseek", <<"classifier">>))

Day11Routes ==
    On({"day11_chat"}, <<Classify, DeepSeek>>, {"DeepSeekError"})
    \cup On({"day11_state", "day11_new_session", "day11_clear_short_term",
           "day11_clear_working", "day11_clear_long_term", "day11_seed_memory",
           "day11_scenario", "day11_evaluate"}, <<>>, {})

Day12Routes ==
    On({"day12_chat"}, <<Classify, DeepSeek>>, {"DeepSeekError"})
    \cup On({"day12_compare"}, <<Call("argument", <<>>), DeepSeek, DeepSeek>>,
          {"ValueError", "DeepSeekError"})
    \cup On({"day12_apply_preset"}, <<Call("argument", <<>>)>>, {"ValueError"})
    \cup On({"day12_get_profile", "day12_put_profile"}, <<>>, {})

Day13Routes ==
    On({"day13_chat"}, <<Call("task", <<>>), Maybe(DeepSeek)>>, {"TaskStateError", "DeepSeekError"})
    \cup On({"day13_create_task", "day13_transition", "day13_pause", "day13_resume"},
          <<Call("task", <<>>)>>, {"TaskStateError"})
    \cup On({"day13_state", "day13_reset"}, <<>>, {})

Day14Routes ==
    On({"day14_chat"}, <<Maybe(DeepSeek)>>, {"DeepSeekError"})
    \cup On({"day14_state", "day14_clear_history"}, <<>>, {})

Stage == Maybe(Call("deepseek", <<"stage">>))
Recognize == Maybe(Call("deepseek", <<"intent">>))

Day15Routes ==
    On({"day15_start_task", "day15_prepare_plan"}, <<Call("lifecycle", <<>>), Stage>>,
       {"Day15Error"})
    \cup On({"day15_create_task", "day15_approve_plan", "day15_set_validation", "day15_transition",
           "day15_pause", "day15_resume"}, <<Call("lifecycle", <<>>)>>, {"Day15Error"})

Day15ChatRoutes ==
    On({"day15_chat"},
       <<Recognize, Call("lifecycle", <<>>), Stage, Stage>>,
       {"Day15Error"})
    \cup On({"day15_scenario"}, <<Call("scenario name", <<>>)>>, {"Day15Error"})
    \cup On({"day15_state", "day15_history", "day15_reset"}, <<>>, {})

ToolRoutes ==
    On({"day17_chat", "day18_chat"},
       <<Call("deepseek", <<"tool loop">>), Maybe(Call("deepseek", <<"tool loop">>))>>, {})
    \cup On({"day16_mcp_status"}, <<>>, {})

MonitoringRoutes ==
    On({"day18_monitoring_status", "day18_monitoring_runs", "day18_monitoring_summary",
        "day18_stop_monitoring"}, <<Storage, Call("lookup", <<>>)>>, {"HTTPException"})
    \cup On({"day18_start_monitoring", "day18_list_monitoring_jobs"}, <<Storage>>, {})

PipelineRoutes ==
    On({"day19_pipeline"}, <<Maybe(Call("deepseek", <<"final answer">>))>>, {})
    \cup On({"day19_artifact"}, <<Call("artifact", <<>>)>>, {"ArtifactError"})

InvestigationRoutes ==
    On({"day20_investigate"},
       <<Call("deepseek", <<"tool loop">>), Maybe(Call("deepseek", <<"final answer">>))>>, {})
    \cup On({"day20_artifact"}, <<Call("artifact", <<>>)>>, {"ArtifactError"})
    \cup On({"day20_mcp_status"}, <<>>, {})

\* The parts of the RAG pipelines.
Retrieve == Call("search", <<"retrieve">>)
Generate == Call("generation", <<"generation">>)
Stats == Call("index", <<"retrieve">>)
Provider == Call("provider", <<>>)
Rewrite == Call("generation", <<"generation", "rewriter">>)
Plain == <<Provider, Retrieve, Generate, Stats>>
Improved == <<Provider, Rewrite, Retrieve, Generate, Stats>>
Questions == Call("questions", <<>>)
RagErrors == {"GenerationError", "RagRetrievalError"}
Status == <<Stats, Provider>>

EvaluationRoutes(questions, results) ==
    On(questions, <<Questions>>, {"EvaluationError"})
    \cup On(results, <<Questions, Storage>>, {"EvaluationError"})

Day22Routes ==
    On({"day22_status"}, Status, {})
    \cup On({"day22_ask"}, Plain, RagErrors)
    \cup On({"day22_compare"}, <<Provider, Generate>> \o Plain, RagErrors)
    \cup On({"day22_evaluation_run", "day22_evaluation_run_all"},
          <<Questions, Provider, Generate>> \o Plain, RagErrors \cup {"EvaluationError"})
    \cup EvaluationRoutes({"day22_evaluation_questions"},
          {"day22_evaluation_results", "day22_evaluation_update_result"})

Day23Routes ==
    On({"day23_status"}, Status, {})
    \cup On({"day23_ask"}, Improved, RagErrors)
    \cup On({"day23_compare"}, Plain \o Improved, RagErrors)

Day23EvaluationRoutes ==
    On({"day23_evaluation_run", "day23_evaluation_run_all"}, <<Questions>> \o Plain \o Improved,
       RagErrors \cup {"EvaluationError"})
    \cup On({"day23_evaluation_scores"}, <<Questions, Call("bare search", <<>>)>>,
          {"EvaluationError", "RagRetrievalError"})
    \cup EvaluationRoutes({"day23_evaluation_questions"},
          {"day23_evaluation_results", "day23_evaluation_update_result"})

\* The gate may refuse before the model is asked.
Grounded == <<Provider, Rewrite, Retrieve, Maybe(Retrieve), Stats, Maybe(Generate)>>

Day24Routes ==
    On({"day24_status"}, Status, {})
    \cup On({"day24_ask"}, Grounded, RagErrors)
    \cup On({"rag_manual_source"}, <<Call("lookup", <<>>)>>, {"HTTPException"})

Day24EvaluationRoutes ==
    On({"day24_evaluation_run", "day24_evaluation_run_all"},
       <<Questions>> \o Grounded \o <<Storage>>,
       RagErrors \cup {"EvaluationError"})
    \cup EvaluationRoutes({"day24_evaluation_questions"},
          {"day24_evaluation_results", "day24_evaluation_update_result"})

Day24NegativeRoutes ==
    On({"day24_negative_run", "day24_negative_run_all", "day24_negative_report"},
       <<Questions>> \o Grounded, RagErrors \cup {"EvaluationError"})
    \cup On({"day24_negative_questions"}, <<Questions>>, {"EvaluationError"})

Around(layer, calls) ==
    [i \in DOMAIN calls |-> [calls[i] EXCEPT !.around = Append(@, layer), !.optional = TRUE]]

\* The neighbours of a good hit are read outside the retrieval's own handlers.
Answer == <<Provider, Rewrite, Retrieve, Retrieve, Call("index", <<>>), Stats, Generate>>
Session == Call("session", <<>>)
SendMessage ==
    <<Session, Storage, Maybe(Call("generation", <<"generation", "updater">>))>>
    \o Around("chat", Answer) \o <<Storage>>

\* A session error is a chat service error.
ChatErrors == {"ChatServiceError", "SessionNotFoundError"}

ChatRoutes(status, send, sessions, read) ==
    On({status}, Status, {})
    \cup On({send}, SendMessage, ChatErrors \cup RagErrors)
    \cup On(sessions, <<Storage>>, {})
    \cup On(read, <<Session, Storage>>, ChatErrors)

Day25Routes ==
    ChatRoutes("day25_status", "day25_send_message",
        {"day25_list_sessions", "day25_create_session"},
        {"day25_get_session", "day25_delete_session", "day25_get_state"})

XpanderRoutes ==
    ChatRoutes("xpander_status", "xpander_send_message",
        {"xpander_list_sessions", "xpander_create_session"},
        {"xpander_get_session", "xpander_delete_session", "xpander_get_state"})

\* The turns' errors are recorded; the session is read once more at the end.
Day25EvaluationRoutes ==
    On({"day25_evaluation_run"},
       <<Call("scenarios", <<>>), Storage>> \o Around("scenario", SendMessage) \o <<Session>>,
       RagErrors \cup {"ScenarioError"})
    \cup On({"day25_evaluation_scenarios"}, <<Call("scenarios", <<>>)>>, {"ScenarioError"})
    \cup On({"day25_evaluation_results"}, <<>>, {})

PageRoutes == On({"home", "health", "xpander_page"}, <<>>, {})

Table ==
    PageRoutes \cup AgentRoutes \cup PromptRoutes \cup Day8Routes \cup Day9Routes \cup Day10Routes
    \cup Day11Routes \cup Day12Routes \cup Day13Routes \cup Day14Routes \cup Day15Routes
    \cup Day15ChatRoutes \cup ToolRoutes \cup MonitoringRoutes \cup PipelineRoutes
    \cup InvestigationRoutes \cup Day22Routes \cup Day23Routes \cup Day23EvaluationRoutes
    \cup Day24Routes \cup Day24EvaluationRoutes \cup Day24NegativeRoutes \cup Day25Routes
    \cup XpanderRoutes \cup Day25EvaluationRoutes

Handlers == {row.handler : row \in Table}
Routes == [h \in Handlers |-> CHOOSE row \in Table : row.handler = h]

----------------------------------------------------------------------------
(* One request.                                                            *)

Calls == Routes[endpoint].calls

Responses == [status : {200} \cup 400 .. 504, text : {"none", "body", "error", "generic"}]
NoResponse == [status |-> 200, text |-> "none"]
Exception == [class : Classes \cup {"HTTPException"}, status : {NoStatus} \cup 400 .. 504]

TypeOK ==
    /\ endpoint \in Handlers
    /\ at \in 1 .. Len(Calls) + 1
    /\ layers \in Seq(Layers)
    /\ {cause, exception} \subseteq Exception \cup {NoExc}
    /\ response \in Responses

Init ==
    /\ endpoint \in Handlers
    /\ at = 1 /\ layers = <<>>
    /\ cause = NoExc /\ exception = NoExc
    /\ response = NoResponse

Running == response = NoResponse /\ exception = NoExc

Succeed ==
    /\ Running /\ at <= Len(Calls)
    /\ at' = at + 1
    /\ UNCHANGED <<endpoint, layers, cause, exception, response>>

Skip ==
    /\ Running /\ at <= Len(Calls) /\ Calls[at].optional
    /\ at' = at + 1
    /\ UNCHANGED <<endpoint, layers, cause, exception, response>>

Fail ==
    /\ Running /\ at <= Len(Calls)
    /\ \E e \in Raises(Calls[at].source) : cause' = e /\ exception' = e
    /\ layers' = Calls[at].around
    /\ UNCHANGED <<endpoint, at, response>>

Rise ==
    /\ exception # NoExc /\ layers # <<>>
    /\ LET layer == Head(layers) IN
       IF exception.class \in Absorbs(layer)
       THEN /\ exception' = NoExc /\ layers' = <<>> /\ at' = at + 1
       ELSE /\ exception' = Translate(layer, exception)
            /\ layers' = Tail(layers) /\ UNCHANGED at
    /\ UNCHANGED <<endpoint, cause, response>>

Respond ==
    /\ Running /\ at > Len(Calls)
    /\ response' = [status |-> 200, text |-> "body"]
    /\ UNCHANGED <<endpoint, at, layers, cause, exception>>

\* The handler knows the class.
Caught ==
    /\ exception # NoExc /\ layers = <<>> /\ response = NoResponse
    /\ exception.class \in Routes[endpoint].catches
    /\ response' = [status |-> exception.status, text |-> "error"]
    /\ UNCHANGED <<endpoint, at, layers, cause, exception>>

\* Nobody does.
Unhandled ==
    /\ exception # NoExc /\ layers = <<>> /\ response = NoResponse
    /\ exception.class \notin Routes[endpoint].catches
    /\ response' = [status |-> 500, text |-> "generic"]
    /\ UNCHANGED <<endpoint, at, layers, cause, exception>>

Next == Succeed \/ Skip \/ Fail \/ Rise \/ Respond \/ Caught \/ Unhandled

Spec == Init /\ [][Next]_vars

----------------------------------------------------------------------------
(* Properties.                                                             *)

\* The exceptions no layer knows, and the places where known ones escape: the
\* status and score endpoints catch less than they may meet, the neighbours of
\* a hit are read without a handler, and a scenario may lose its session.
Escapes ==
    \/ cause.class \in {"JSONDecodeError", "HTTPStatusError", "Error"}
    \/ endpoint \in {"day22_status", "day23_status", "day24_status", "day25_status",
                     "xpander_status", "day23_evaluation_scores"}
    \/ /\ Calls[at].source = "index"
       /\ "retrieve" \notin {Calls[at].around[i] : i \in DOMAIN Calls[at].around}
    \/ endpoint = "day25_evaluation_run" /\ Calls[at].source = "session"

\* The user is told what failed, with the status the failing service gave,
\* however many layers lie between; a failed search of the index is 503.
FailureIsExplained ==
    response.status # 200 /\ ~Escapes =>
        /\ response.text = "error"
        /\ response.status = IF cause.status = NoStatus THEN 503 ELSE cause.status

\* The side calls that prepare or follow up an answer never cost the answer:
\* rewriting, summaries, facts, classification, intents, memory updates, the
\* controlled half of a comparison.
SideCallsAreHarmless ==
    response.status # 200 =>
        \A i \in DOMAIN Calls[at].around : Absorbs(Calls[at].around[i]) = {}
=============================================================================
