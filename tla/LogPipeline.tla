----------------------------- MODULE LogPipeline -----------------------------
(***************************************************************************)
(* The Day 19 pipeline: three tools in a fixed order (search, analyze,     *)
(* save), each given what the one before returned, and a last answer of    *)
(* the model.  On request the identifying names in everything that goes to *)
(* the model, to the disk or to the user are masked; the masker learns     *)
(* them from the request and from the fields of the logs.                  *)
(*                                                                         *)
(* A text is the set of the identifying names it mentions.  The text a     *)
(* model writes mentions, at worst, all it was shown.                      *)
(***************************************************************************)
EXTENDS Naturals, FiniteSets

CONSTANTS Names,
          Short      \* those of fewer than three characters

VARIABLES request,   \* service, question, text filter, and whether to mask
          stage,     \* what runs next, or how it ended
          logs,      \* what the search found
          known,     \* the names the masker knows
          analysis,  \* what the analysis mentions
          sent,      \* the names the model was shown
          files,     \* the artifacts written
          written,   \* the names in them
          trace,     \* the outcome of each tool
          shown      \* the names in the response

vars == <<request, stage, logs, known, analysis, sent, files, written, trace, shown>>

Tools == {"search", "analyze", "save"}
Artifacts == {"raw", "markdown", "metadata"}
NoLogs == [fields |-> {}, messages |-> {}, any |-> FALSE]

Wordings == {{}} \cup {{n} : n \in Names}
Requests == [service : Names, question : Wordings, filter : Wordings, mask : BOOLEAN]
Searches == [fields : SUBSET Names, messages : SUBSET Names, any : {TRUE}] \cup {NoLogs}
Ends == {"completed", "failed", "dead"}
Stages == {"discover", "search", "analyze", "save", "answer"} \cup Ends

TypeOK ==
    /\ request \in Requests /\ logs \in Searches
    /\ stage \in Stages
    /\ known \subseteq Names /\ analysis \subseteq Names /\ sent \subseteq Names
    /\ files \subseteq Artifacts
    /\ written \subseteq Names /\ shown \subseteq Names
    /\ trace \in [Tools -> {"none", "started", "ok", "error", "skipped"}]

\* Short names are not learned: they would mask pieces of other words.
Learnable(names) == names \ Short

Init ==
    /\ request \in Requests
    /\ stage = "discover"
    /\ logs = NoLogs
    /\ known = IF request.mask THEN Learnable({request.service}) ELSE {}
    /\ analysis = {} /\ sent = {}
    /\ files = {} /\ written = {} /\ shown = {}
    /\ trace = [t \in Tools |-> "none"]

----------------------------------------------------------------------------
(* Masking.                                                                *)

MaskText(text, names) == text \ names

\* Mutant: the logs are masked before the masker has learned from them.
MaskLogsEarly(found, names) ==
    IF request.mask THEN [found EXCEPT !.fields = {}, !.messages = MaskText(@, known)] ELSE found

\* An identifying field is masked whatever it holds, a message where it
\* mentions a known name.
MaskLogs(found, names) ==
    IF request.mask THEN [found EXCEPT !.fields = {}, !.messages = MaskText(@, names)] ELSE found

Mentions(found) == found.fields \cup found.messages
Service == MaskText({request.service}, known)

\* The response is masked once more, as a whole.
Respond(how, names) ==
    /\ stage' = how
    /\ shown' = MaskText(names, known)

----------------------------------------------------------------------------
(* The steps.                                                              *)

\* The tool that failed, and those never called because of it.
Failed(tool) ==
    [t \in Tools |-> IF t = tool THEN "error"
                     ELSE IF trace[t] = "none" THEN "skipped" ELSE trace[t]]

DiscoverTools ==
    /\ stage = "discover"
    /\ stage' = "search"
    /\ trace' = [trace EXCEPT !["search"] = "started"]
    /\ UNCHANGED <<request, logs, known, analysis, sent, files, written, shown>>

NoServer ==
    /\ stage = "discover"
    /\ Respond("failed", {request.service})
    /\ UNCHANGED <<request, logs, known, analysis, sent, files, written, trace>>

\* The rows are masked with what was learned from them before they go on.
Search ==
    /\ stage = "search"
    /\ \E found \in Searches :
          /\ known' = IF request.mask THEN known \cup Learnable(found.fields) ELSE known
          /\ logs' = MaskLogs(found, known')
    /\ stage' = "analyze"
    /\ trace' = [trace EXCEPT !["search"] = "ok", !["analyze"] = "started"]
    /\ UNCHANGED <<request, analysis, sent, files, written, shown>>

\* The model is asked about the rows, and without rows it is not asked.
Prompt == IF logs.any THEN Mentions(logs) \cup Service \cup MaskText(request.question, known)
                      ELSE {}

Analyze ==
    /\ stage = "analyze"
    /\ sent' = sent \cup Prompt
    /\ analysis' = Prompt
    /\ stage' = "save"
    /\ trace' = [trace EXCEPT !["analyze"] = "ok", !["save"] = "started"]
    /\ UNCHANGED <<request, logs, known, files, written, shown>>

\* An analysis may fail before the model was asked, or because of what it answered.
ToolFails(tool) ==
    /\ stage = tool
    /\ sent' \in {sent, IF tool = "analyze" THEN sent \cup Prompt ELSE sent}
    /\ trace' = Failed(tool)
    /\ Respond("failed", {request.service} \cup analysis)
    /\ UNCHANGED <<request, logs, known, analysis, files, written>>

\* What each file mentions.
Content(artifact) ==
    CASE artifact = "raw" -> Mentions(logs)
      [] artifact = "markdown" -> Service \cup analysis
      [] artifact = "metadata" -> Service \cup MaskText(request.filter, known)

NextArtifact == IF "raw" \notin files THEN "raw"
                ELSE IF "markdown" \notin files THEN "markdown" ELSE "metadata"

\* The three files are written one after another.
WriteArtifact ==
    /\ stage = "save"
    /\ files' = files \cup {NextArtifact}
    /\ written' = written \cup Content(NextArtifact)
    /\ IF files' = Artifacts
       THEN stage' = "answer" /\ trace' = [trace EXCEPT !["save"] = "ok"]
       ELSE UNCHANGED <<stage, trace>>
    /\ UNCHANGED <<request, logs, known, analysis, sent, shown>>

\* The final call, its failure absorbed; no call when nothing was found.
Answer ==
    LET told == Service \cup MaskText(request.question, known) \cup analysis
    IN  /\ stage = "answer"
        /\ sent' = IF logs.any THEN sent \cup told ELSE sent
        /\ Respond("completed", {request.service} \cup analysis \cup told)
        /\ UNCHANGED <<request, logs, known, analysis, files, written, trace>>

Dies ==
    /\ stage \notin Ends
    /\ stage' = "dead"
    /\ UNCHANGED <<request, logs, known, analysis, sent, files, written, trace, shown>>

Next ==
    \/ DiscoverTools \/ NoServer \/ Search \/ Analyze \/ WriteArtifact \/ Answer \/ Dies
    \/ \E tool \in Tools : ToolFails(tool)

Spec == Init /\ [][Next]_vars

----------------------------------------------------------------------------
(* Properties.                                                             *)

\* With masking on, no name the masker ever learned, even from the last row, is
\* shown to the model, written to an artifact or returned.
KnownStaysInside == known \cap (sent \cup written \cup shown) = {}

\* A run whose metadata can be read has all its artifacts, wherever a save was
\* interrupted; a completed one has them.
MetadataMeansWhole ==
    "metadata" \in files \/ stage = "completed" => files = Artifacts

\* Once tools were called, an ended run says of each what became of it, and
\* nothing runs after an error.
OutcomesAreTold ==
    stage \in {"completed", "failed"} /\ trace["search"] # "none" =>
        /\ \A t \in Tools : trace[t] \in {"ok", "error", "skipped"}
        /\ stage = "completed" <=> \A t \in Tools : trace[t] = "ok"
        /\ trace["search"] = "error" => trace["analyze"] = "skipped"
        /\ trace["analyze"] # "ok" => trace["save"] = "skipped"
=============================================================================
