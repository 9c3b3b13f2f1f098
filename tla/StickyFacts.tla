---------------------------- MODULE StickyFacts -----------------------------
(***************************************************************************)
(* The two window strategies of Day 10 (src/app/services/day10: facts.py,  *)
(* strategies.py, service.py): a sliding window over a dialog, and a window*)
(* with a memory of facts that a first call of the provider updates before *)
(* the second one answers.  One dialog of each kind serves all clients.    *)
(*                                                                         *)
(* The facts are known by the turns whose message they take into account;  *)
(* which of them the model keeps is left out, and so is the size of the    *)
(* windows, which Algorithms has.                                          *)
(***************************************************************************)
EXTENDS Sequences, Naturals

CONSTANT Requests            \* chat requests; bounds the number of turns

Strategies == {"sliding_window", "sticky_facts"}

VARIABLES history,           \* full_history, by strategy: the turns in it
          facts,             \* the turns the facts know of
          factsError,        \* last_extraction_error is set
          request,           \* what each chat request is doing
          crossed            \* history variable: the turns whose extraction
                             \* overlapped another one or a reset, and those
                             \* that were known to one that overlapped a reset

vars == <<history, facts, factsError, request, crossed>>

Request == [phase : {"idle", "extracting", "asking", "done", "failed"},
            strategy : Strategies, base : SUBSET Requests,
            extracted : BOOLEAN]

TypeOK ==
    /\ history \in [Strategies -> Seq(Requests)]
    /\ facts \subseteq Requests
    /\ factsError \in BOOLEAN
    /\ request \in [Requests -> Request]
    /\ crossed \subseteq Requests

Init ==
    /\ history = [s \in Strategies |-> <<>>]
    /\ facts = {}
    /\ factsError = FALSE
    /\ request = [r \in Requests |->
                   [phase |-> "idle", strategy |-> "sliding_window", base |-> {},
                    extracted |-> FALSE]]
    /\ crossed = {}

----------------------------------------------------------------------------

Extracting == {r \in Requests : request[r].phase = "extracting"}

\* The sliding window asks at once, and so do the facts when update_facts is
\* off.
ChatDirectly(r, s) ==
    /\ request[r].phase = "idle"
    /\ request' = [request EXCEPT ![r].phase = "asking", ![r].strategy = s]
    /\ UNCHANGED <<history, facts, factsError, crossed>>

\* before_build: the prompt holds the facts as they are now.
ChatWithFacts(r) ==
    /\ request[r].phase = "idle"
    /\ request' = [request EXCEPT ![r] =
                    [phase |-> "extracting", strategy |-> "sticky_facts",
                     base |-> facts, extracted |-> FALSE]]
    /\ crossed' = IF Extracting = {} THEN crossed ELSE crossed \cup Extracting \cup {r}
    /\ UNCHANGED <<history, facts, factsError>>

\* Mutant: the facts are cleared before the answer is parsed.
ExtractionFailsCleared(r) ==
    /\ request[r].phase = "extracting"
    /\ facts' = {}
    /\ factsError' = TRUE
    /\ request' = [request EXCEPT ![r].phase = "asking"]
    /\ UNCHANGED <<history, crossed>>

\* A parsed answer replaces the facts.
FactsExtracted(r) ==
    /\ request[r].phase = "extracting"
    /\ facts' = request[r].base \cup {r}
    /\ factsError' = FALSE
    /\ request' = [request EXCEPT ![r].phase = "asking", ![r].extracted = TRUE]
    /\ UNCHANGED <<history, crossed>>

\* The call fails, or its answer is not a JSON object: the turn goes on with
\* the facts there are.
ExtractionFails(r) ==
    /\ request[r].phase = "extracting"
    /\ factsError' = TRUE
    /\ request' = [request EXCEPT ![r].phase = "asking"]
    /\ UNCHANGED <<history, facts, crossed>>

\* record_turn, on the dialog as it is by now.
Answer(r) ==
    /\ request[r].phase = "asking"
    /\ history' = [history EXCEPT ![request[r].strategy] = Append(@, r)]
    /\ request' = [request EXCEPT ![r].phase = "done"]
    /\ UNCHANGED <<facts, factsError, crossed>>

ChatFails(r) ==
    /\ request[r].phase = "asking"
    /\ request' = [request EXCEPT ![r].phase = "failed"]
    /\ UNCHANGED <<history, facts, factsError, crossed>>

Reset(s) ==
    /\ history' = [history EXCEPT ![s] = <<>>]
    /\ IF s = "sticky_facts"
       THEN /\ facts' = {}
            /\ factsError' = FALSE
            /\ request' = [r \in Requests |-> [request[r] EXCEPT !.extracted = FALSE]]
            /\ crossed' = crossed \cup Extracting
                                 \cup UNION {request[r].base : r \in Extracting}
       ELSE UNCHANGED <<facts, factsError, request, crossed>>

Next ==
    \/ \E r \in Requests :
          \/ \E s \in Strategies : ChatDirectly(r, s)
          \/ ChatWithFacts(r)
          \/ FactsExtracted(r) \/ ExtractionFails(r)
          \/ Answer(r) \/ ChatFails(r)
    \/ \E s \in Strategies : Reset(s)

Spec == Init /\ [][Next]_vars

----------------------------------------------------------------------------
(* Properties.                                                             *)

\* A message the facts were updated with stays in them, through failed
\* extractions and failed turns, until the dialog is reset; only turns whose
\* extractions overlap can lose one another's.
FactsAreKept ==
    \A r \in Requests : request[r].extracted /\ r \notin crossed => r \in facts

\* The facts know nothing of a dialog that was reset: what they know is in
\* the history, or its turn is under way or failed, unless an extraction ran
\* across the reset.
FactsAreOfThisDialog ==
    \A r \in facts \ crossed :
        \/ \E i \in 1 .. Len(history["sticky_facts"]) : history["sticky_facts"][i] = r
        \/ request[r].phase \in {"asking", "failed"}
=============================================================================
