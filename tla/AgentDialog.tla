---------------------------- MODULE AgentDialog -----------------------------
(***************************************************************************)
(* The persistent agents of Days 6 and 7 (src/app/agents): a registry of   *)
(* live agents over one SQLite table of messages and one of configurations.*)
(*                                                                         *)
(* One event loop serves all requests.  The repository's coroutines never  *)
(* suspend, so the only point where another request can run is the call of *)
(* the provider: what a handler does before it, and what it does after it, *)
(* is one step each.  Every insert is a transaction of its own, so a       *)
(* failed write or the end of the process can fall between the two of one  *)
(* turn.  A message is known by its role and the request that wrote it.    *)
(***************************************************************************)
EXTENDS Naturals, Sequences

CONSTANTS Agents,
          Default,           \* DEFAULT_AGENT_ID
          Requests,          \* chat requests; bounds the number of turns
          None               \* no live agent, no stored configuration

VARIABLES stored,            \* the messages table, by agent
          configs,           \* the agents table
          live,              \* AgentManager._agents
          request            \* what each chat request is doing

vars == <<stored, configs, live, request>>

Message == [role : {"user", "assistant"}, by : Requests]

\* A configuration has fields the application manages (output budget,
\* reasoning, version), possibly those of an older release, and the agent's
\* own (provider, model, prompt).
Config == [managed : {"old", "current"}, own : {"default", "custom"}]
DefaultConfig == [managed |-> "current", own |-> "default"]

LiveAgent == [config : Config, loaded : BOOLEAN, history : Seq(Message)]

\* Assumed of the constants by the runs and the theorems.
AgentsAssumption == Default \in Agents /\ None \notin Config \cup LiveAgent

Request == [phase : {"idle", "asking", "answered", "failed", "cut"}, agent : Agents]

TypeOK ==
    /\ stored \in [Agents -> Seq(Message)]
    /\ configs \in [Agents -> Config \cup {None}]
    /\ live \in [Agents -> LiveAgent \cup {None}]
    /\ request \in [Requests -> Request]

\* The process starts over tables that an older release may have filled.
Init ==
    /\ stored = [a \in Agents |-> <<>>]
    /\ configs \in [Agents -> Config \cup {None}]
    /\ live = [a \in Agents |-> None]
    /\ request = [r \in Requests |-> [phase |-> "idle", agent |-> Default]]

----------------------------------------------------------------------------
(* The registry.                                                           *)

\* Only the application's own agent follows the defaults of a new release.
Migrated(a, config) ==
    IF a = Default THEN [config EXCEPT !.managed = "current"] ELSE config

ConfigOf(a) ==
    IF configs[a] = None THEN DefaultConfig ELSE Migrated(a, configs[a])

Fresh(a) == [config |-> ConfigOf(a), loaded |-> FALSE, history |-> <<>>]

\* get_or_create: a live agent is returned as it is; otherwise its stored
\* configuration is brought up to date, saved, and the agent registered.
Resolved(a) == IF live[a] = None THEN Fresh(a) ELSE live[a]

SavedConfigs(a) ==
    IF live[a] = None THEN [configs EXCEPT ![a] = ConfigOf(a)] ELSE configs

\* _ensure_loaded: the first use of the dialog reads it from storage.
Loaded(a) ==
    LET agent == Resolved(a)
    IN  IF agent.loaded THEN agent
        ELSE [agent EXCEPT !.loaded = TRUE, !.history = stored[a]]

\* GET /api/agents/{agent_id}/history.
ReadHistory(a) ==
    /\ live' = [live EXCEPT ![a] = Loaded(a)]
    /\ configs' = SavedConfigs(a)
    /\ UNCHANGED <<stored, request>>

KnownAgents ==
    {a \in Agents : live[a] # None \/ configs[a] # None \/ stored[a] # <<>>}

\* GET /api/agents registers every agent it lists.
ListAgents ==
    /\ live' = [a \in Agents |-> IF a \in KnownAgents THEN Resolved(a) ELSE None]
    /\ configs' = [a \in Agents |->
                    IF a \in KnownAgents /\ live[a] = None
                    THEN ConfigOf(a) ELSE configs[a]]
    /\ UNCHANGED <<stored, request>>

\* Mutant: the live agent keeps its messages.
ClearHistoryStoredOnly(a) ==
    /\ stored' = [stored EXCEPT ![a] = <<>>]
    /\ live' = [live EXCEPT ![a] = Loaded(a)]
    /\ configs' = SavedConfigs(a)
    /\ UNCHANGED request

\* DELETE /api/agents/{agent_id}/history.
ClearHistory(a) ==
    /\ stored' = [stored EXCEPT ![a] = <<>>]
    /\ live' = [live EXCEPT ![a] =
                 [config |-> Resolved(a).config, loaded |-> TRUE, history |-> <<>>]]
    /\ configs' = SavedConfigs(a)
    /\ UNCHANGED request

----------------------------------------------------------------------------
(* Agent.chat.                                                             *)

User(r) == [role |-> "user", by |-> r]
Assistant(r) == [role |-> "assistant", by |-> r]

InPhase(r, phase) == request' = [request EXCEPT ![r].phase = phase]

\* The payload is built from the history and the new message; the history
\* itself waits for the answer.
StartChat(r, a) ==
    /\ request[r].phase = "idle"
    /\ live' = [live EXCEPT ![a] = Loaded(a)]
    /\ configs' = SavedConfigs(a)
    /\ request' = [request EXCEPT ![r] = [phase |-> "asking", agent |-> a]]
    /\ UNCHANGED stored

\* `messages' go to storage and to the live history, one by one.
Keep(a, messages) ==
    /\ stored' = [stored EXCEPT ![a] = @ \o messages]
    /\ live' = [live EXCEPT ![a].history = @ \o messages]
    /\ UNCHANGED configs

Answer(r) ==
    /\ request[r].phase = "asking"
    /\ Keep(request[r].agent, <<User(r), Assistant(r)>>)
    /\ InPhase(r, "answered")

\* The provider raises, or the first of the two inserts does.
ChatFails(r) ==
    /\ request[r].phase = "asking"
    /\ InPhase(r, "failed")
    /\ UNCHANGED <<stored, configs, live>>

\* The second insert raises.
AnswerCut(r) ==
    /\ request[r].phase = "asking"
    /\ Keep(request[r].agent, <<User(r)>>)
    /\ InPhase(r, "cut")

----------------------------------------------------------------------------
(* The end of the process: the tables are all that is left.                *)

Ended(cut) ==
    [r \in Requests |->
        IF request[r].phase # "asking" THEN request[r]
        ELSE [request[r] EXCEPT !.phase = IF r \in cut THEN "cut" ELSE "failed"]]

Restart ==
    /\ live' = [a \in Agents |-> None]
    /\ request' = Ended({})
    /\ UNCHANGED <<stored, configs>>

\* The process ends between the two inserts of r.
DiesInAnswer(r) ==
    /\ request[r].phase = "asking"
    /\ stored' = [stored EXCEPT ![request[r].agent] = Append(@, User(r))]
    /\ live' = [a \in Agents |-> None]
    /\ request' = Ended({r})
    /\ UNCHANGED configs

Next ==
    \/ \E a \in Agents : ReadHistory(a) \/ ClearHistory(a)
    \/ ListAgents
    \/ \E r \in Requests, a \in Agents : StartChat(r, a)
    \/ \E r \in Requests : Answer(r) \/ ChatFails(r) \/ AnswerCut(r) \/ DiesInAnswer(r)
    \/ Restart

Spec == Init /\ [][Next]_vars

----------------------------------------------------------------------------
(* Properties.                                                             *)

\* What a live agent shows and sends is what a restart would read back: its
\* history once loaded, and its configuration, whatever turns overlapped,
\* failed half way or were cleared meanwhile.
LiveIsStored ==
    \A a \in Agents : live[a] # None =>
        /\ live[a].config = configs[a]
        /\ live[a].loaded => live[a].history = stored[a]

\* A stored dialog consists of whole turns: every answer stands right behind
\* its question, every question has its answer unless the write of the turn
\* was cut, and no message is stored twice.
TurnsWhole ==
    \A a \in Agents :
        LET dialog == stored[a]
        IN  /\ \A i \in 1 .. Len(dialog) :
                  LET r == dialog[i].by
                  IN  IF dialog[i].role = "assistant"
                      THEN i > 1 /\ dialog[i - 1] = User(r)
                      ELSE \/ i < Len(dialog) /\ dialog[i + 1] = Assistant(r)
                           \/ request[r].phase = "cut"
            /\ \A i, j \in 1 .. Len(dialog) : dialog[i] = dialog[j] => i = j
=============================================================================
