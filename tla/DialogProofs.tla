---------------------------- MODULE DialogProofs ----------------------------
(***************************************************************************)
(* The dialogs of Days 6 to 15 for any requests, however their turns       *)
(* overlap. Each component has its invariant, which says what a turn       *)
(* that waits for the provider still relies on: that its agent is          *)
(* loaded, that the messages it summarises are still there, that its       *)
(* session exists, that the object it was given is kept. From it follows   *)
(* that what is in memory, in summaries, in facts and on file agrees. The  *)
(* service of Day 15 is an instance of what LifecycleProofs is about.      *)
(***************************************************************************)
EXTENDS Dialogs, Integers, FiniteSetTheorems, SequenceTheorems, WellFoundedInduction, TLAPS

----------------------------------------------------------------------------
(* The agents of Days 6 and 7.                                             *)

AskingIsLoaded ==
    \A r \in Requests : agentRequest[r].phase = "asking" =>
        live[agentRequest[r].agent] # None /\ live[agentRequest[r].agent].loaded

DialogInv == Dialog!TypeOK /\ Dialog!LiveIsStored /\ AskingIsLoaded

\* A live agent with another history is the same record but for its history.
LEMMA OtherHistory ==
    ASSUME NEW agent \in Dialog!LiveAgent, NEW dialog
    PROVE  [agent EXCEPT !.history = dialog]
             = [config |-> agent.config, loaded |-> agent.loaded, history |-> dialog]
<1> QED BY DEF Dialog!LiveAgent

LEMMA DialogInit == ASSUME Dialog!AgentsAssumption PROVE Dialog!Init => DialogInv
<1> SUFFICES ASSUME Dialog!Init PROVE DialogInv
  OBVIOUS
<1>1. Dialog!TypeOK BY DEF Dialog!Init, Dialog!TypeOK, Dialog!Request, Dialog!AgentsAssumption
<1> QED BY <1>1 DEF Dialog!Init, DialogInv, Dialog!LiveIsStored, AskingIsLoaded

\* A configuration read at the registration is one, and is the one that is saved.
LEMMA ConfigIsTyped == ASSUME DialogInv, NEW a \in Agents PROVE Dialog!ConfigOf(a) \in Dialog!Config
<1>1. CASE configs[a] = None BY <1>1 DEF Dialog!ConfigOf, Dialog!DefaultConfig, Dialog!Config
<1>2. CASE configs[a] # None
  <2>1. configs[a] \in Dialog!Config BY <1>2 DEF DialogInv, Dialog!TypeOK
  <2>2. Dialog!Migrated(a, configs[a]) \in Dialog!Config BY <2>1 DEF Dialog!Migrated, Dialog!Config
  <2> QED BY <1>2, <2>2 DEF Dialog!ConfigOf
<1> QED BY <1>1, <1>2

\* What the registry gives for an agent, and what is saved with it, agree.
LEMMA ResolvedAgrees ==
    ASSUME Dialog!AgentsAssumption, DialogInv, NEW a \in Agents
    PROVE  /\ Dialog!Resolved(a) \in Dialog!LiveAgent /\ Dialog!Resolved(a) # None
           /\ Dialog!SavedConfigs(a) \in [Agents -> Dialog!Config \cup {None}]
           /\ Dialog!Resolved(a).config = Dialog!SavedConfigs(a)[a]
           /\ \A b \in Agents \ {a} : Dialog!SavedConfigs(a)[b] = configs[b]
           /\ Dialog!Resolved(a).loaded => Dialog!Resolved(a).history = stored[a]
<1>0. configs \in [Agents -> Dialog!Config \cup {None}] BY DEF DialogInv, Dialog!TypeOK
<1>1. CASE live[a] = None
  <2>1. Dialog!Fresh(a) \in Dialog!LiveAgent
    BY ConfigIsTyped DEF Dialog!Fresh, Dialog!LiveAgent
  <2>2. Dialog!Fresh(a).config = Dialog!ConfigOf(a) /\ ~Dialog!Fresh(a).loaded BY DEF Dialog!Fresh
  <2>3. Dialog!SavedConfigs(a) = [configs EXCEPT ![a] = Dialog!ConfigOf(a)] BY <1>1 DEF Dialog!SavedConfigs
  <2>4. Dialog!Fresh(a) # None BY <2>1 DEF Dialog!AgentsAssumption
  <2> QED BY <1>0, <1>1, <2>1, <2>2, <2>3, <2>4, ConfigIsTyped DEF Dialog!Resolved
<1>2. CASE live[a] # None
  <2>1. live[a] \in Dialog!LiveAgent BY <1>2 DEF DialogInv, Dialog!TypeOK
  <2> QED BY <1>0, <1>2, <2>1 DEF Dialog!Resolved, Dialog!SavedConfigs, DialogInv, Dialog!LiveIsStored
<1> QED BY <1>1, <1>2

LEMMA LoadedAgrees ==
    ASSUME Dialog!AgentsAssumption, DialogInv, NEW a \in Agents
    PROVE  /\ Dialog!Loaded(a) \in Dialog!LiveAgent /\ Dialog!Loaded(a) # None
           /\ Dialog!Loaded(a).config = Dialog!SavedConfigs(a)[a]
           /\ Dialog!Loaded(a).loaded /\ Dialog!Loaded(a).history = stored[a]
<1> DEFINE agent == Dialog!Resolved(a)
<1>1. agent \in Dialog!LiveAgent /\ agent.config = Dialog!SavedConfigs(a)[a]
      /\ (agent.loaded => agent.history = stored[a]) /\ agent # None
  BY ResolvedAgrees
<1>2. stored[a] \in Seq(Dialog!Message) BY DEF DialogInv, Dialog!TypeOK
<1> HIDE DEF agent
<1>3. CASE agent.loaded
  <2>1. Dialog!Loaded(a) = agent BY <1>3 DEF Dialog!Loaded, agent
  <2> QED BY <1>1, <1>3, <2>1
<1>4. CASE ~agent.loaded
  <2>1. Dialog!Loaded(a) = [agent EXCEPT !.loaded = TRUE, !.history = stored[a]]
    BY <1>4 DEF Dialog!Loaded, agent
  <2>2. Dialog!Loaded(a) = [config |-> agent.config, loaded |-> TRUE, history |-> stored[a]]
    BY <1>1, <2>1 DEF Dialog!LiveAgent
  <2>3. Dialog!Loaded(a) \in Dialog!LiveAgent BY <1>1, <1>2, <2>2 DEF Dialog!LiveAgent
  <2>4. Dialog!Loaded(a) # None BY <2>3 DEF Dialog!AgentsAssumption
  <2> QED BY <1>1, <2>2, <2>3, <2>4
<1> QED BY <1>3, <1>4

\* Whatever a handler leaves in the place of one agent, if it agrees with storage.
LEMMA OneAgent ==
    ASSUME Dialog!AgentsAssumption, DialogInv, NEW a \in Agents, NEW agent \in Dialog!LiveAgent,
           NEW dialog \in Seq(Dialog!Message),
           agent.config = Dialog!SavedConfigs(a)[a], agent.loaded, agent.history = dialog,
           live' = [live EXCEPT ![a] = agent],
           configs' = Dialog!SavedConfigs(a),
           stored' = [stored EXCEPT ![a] = dialog]
    PROVE  /\ stored' \in [Agents -> Seq(Dialog!Message)]
           /\ configs' \in [Agents -> Dialog!Config \cup {None}]
           /\ live' \in [Agents -> Dialog!LiveAgent \cup {None}]
           /\ Dialog!LiveIsStored'
           /\ live'[a] # None /\ live'[a].loaded
           /\ \A b \in Agents \ {a} : live'[b] = live[b]
<1>1. live \in [Agents -> Dialog!LiveAgent \cup {None}] /\ stored \in [Agents -> Seq(Dialog!Message)]
  BY DEF DialogInv, Dialog!TypeOK
<1>2. agent # None BY DEF Dialog!AgentsAssumption
<1>3. Dialog!LiveIsStored'
  <2> SUFFICES ASSUME NEW b \in Agents, live'[b] # None
               PROVE  /\ live'[b].config = configs'[b]
                      /\ live'[b].loaded => live'[b].history = stored'[b]
    BY DEF Dialog!LiveIsStored
  <2>1. CASE b = a BY <1>1, <2>1
  <2>2. CASE b # a BY <1>1, <2>2, ResolvedAgrees DEF DialogInv, Dialog!LiveIsStored
  <2> QED BY <2>1, <2>2
<1> QED BY <1>1, <1>2, <1>3, ResolvedAgrees

LEMMA ReadHistoryCorrect ==
    ASSUME Dialog!AgentsAssumption, DialogInv, NEW a \in Agents, Dialog!ReadHistory(a)
    PROVE  DialogInv'
<1>1. stored[a] \in Seq(Dialog!Message) /\ stored' = [stored EXCEPT ![a] = stored[a]]
  BY DEF DialogInv, Dialog!TypeOK, Dialog!ReadHistory
<1>2. /\ Dialog!TypeOK' /\ Dialog!LiveIsStored'
      /\ live'[a] # None /\ live'[a].loaded /\ \A b \in Agents \ {a} : live'[b] = live[b]
  <2>1. /\ live' = [live EXCEPT ![a] = Dialog!Loaded(a)] /\ configs' = Dialog!SavedConfigs(a)
        /\ agentRequest' = agentRequest
    BY DEF Dialog!ReadHistory
  <2> QED BY <1>1, <2>1, OneAgent, LoadedAgrees DEF DialogInv, Dialog!TypeOK
<1>3. AskingIsLoaded'
  BY <1>2 DEF Dialog!ReadHistory, DialogInv, Dialog!TypeOK, Dialog!Request, AskingIsLoaded
<1> QED BY <1>2, <1>3 DEF DialogInv

LEMMA ClearHistoryCorrect ==
    ASSUME Dialog!AgentsAssumption, DialogInv, NEW a \in Agents, Dialog!ClearHistory(a)
    PROVE  DialogInv'
<1> DEFINE agent == [config |-> Dialog!Resolved(a).config, loaded |-> TRUE, history |-> <<>>]
<1>1. Dialog!Resolved(a).config \in Dialog!Config /\ Dialog!Resolved(a).config = Dialog!SavedConfigs(a)[a]
  BY ResolvedAgrees DEF Dialog!LiveAgent
<1>2. agent \in Dialog!LiveAgent /\ agent.config = Dialog!SavedConfigs(a)[a] /\ agent.loaded
      /\ agent.history = <<>>
  <2>1. <<>> \in Seq(Dialog!Message) OBVIOUS
  <2> QED BY <1>1, <2>1 DEF Dialog!LiveAgent
<1>3. /\ live' = [live EXCEPT ![a] = agent] /\ configs' = Dialog!SavedConfigs(a)
      /\ stored' = [stored EXCEPT ![a] = <<>>] /\ agentRequest' = agentRequest
  BY DEF Dialog!ClearHistory
<1> HIDE DEF agent
<1>4. /\ Dialog!TypeOK' /\ Dialog!LiveIsStored'
      /\ live'[a] # None /\ live'[a].loaded /\ \A b \in Agents \ {a} : live'[b] = live[b]
  <2>1. <<>> \in Seq(Dialog!Message) OBVIOUS
  <2> QED BY <1>2, <1>3, <2>1, OneAgent DEF DialogInv, Dialog!TypeOK
<1>5. AskingIsLoaded'
  BY <1>3, <1>4 DEF DialogInv, Dialog!TypeOK, Dialog!Request, AskingIsLoaded
<1> QED BY <1>4, <1>5 DEF DialogInv

LEMMA StartChatCorrect ==
    ASSUME Dialog!AgentsAssumption, DialogInv, NEW r \in Requests, NEW a \in Agents, Dialog!StartChat(r, a)
    PROVE  DialogInv'
<1>1. stored[a] \in Seq(Dialog!Message) /\ stored' = [stored EXCEPT ![a] = stored[a]]
  BY DEF DialogInv, Dialog!TypeOK, Dialog!StartChat
<1>2. /\ live' = [live EXCEPT ![a] = Dialog!Loaded(a)] /\ configs' = Dialog!SavedConfigs(a)
      /\ agentRequest' = [agentRequest EXCEPT ![r] = [phase |-> "asking", agent |-> a]]
  BY DEF Dialog!StartChat
<1>3. /\ stored' \in [Agents -> Seq(Dialog!Message)]
      /\ configs' \in [Agents -> Dialog!Config \cup {None}]
      /\ live' \in [Agents -> Dialog!LiveAgent \cup {None}]
      /\ Dialog!LiveIsStored'
      /\ live'[a] # None /\ live'[a].loaded /\ \A b \in Agents \ {a} : live'[b] = live[b]
  BY <1>1, <1>2, OneAgent, LoadedAgrees
<1>4. agentRequest' \in [Requests -> Dialog!Request]
  BY <1>2 DEF DialogInv, Dialog!TypeOK, Dialog!Request
<1>5. AskingIsLoaded'
  BY <1>2, <1>3 DEF DialogInv, Dialog!TypeOK, Dialog!Request, AskingIsLoaded
<1> QED BY <1>3, <1>4, <1>5 DEF DialogInv, Dialog!TypeOK

LEMMA ListAgentsCorrect == ASSUME Dialog!AgentsAssumption, DialogInv, Dialog!ListAgents PROVE DialogInv'
<1>1. \A a \in Agents : /\ Dialog!Resolved(a) \in Dialog!LiveAgent /\ Dialog!Resolved(a) # None
                        /\ Dialog!ConfigOf(a) \in Dialog!Config
                        /\ (Dialog!Resolved(a).loaded => Dialog!Resolved(a).history = stored[a])
  BY ResolvedAgrees, ConfigIsTyped
<1>2. Dialog!TypeOK' BY <1>1 DEF Dialog!ListAgents, DialogInv, Dialog!TypeOK
<1>3. Dialog!LiveIsStored'
  <2> SUFFICES ASSUME NEW a \in Agents, live'[a] # None
               PROVE  /\ live'[a].config = configs'[a]
                      /\ live'[a].loaded => live'[a].history = stored'[a]
    BY DEF Dialog!LiveIsStored
  <2>1. a \in Dialog!KnownAgents /\ live'[a] = Dialog!Resolved(a) /\ stored' = stored
    BY DEF Dialog!ListAgents
  <2>2. CASE live[a] = None
    BY <1>1, <2>1, <2>2 DEF Dialog!ListAgents, Dialog!Resolved, Dialog!Fresh
  <2>3. CASE live[a] # None
    BY <1>1, <2>1, <2>3 DEF Dialog!ListAgents, Dialog!Resolved, DialogInv, Dialog!LiveIsStored
  <2> QED BY <2>2, <2>3
<1>4. AskingIsLoaded'
  <2>1. \A a \in Agents : live[a] # None => live'[a] = live[a]
    BY DEF Dialog!ListAgents, Dialog!KnownAgents, Dialog!Resolved
  <2> QED BY <2>1 DEF Dialog!ListAgents, DialogInv, Dialog!TypeOK, Dialog!Request, AskingIsLoaded
<1> QED BY <1>2, <1>3, <1>4 DEF DialogInv

\* Messages of a turn under way go to storage and to the live agent alike.
LEMMA KeepCorrect ==
    ASSUME Dialog!AgentsAssumption, DialogInv, NEW r \in Requests, agentRequest[r].phase = "asking",
           NEW some \in Seq(Dialog!Message), Dialog!Keep(agentRequest[r].agent, some),
           NEW phase \in {"answered", "cut"}, Dialog!InPhase(r, phase)
    PROVE  DialogInv'
<1> DEFINE a == agentRequest[r].agent
           agent == [live[a] EXCEPT !.history = @ \o some]
<1>1. a \in Agents BY DEF DialogInv, Dialog!TypeOK, Dialog!Request
<1>2. live[a] \in Dialog!LiveAgent /\ live[a] # None /\ live[a].loaded
      /\ live[a].history = stored[a] /\ live[a].config = configs[a]
  BY <1>1 DEF DialogInv, Dialog!TypeOK, AskingIsLoaded, Dialog!LiveIsStored
<1>3. agent = [config |-> live[a].config, loaded |-> TRUE, history |-> stored[a] \o some]
  <2>1. live[a].loaded = TRUE
    BY <1>2 DEF Dialog!LiveAgent
  <2>2. agent = [config |-> live[a].config, loaded |-> live[a].loaded,
                 history |-> live[a].history \o some]
    BY <1>2, OtherHistory
  <2> QED BY <1>2, <2>1, <2>2
<1>4. stored[a] \o some \in Seq(Dialog!Message)
  BY <1>1 DEF DialogInv, Dialog!TypeOK
<1>5. agent \in Dialog!LiveAgent /\ agent # None
  BY <1>2, <1>3, <1>4 DEF Dialog!LiveAgent, Dialog!AgentsAssumption
<1>6. /\ stored' = [stored EXCEPT ![a] = stored[a] \o some]
      /\ live' = [live EXCEPT ![a] = agent]
      /\ configs' = configs
      /\ agentRequest' = [agentRequest EXCEPT ![r].phase = phase]
  BY DEF Dialog!Keep, Dialog!InPhase
<1>7. agentRequest' \in [Requests -> Dialog!Request]
      /\ \A s \in Requests : /\ agentRequest'[s].agent = agentRequest[s].agent
                             /\ agentRequest'[s].phase = "asking" => agentRequest[s].phase = "asking"
  BY <1>6 DEF DialogInv, Dialog!TypeOK, Dialog!Request
<1> HIDE DEF agent, a
<1>8. Dialog!TypeOK' BY <1>1, <1>4, <1>5, <1>6, <1>7 DEF DialogInv, Dialog!TypeOK
<1>9. Dialog!LiveIsStored'
  <2> SUFFICES ASSUME NEW b \in Agents, live'[b] # None
               PROVE  /\ live'[b].config = configs'[b]
                      /\ live'[b].loaded => live'[b].history = stored'[b]
    BY DEF Dialog!LiveIsStored
  <2>1. CASE b = a BY <1>1, <1>2, <1>3, <1>6, <2>1 DEF DialogInv, Dialog!TypeOK
  <2>2. CASE b # a BY <1>6, <2>2 DEF DialogInv, Dialog!TypeOK, Dialog!LiveIsStored
  <2> QED BY <2>1, <2>2
<1>10. AskingIsLoaded'
  BY <1>1, <1>3, <1>5, <1>6, <1>7 DEF DialogInv, Dialog!TypeOK, Dialog!Request, AskingIsLoaded
<1> QED BY <1>8, <1>9, <1>10 DEF DialogInv

\* At the end of the process nothing is live and nothing is under way.
LEMMA EndCorrect ==
    ASSUME Dialog!AgentsAssumption, DialogInv, NEW cut,
           live' = [a \in Agents |-> None], agentRequest' = Dialog!Ended(cut), configs' = configs,
           stored' \in [Agents -> Seq(Dialog!Message)]
    PROVE  DialogInv'
<1>1. agentRequest' \in [Requests -> Dialog!Request] /\ \A r \in Requests : agentRequest'[r].phase # "asking"
  BY DEF Dialog!Ended, DialogInv, Dialog!TypeOK, Dialog!Request
<1> QED BY <1>1 DEF DialogInv, Dialog!TypeOK, Dialog!LiveIsStored, AskingIsLoaded

LEMMA DialogStep == ASSUME Dialog!AgentsAssumption PROVE DialogInv /\ [Dialog!Next]_(Dialog!vars) => DialogInv'
<1> SUFFICES ASSUME DialogInv, [Dialog!Next]_(Dialog!vars) PROVE DialogInv'
  OBVIOUS
<1>1. ASSUME NEW a \in Agents, Dialog!ReadHistory(a) PROVE DialogInv' BY <1>1, ReadHistoryCorrect
<1>2. ASSUME NEW a \in Agents, Dialog!ClearHistory(a) PROVE DialogInv' BY <1>2, ClearHistoryCorrect
<1>3. CASE Dialog!ListAgents BY <1>3, ListAgentsCorrect
<1>4. ASSUME NEW r \in Requests, NEW a \in Agents, Dialog!StartChat(r, a) PROVE DialogInv'
  BY <1>4, StartChatCorrect
<1>5. ASSUME NEW r \in Requests, Dialog!Answer(r) PROVE DialogInv'
  <2>1. <<Dialog!User(r), Dialog!Assistant(r)>> \in Seq(Dialog!Message) BY DEF Dialog!User, Dialog!Assistant, Dialog!Message
  <2> QED BY <1>5, <2>1, KeepCorrect DEF Dialog!Answer
<1>6. ASSUME NEW r \in Requests, Dialog!ChatFails(r) PROVE DialogInv'
  BY <1>6 DEF Dialog!ChatFails, Dialog!InPhase, DialogInv, Dialog!TypeOK, Dialog!Request, Dialog!LiveIsStored, AskingIsLoaded
<1>7. ASSUME NEW r \in Requests, Dialog!AnswerCut(r) PROVE DialogInv'
  <2>1. <<Dialog!User(r)>> \in Seq(Dialog!Message) BY DEF Dialog!User, Dialog!Message
  <2> QED BY <1>7, <2>1, KeepCorrect DEF Dialog!AnswerCut
<1>8. ASSUME NEW r \in Requests, Dialog!DiesInAnswer(r) PROVE DialogInv'
  <2>1. Dialog!User(r) \in Dialog!Message BY DEF Dialog!User, Dialog!Message
  <2>2. stored' \in [Agents -> Seq(Dialog!Message)]
    <3>1. agentRequest[r].agent \in Agents BY <1>8 DEF DialogInv, Dialog!TypeOK, Dialog!Request
    <3>2. stored \in [Agents -> Seq(Dialog!Message)] BY DEF DialogInv, Dialog!TypeOK
    <3>3. Append(stored[agentRequest[r].agent], Dialog!User(r)) \in Seq(Dialog!Message) BY <2>1, <3>1, <3>2
    <3> QED BY <1>8, <3>1, <3>2, <3>3 DEF Dialog!DiesInAnswer
  <2> QED BY <1>8, <2>2, EndCorrect DEF Dialog!DiesInAnswer
<1>9. CASE Dialog!Restart
  <2>1. stored' \in [Agents -> Seq(Dialog!Message)] BY <1>9 DEF Dialog!Restart, DialogInv, Dialog!TypeOK
  <2> QED BY <1>9, <2>1, EndCorrect DEF Dialog!Restart
<1>10. CASE UNCHANGED Dialog!vars
  BY <1>10 DEF Dialog!vars, DialogInv, Dialog!TypeOK, Dialog!LiveIsStored, AskingIsLoaded
<1> QED BY <1>1, <1>2, <1>3, <1>4, <1>5, <1>6, <1>7, <1>8, <1>9, <1>10 DEF Dialog!Next

LEMMA DialogInductive == Spec => []DialogInv
<1>1. Dialog!AgentsAssumption
    BY DialogsConstants DEF DialogsAssumption
<1>2. Init => DialogInv
    BY <1>1, DialogInit DEF Init
<1>3. [Next]_vars => [Dialog!Next]_(Dialog!vars)
    BY Zenon DEF Next, Only, vars, Dialog!vars, agentVars
<1>4. DialogInv /\ [Next]_vars => DialogInv'
    BY <1>1, <1>3, DialogStep
<1> QED BY <1>2, <1>4, PTL DEF Spec

\* The tables, the registry and the requests have their types (agents/manager.py).
THEOREM AgentsTypeCorrect == Spec => []Dialog!TypeOK
<1>1. DialogInv => Dialog!TypeOK BY DEF DialogInv
<1> QED BY DialogInductive, <1>1, PTL

\* For any agents and any turns that overlap, fail half way, are cleared or die
\* meanwhile, a live agent is what a restart would read back (Agent.chat writes
\* to storage and to its history together).
THEOREM LiveIsWhatIsStored == Spec => []Dialog!LiveIsStored
<1>1. DialogInv => Dialog!LiveIsStored BY DEF DialogInv
<1> QED BY DialogInductive, <1>1, PTL
\* A turn that has written is over, and what a dialog has of it is whole or was
\* cut.  Without the first part a turn under way might find messages of its own.
Whole(dialog, turns) ==
    /\ \A i \in 1 .. Len(dialog) : turns[dialog[i].by].phase \in {"answered", "cut"}
    /\ \A i \in 1 .. Len(dialog) :
          LET r == dialog[i].by
          IN  IF dialog[i].role = "assistant"
              THEN i > 1 /\ dialog[i - 1] = Dialog!User(r)
              ELSE \/ i < Len(dialog) /\ dialog[i + 1] = Dialog!Assistant(r)
                   \/ turns[r].phase = "cut"
    /\ \A i, j \in 1 .. Len(dialog) : dialog[i] = dialog[j] => i = j

DialogsWhole == \A a \in Agents : Whole(stored[a], agentRequest)

LEMMA MessagesHaveTurns ==
    ASSUME NEW dialog \in Seq(Dialog!Message)
    PROVE  \A i \in 1 .. Len(dialog) : dialog[i] \in Dialog!Message /\ dialog[i].by \in Requests
<1>1. \A i \in 1 .. Len(dialog) : dialog[i] \in Dialog!Message
    OBVIOUS
<1>2. \A m \in Dialog!Message : m.by \in Requests
    BY DEF Dialog!Message
<1> QED BY <1>1, <1>2, Zenon

\* What becomes of turns under way does not disturb what others have written.
LEMMA WholeStays ==
    ASSUME NEW dialog \in Seq(Dialog!Message),
           NEW turns \in [Requests -> Dialog!Request], NEW later \in [Requests -> Dialog!Request],
           Whole(dialog, turns),
           \A r \in Requests : turns[r].phase \in {"answered", "cut"} =>
                                   later[r].phase = turns[r].phase
    PROVE  Whole(dialog, later)
<1>1. \A i \in 1 .. Len(dialog) : dialog[i].by \in Requests
    BY MessagesHaveTurns, Zenon
<1> QED BY <1>1, SMT DEF Whole

\* A question and its answer are added together.
LEMMA WholeWithTurn ==
    ASSUME NEW dialog \in Seq(Dialog!Message),
           NEW turns \in [Requests -> Dialog!Request], Whole(dialog, turns),
           NEW r \in Requests, turns[r].phase = "asking"
    PROVE  Whole(dialog \o <<Dialog!User(r), Dialog!Assistant(r)>>,
                 [turns EXCEPT ![r].phase = "answered"])
<1> DEFINE more == dialog \o <<Dialog!User(r), Dialog!Assistant(r)>>
           later == [turns EXCEPT ![r].phase = "answered"]
<1>1. /\ Dialog!User(r) \in Dialog!Message /\ Dialog!Assistant(r) \in Dialog!Message
      /\ Dialog!User(r).by = r /\ Dialog!Assistant(r).by = r
      /\ Dialog!User(r).role = "user" /\ Dialog!Assistant(r).role = "assistant"
    BY SMT DEF Dialog!User, Dialog!Assistant, Dialog!Message
<1>2. /\ Len(dialog) \in Nat /\ Len(more) = Len(dialog) + 2
      /\ \A i \in 1 .. Len(dialog) : more[i] = dialog[i]
      /\ more[Len(dialog) + 1] = Dialog!User(r) /\ more[Len(dialog) + 2] = Dialog!Assistant(r)
    BY <1>1, SMT
<1>3. \A i \in 1 .. Len(dialog) : dialog[i].by \in Requests /\ dialog[i].by # r
    BY MessagesHaveTurns, Zenon DEF Whole
<1>4. /\ later[r].phase = "answered" /\ \A s \in Requests \ {r} : later[s].phase = turns[s].phase
    BY SMT DEF Dialog!Request
<1> HIDE DEF more, later
<1>5. \A i \in 1 .. Len(more) : i \in 1 .. Len(dialog) \/ i = Len(dialog) + 1 \/ i = Len(dialog) + 2
    BY <1>2, SMT
<1>6. \A i \in 1 .. Len(more) : later[more[i].by].phase \in {"answered", "cut"}
    BY <1>1, <1>2, <1>3, <1>4, <1>5, SMT DEF Whole
<1>7. ASSUME NEW i \in 1 .. Len(more)
      PROVE  LET s == more[i].by
             IN  IF more[i].role = "assistant"
                 THEN i > 1 /\ more[i - 1] = Dialog!User(s)
                 ELSE \/ i < Len(more) /\ more[i + 1] = Dialog!Assistant(s)
                      \/ later[s].phase = "cut"
    <2>1. CASE i \in 1 .. Len(dialog)
        <3>1. more[i] = dialog[i] /\ dialog[i].by \in Requests \ {r}
            BY <1>2, <1>3, <2>1, Zenon
        <3>2. CASE dialog[i].role = "assistant"
            <4>1. i > 1 /\ dialog[i - 1] = Dialog!User(dialog[i].by)
                BY <2>1, <3>2, Zenon DEF Whole
            <4>2. i - 1 \in 1 .. Len(dialog)
                BY <1>2, <2>1, <4>1, SMT
            <4> QED BY <1>2, <3>1, <3>2, <4>1, <4>2, Zenon
        <3>3. CASE dialog[i].role # "assistant"
            <4>1. \/ i < Len(dialog) /\ dialog[i + 1] = Dialog!Assistant(dialog[i].by)
                  \/ turns[dialog[i].by].phase = "cut"
                BY <2>1, <3>3, Zenon DEF Whole
            <4>2. i < Len(dialog) => i + 1 \in 1 .. Len(dialog) /\ i < Len(more)
                BY <1>2, <2>1, SMT
            <4>3. turns[dialog[i].by].phase = "cut" => later[more[i].by].phase = "cut"
                BY <1>4, <3>1, Zenon
            <4> QED BY <1>2, <3>1, <3>3, <4>1, <4>2, <4>3, Zenon
        <3> QED BY <3>2, <3>3
    <2>2. CASE i = Len(dialog) + 1
        <3>1. more[i].role # "assistant" /\ more[i].by = r
            BY <1>1, <1>2, <2>2, SMT
        <3>2. i < Len(more) /\ more[i + 1] = Dialog!Assistant(r)
            BY <1>2, <2>2, SMT
        <3> QED BY <3>1, <3>2, Zenon
    <2>3. CASE i = Len(dialog) + 2
        <3>1. more[i].role = "assistant" /\ more[i].by = r
            BY <1>1, <1>2, <2>3, SMT
        <3>2. i > 1 /\ more[i - 1] = Dialog!User(r)
            BY <1>2, <2>3, SMT
        <3> QED BY <3>1, <3>2, Zenon
    <2> QED BY <1>5, <2>1, <2>2, <2>3
<1>8. \A i, j \in 1 .. Len(more) : more[i] = more[j] => i = j
    BY <1>1, <1>2, <1>3, <1>5, SMT DEF Whole
<1> QED BY <1>6, <1>7, <1>8, Zenon DEF Whole, more, later

\* A turn that is cut leaves its question.
LEMMA WholeWithCut ==
    ASSUME NEW dialog \in Seq(Dialog!Message),
           NEW turns \in [Requests -> Dialog!Request], Whole(dialog, turns),
           NEW r \in Requests, turns[r].phase = "asking",
           NEW later \in [Requests -> Dialog!Request], later[r].phase = "cut",
           \A s \in Requests \ {r} : turns[s].phase \in {"answered", "cut"} =>
                                         later[s].phase = turns[s].phase
    PROVE  Whole(Append(dialog, Dialog!User(r)), later)
<1> DEFINE more == Append(dialog, Dialog!User(r))
<1>1. /\ Dialog!User(r) \in Dialog!Message
      /\ Dialog!User(r).by = r /\ Dialog!User(r).role = "user"
    BY SMT DEF Dialog!User, Dialog!Message
<1>2. /\ Len(dialog) \in Nat /\ Len(more) = Len(dialog) + 1
      /\ \A i \in 1 .. Len(dialog) : more[i] = dialog[i]
      /\ more[Len(dialog) + 1] = Dialog!User(r)
    BY <1>1, SMT
<1>3. \A i \in 1 .. Len(dialog) : dialog[i].by \in Requests /\ dialog[i].by # r
    BY MessagesHaveTurns, Zenon DEF Whole
<1> HIDE DEF more
<1>4. \A i \in 1 .. Len(more) : i \in 1 .. Len(dialog) \/ i = Len(dialog) + 1
    BY <1>2, SMT
<1>5. \A i \in 1 .. Len(more) : later[more[i].by].phase \in {"answered", "cut"}
    BY <1>1, <1>2, <1>3, <1>4, SMT DEF Whole
<1>6. ASSUME NEW i \in 1 .. Len(more)
      PROVE  LET s == more[i].by
             IN  IF more[i].role = "assistant"
                 THEN i > 1 /\ more[i - 1] = Dialog!User(s)
                 ELSE \/ i < Len(more) /\ more[i + 1] = Dialog!Assistant(s)
                      \/ later[s].phase = "cut"
    <2>1. CASE i \in 1 .. Len(dialog)
        <3>1. more[i] = dialog[i] /\ dialog[i].by \in Requests \ {r}
            BY <1>2, <1>3, <2>1, Zenon
        <3>2. CASE dialog[i].role = "assistant"
            <4>1. i > 1 /\ dialog[i - 1] = Dialog!User(dialog[i].by)
                BY <2>1, <3>2, Zenon DEF Whole
            <4>2. i - 1 \in 1 .. Len(dialog)
                BY <1>2, <2>1, <4>1, SMT
            <4> QED BY <1>2, <3>1, <3>2, <4>1, <4>2, Zenon
        <3>3. CASE dialog[i].role # "assistant"
            <4>1. \/ i < Len(dialog) /\ dialog[i + 1] = Dialog!Assistant(dialog[i].by)
                  \/ turns[dialog[i].by].phase = "cut"
                BY <2>1, <3>3, Zenon DEF Whole
            <4>2. i < Len(dialog) => i + 1 \in 1 .. Len(dialog) /\ i < Len(more)
                BY <1>2, <2>1, SMT
            <4>3. turns[dialog[i].by].phase = "cut" => later[more[i].by].phase = "cut"
                BY <1>3, <3>1, Zenon
            <4> QED BY <1>2, <3>1, <3>3, <4>1, <4>2, <4>3, Zenon
        <3> QED BY <3>2, <3>3
    <2>2. CASE i = Len(dialog) + 1
        BY <1>1, <1>2, <2>2, SMT
    <2> QED BY <1>4, <2>1, <2>2
<1>7. \A i, j \in 1 .. Len(more) : more[i] = more[j] => i = j
    BY <1>1, <1>2, <1>3, <1>4, SMT DEF Whole
<1> QED BY <1>5, <1>6, <1>7, Zenon DEF Whole, more

\* Requests that have written are left alone, but for the one a step is of.
LEMMA OthersWhole ==
    ASSUME DialogInv, DialogsWhole, NEW a \in Agents, DialogInv',
           \A r \in Requests : agentRequest[r].phase \in {"answered", "cut"} =>
                                   agentRequest'[r].phase = agentRequest[r].phase
    PROVE  Whole(stored[a], agentRequest')
<1>1. stored[a] \in Seq(Dialog!Message)
    BY DEF DialogInv, Dialog!TypeOK
<1>2. agentRequest \in [Requests -> Dialog!Request] /\ agentRequest' \in [Requests -> Dialog!Request]
    BY DEF DialogInv, Dialog!TypeOK
<1>3. Whole(stored[a], agentRequest)
    BY DEF DialogsWhole
<1> QED BY <1>1, <1>2, <1>3, WholeStays

LEMMA WholeInit == ASSUME Dialog!AgentsAssumption PROVE Dialog!Init => DialogsWhole
BY SMT DEF Dialog!Init, DialogsWhole, Whole

LEMMA WholeStep ==
    ASSUME Dialog!AgentsAssumption, DialogInv, DialogsWhole, [Dialog!Next]_(Dialog!vars)
    PROVE  DialogsWhole'
<1> DEFINE Kept == \A r \in Requests : agentRequest[r].phase \in {"answered", "cut"} =>
                                           agentRequest'[r].phase = agentRequest[r].phase
<1>1. DialogInv'
    BY DialogStep
<1>2. /\ agentRequest \in [Requests -> Dialog!Request]
      /\ agentRequest' \in [Requests -> Dialog!Request]
      /\ stored \in [Agents -> Seq(Dialog!Message)]
    BY <1>1 DEF DialogInv, Dialog!TypeOK
<1>3. ASSUME Kept, UNCHANGED stored PROVE DialogsWhole'
    BY <1>1, <1>3, OthersWhole DEF DialogsWhole
<1>4. ASSUME NEW a \in Agents, Dialog!ReadHistory(a) \/ Dialog!ListAgents PROVE DialogsWhole'
    <2>1. UNCHANGED <<stored, agentRequest>>
        BY <1>4, Zenon DEF Dialog!ReadHistory, Dialog!ListAgents
    <2> QED BY <2>1, <1>3
<1>5. ASSUME NEW a \in Agents, Dialog!ClearHistory(a) PROVE DialogsWhole'
    <2>1. stored' = [stored EXCEPT ![a] = <<>>] /\ agentRequest' = agentRequest
        BY <1>5, Zenon DEF Dialog!ClearHistory
    <2>2. Whole(<<>>, agentRequest)
        BY SMT DEF Whole
    <2> QED BY <1>2, <2>1, <2>2, Zenon DEF DialogsWhole
<1>6. ASSUME NEW r \in Requests, NEW a \in Agents, Dialog!StartChat(r, a) PROVE DialogsWhole'
    <2>1. /\ agentRequest[r].phase = "idle" /\ stored' = stored
          /\ agentRequest' = [agentRequest EXCEPT ![r] = [phase |-> "asking", agent |-> a]]
        BY <1>6, Zenon DEF Dialog!StartChat
    <2>2. Kept
        BY <1>2, <2>1, SMT
    <2> QED BY <1>3, <2>1, <2>2
<1>7. ASSUME NEW r \in Requests, Dialog!Answer(r) PROVE DialogsWhole'
    <2> DEFINE a == agentRequest[r].agent
    <2>1. /\ agentRequest[r].phase = "asking"
          /\ stored' = [stored EXCEPT ![a] = @ \o <<Dialog!User(r), Dialog!Assistant(r)>>]
          /\ agentRequest' = [agentRequest EXCEPT ![r].phase = "answered"]
        BY <1>7, Zenon DEF Dialog!Answer, Dialog!Keep, Dialog!InPhase
    <2>2. a \in Agents
        BY <1>2, SMT DEF Dialog!Request
    <2>3. Kept
        BY <1>2, <2>1, SMT DEF Dialog!Request
    <2> HIDE DEF a
    <2>4. stored'[a] = stored[a] \o <<Dialog!User(r), Dialog!Assistant(r)>>
          /\ \A b \in Agents \ {a} : stored'[b] = stored[b]
        BY <1>2, <2>1, <2>2, Zenon
    <2>5. stored[a] \in Seq(Dialog!Message) /\ Whole(stored[a], agentRequest)
        BY <1>2, <2>2 DEF DialogsWhole
    <2>6. Whole(stored'[a], agentRequest')
        <3>1. Whole(stored[a] \o <<Dialog!User(r), Dialog!Assistant(r)>>,
                    [agentRequest EXCEPT ![r].phase = "answered"])
            BY <1>2, <2>1, <2>5, WholeWithTurn
        <3> QED BY <2>1, <2>4, <3>1, Zenon
    <2>7. \A b \in Agents \ {a} : Whole(stored'[b], agentRequest')
        BY <1>1, <2>3, <2>4, OthersWhole
    <2> QED BY <2>6, <2>7 DEF DialogsWhole
<1>8. ASSUME NEW r \in Requests, Dialog!ChatFails(r) PROVE DialogsWhole'
    <2>1. /\ agentRequest[r].phase = "asking" /\ stored' = stored
          /\ agentRequest' = [agentRequest EXCEPT ![r].phase = "failed"]
        BY <1>8, Zenon DEF Dialog!ChatFails, Dialog!InPhase
    <2>2. Kept
        BY <1>2, <2>1, SMT DEF Dialog!Request
    <2> QED BY <1>3, <2>1, <2>2
<1>9. ASSUME NEW r \in Requests, agentRequest[r].phase = "asking",
             stored' = [stored EXCEPT ![agentRequest[r].agent] = Append(@, Dialog!User(r))],
             agentRequest'[r].phase = "cut",
             \A s \in Requests \ {r} : agentRequest[s].phase \in {"answered", "cut"} =>
                                           agentRequest'[s].phase = agentRequest[s].phase
      PROVE  DialogsWhole'
    <2> DEFINE a == agentRequest[r].agent
    <2>1. a \in Agents
        BY <1>2, SMT DEF Dialog!Request
    <2>2. Kept
        BY <1>9, SMT
    <2> HIDE DEF a
    <2>3. stored'[a] = Append(stored[a], Dialog!User(r))
          /\ \A b \in Agents \ {a} : stored'[b] = stored[b]
        BY <1>2, <1>9, <2>1, Zenon DEF a
    <2>4. stored[a] \in Seq(Dialog!Message) /\ Whole(stored[a], agentRequest)
        BY <1>2, <2>1 DEF DialogsWhole
    <2>5. Whole(stored'[a], agentRequest')
        <3>1. Whole(Append(stored[a], Dialog!User(r)), agentRequest')
            BY <1>2, <1>9, <2>4, WholeWithCut
        <3> QED BY <2>3, <3>1, Zenon
    <2>6. \A b \in Agents \ {a} : Whole(stored'[b], agentRequest')
        BY <1>1, <2>2, <2>3, OthersWhole
    <2> QED BY <2>5, <2>6 DEF DialogsWhole
<1>10. ASSUME NEW r \in Requests, Dialog!AnswerCut(r) PROVE DialogsWhole'
    <2>1. /\ agentRequest[r].phase = "asking"
          /\ stored' = [stored EXCEPT ![agentRequest[r].agent] = @ \o <<Dialog!User(r)>>]
          /\ agentRequest' = [agentRequest EXCEPT ![r].phase = "cut"]
        BY <1>10, Zenon DEF Dialog!AnswerCut, Dialog!Keep, Dialog!InPhase
    <2>2. /\ agentRequest'[r].phase = "cut"
          /\ \A s \in Requests \ {r} : agentRequest'[s].phase = agentRequest[s].phase
        BY <1>2, <2>1, SMT DEF Dialog!Request
    <2>3. agentRequest[r].agent \in Agents /\ Dialog!User(r) \in Dialog!Message
        BY <1>2, SMT DEF Dialog!Request, Dialog!User, Dialog!Message
    <2>4. stored[agentRequest[r].agent] \o <<Dialog!User(r)>>
            = Append(stored[agentRequest[r].agent], Dialog!User(r))
        BY <1>2, <2>3, SMT
    <2> QED BY <1>9, <2>1, <2>2, <2>4, Zenon
<1>11. ASSUME NEW r \in Requests, Dialog!DiesInAnswer(r) PROVE DialogsWhole'
    <2>1. /\ agentRequest[r].phase = "asking"
          /\ stored' = [stored EXCEPT ![agentRequest[r].agent] = Append(@, Dialog!User(r))]
          /\ agentRequest' = Dialog!Ended({r})
        BY <1>11, Zenon DEF Dialog!DiesInAnswer
    <2>2. /\ agentRequest'[r].phase = "cut"
          /\ \A s \in Requests \ {r} : agentRequest[s].phase \in {"answered", "cut"} =>
                                           agentRequest'[s].phase = agentRequest[s].phase
        BY <1>2, <2>1, SMT DEF Dialog!Ended, Dialog!Request
    <2> QED BY <1>9, <2>1, <2>2
<1>12. CASE Dialog!Restart
    <2>1. stored' = stored /\ agentRequest' = Dialog!Ended({})
        BY <1>12, Zenon DEF Dialog!Restart
    <2>2. Kept
        BY <1>2, <2>1, SMT DEF Dialog!Ended, Dialog!Request
    <2> QED BY <1>3, <2>1, <2>2
<1>13. CASE UNCHANGED Dialog!vars
    BY <1>3, <1>13 DEF Dialog!vars
<1>14. CASE Dialog!Next
    BY <1>4, <1>5, <1>6, <1>7, <1>8, <1>10, <1>11, <1>12, <1>14, Zenon
       DEF Dialog!Next, Dialog!AgentsAssumption
<1> QED BY <1>13, <1>14

\* Whatever turns overlap, fail half way, are cleared or die meanwhile: a live
\* agent is what a restart would read back, and stored dialogs consist of whole
\* turns, each message once (Agent.chat over ContextRepository).
THEOREM AgentsAgree == Spec => []AgentsMatchStorage
<1>1. Dialog!AgentsAssumption
    BY DialogsConstants DEF DialogsAssumption
<1>2. Init => DialogsWhole
    BY <1>1, WholeInit DEF Init
<1>3. [Next]_vars => [Dialog!Next]_(Dialog!vars)
    BY Zenon DEF Next, Only, vars, Dialog!vars, agentVars
<1>4. DialogInv /\ DialogsWhole /\ [Next]_vars => DialogsWhole'
    BY <1>1, <1>3, WholeStep
<1>5. DialogInv /\ DialogsWhole => AgentsMatchStorage
    <2> SUFFICES ASSUME DialogInv, DialogsWhole PROVE AgentsMatchStorage
        OBVIOUS
    <2>1. Dialog!LiveIsStored
        BY DEF DialogInv
    <2>2. Dialog!TurnsWhole
        BY Zenon DEF DialogsWhole, Whole, Dialog!TurnsWhole
    <2> QED BY <2>1, <2>2 DEF AgentsMatchStorage, Of
<1> QED BY <1>2, <1>4, <1>5, DialogInductive, PTL DEF Spec

----------------------------------------------------------------------------
(* The compressed dialog of Day 9.                                         *)

Phases == {"idle", "summarising", "asking", "done", "failed"}

Summarising ==
    [phase : Phases,
     covered : SUBSET Compressed!Message, nextCount : Nat, replaced : BOOLEAN]

First(n) == {fullHistory[i] : i \in 1 .. n}

SummariesTyped ==
    /\ fullHistory \in Seq(Compressed!Message)
    /\ summary \subseteq Compressed!Message
    /\ count \in Nat
    /\ day9Request \in [ManyRequests -> Summarising]
    /\ outlived \in BOOLEAN

\* A summary that is being made is of a beginning of the dialog, unless the dialog
\* was replaced.
SummariesOfPrefix ==
    outlived \/
        /\ count <= Len(fullHistory) /\ summary = First(count)
        /\ \A r \in ManyRequests : day9Request[r].phase = "summarising" =>
               \/ day9Request[r].replaced
               \/ /\ day9Request[r].nextCount <= Len(fullHistory)
                  /\ day9Request[r].covered = First(day9Request[r].nextCount)

CompressedInv == SummariesTyped /\ SummariesOfPrefix

\* The messages of a part of a sequence.
LEMMA RangeOfSpan ==
    ASSUME NEW S, NEW s \in Seq(S), NEW a \in Nat \ {0}, NEW b \in Nat, b <= Len(s)
    PROVE  Compressed!Range(SubSeq(s, a, b)) = {s[i] : i \in a .. b}
<1>1. Len(s) \in Nat /\ \A i \in 1 .. Len(s) : s[i] \in S
    OBVIOUS
<1>2. CASE a <= b
    <2> DEFINE part == SubSeq(s, a, b)
    <2>1. /\ Len(part) = b - a + 1 /\ DOMAIN part = 1 .. b - a + 1
          /\ \A i \in 1 .. b - a + 1 : part[i] = s[a + i - 1]
        BY <1>1, <1>2, SMT
    <2> HIDE DEF part
    <2>2. ASSUME NEW x \in Compressed!Range(part) PROVE x \in {s[i] : i \in a .. b}
        <3>1. PICK i \in 1 .. b - a + 1 : x = part[i]
            BY <2>1, <2>2, Zenon DEF Compressed!Range
        <3>2. x = s[a + i - 1] /\ a + i - 1 \in a .. b
            BY <2>1, <3>1, SMT
        <3> QED BY <3>2, Zenon
    <2>3. ASSUME NEW i \in a .. b PROVE s[i] \in Compressed!Range(part)
        <3>1. i - a + 1 \in 1 .. b - a + 1 /\ a + (i - a + 1) - 1 = i
            BY <2>3, SMT
        <3>2. part[i - a + 1] = s[i]
            BY <2>1, <3>1, SMT
        <3> QED BY <2>1, <3>1, <3>2, Zenon DEF Compressed!Range
    <2>4. Compressed!Range(part) = {s[i] : i \in a .. b}
        BY <2>2, <2>3, Zenon
    <2> QED BY <2>4, Zenon DEF part
<1>3. CASE a > b
    <2>1. SubSeq(s, a, b) = <<>>
        BY <1>1, <1>3, SMT
    <2>2. DOMAIN <<>> = {} /\ a .. b = {}
        BY <1>3, SMT
    <2> QED BY <2>1, <2>2, SMT DEF Compressed!Range
<1> QED BY <1>2, <1>3, SMT

\* The larger of two numbers.
LEMMA LargerOfTwo ==
    ASSUME NEW a \in Int, NEW b \in Int
    PROVE  /\ Compressed!Max({a, b}) \in {a, b}
           /\ Compressed!Max({a, b}) >= a /\ Compressed!Max({a, b}) >= b
<1>1. \E x \in {a, b} : \A y \in {a, b} : x >= y
    BY SMT
<1>2. /\ Compressed!Max({a, b}) \in {a, b}
      /\ \A y \in {a, b} : Compressed!Max({a, b}) >= y
    BY <1>1, Zenon DEF Compressed!Max
<1> QED BY <1>2, Zenon

LEMMA WindowStarts ==
    ASSUME SummariesTyped, NEW limit \in Nat
    PROVE  Compressed!WindowStart(limit) \in Nat /\ Compressed!WindowStart(limit) <= Len(fullHistory)
<1>1. Len(fullHistory) \in Nat
    BY DEF SummariesTyped
<1>2. Len(fullHistory) - limit \in Int /\ 0 \in Int /\ Len(fullHistory) - limit <= Len(fullHistory)
    BY <1>1, SMT
<1>3. /\ Compressed!WindowStart(limit) \in {Len(fullHistory) - limit, 0}
      /\ Compressed!WindowStart(limit) >= 0
    BY <1>2, LargerOfTwo, Zenon DEF Compressed!WindowStart
<1> QED BY <1>1, <1>2, <1>3, SMT

\* A beginning of the dialog stays the same while the dialog grows.
LEMMA FirstStays ==
    ASSUME NEW dialog \in Seq(Compressed!Message), NEW n \in Nat, n <= Len(fullHistory),
           fullHistory \in Seq(Compressed!Message), fullHistory' = fullHistory \o dialog
    PROVE  First(n)' = First(n) /\ n <= Len(fullHistory')
<1>1. Len(fullHistory) \in Nat /\ Len(dialog) \in Nat
    OBVIOUS
<1>2. Len(fullHistory') = Len(fullHistory) + Len(dialog)
    BY SMT
<1>3. \A i \in 1 .. n : fullHistory'[i] = fullHistory[i]
    BY <1>1, SMT
<1> QED BY <1>1, <1>2, <1>3, SMT DEF First

LEMMA CompressedInit == Compressed!Init => CompressedInv
<1> SUFFICES ASSUME Compressed!Init PROVE CompressedInv
    OBVIOUS
<1>1. day9Request \in [ManyRequests -> Summarising]
    BY SMT DEF Compressed!Init, Compressed!Idle, Summarising, Phases
<1>2. First(0) = {}
    BY SMT DEF First
<1>3. /\ fullHistory \in Seq(Compressed!Message) /\ Len(fullHistory) = 0
      /\ summary = {} /\ count = 0 /\ count <= 0
      /\ \A r \in ManyRequests : day9Request[r].phase = "idle"
    BY SMT DEF Compressed!Init, Compressed!Idle
<1>4. outlived \in BOOLEAN
    BY Zenon DEF Compressed!Init
<1>5. SummariesTyped
    BY <1>1, <1>3, <1>4, Zenon DEF SummariesTyped
<1>6. \A r \in ManyRequests : day9Request[r].phase # "summarising"
    BY <1>3, Zenon
<1> QED BY <1>2, <1>3, <1>5, <1>6, Zenon DEF CompressedInv, SummariesOfPrefix

LEMMA PhasesOfTurn == "asking" \in Phases /\ "done" \in Phases /\ "failed" \in Phases
BY DEF Phases

\* A request in another phase.
LEMMA OtherPhase ==
    ASSUME NEW requests \in [ManyRequests -> Summarising], NEW r \in ManyRequests,
           NEW phase \in Phases
    PROVE  /\ [requests EXCEPT ![r].phase = phase] \in [ManyRequests -> Summarising]
           /\ [requests EXCEPT ![r].phase = phase][r].phase = phase
           /\ \A s \in ManyRequests \ {r} : [requests EXCEPT ![r].phase = phase][s] = requests[s]
<1>1. requests[r] \in Summarising
    OBVIOUS
<1>2. [requests[r] EXCEPT !.phase = phase]
        = [phase |-> phase, covered |-> requests[r].covered,
           nextCount |-> requests[r].nextCount, replaced |-> requests[r].replaced]
    BY <1>1, SMT DEF Summarising
<1>3. [requests[r] EXCEPT !.phase = phase] \in Summarising
    BY <1>1, <1>2, Zenon DEF Summarising
<1>4. [requests[r] EXCEPT !.phase = phase].phase = phase
    BY <1>2, SMT
<1> QED BY <1>3, <1>4, Zenon

\* A request that goes on without touching the dialog or its summary.
LEMMA OnlyPhase ==
    ASSUME CompressedInv, NEW r \in ManyRequests, NEW phase \in Phases, phase # "summarising",
           day9Request' = [day9Request EXCEPT ![r].phase = phase],
           UNCHANGED <<fullHistory, summary, count, outlived>>
    PROVE  CompressedInv'
<1>1. /\ day9Request' \in [ManyRequests -> Summarising]
      /\ \A s \in ManyRequests : day9Request'[s].phase = "summarising" =>
             day9Request'[s] = day9Request[s]
    <2>1. day9Request \in [ManyRequests -> Summarising]
        BY DEF CompressedInv, SummariesTyped
    <2> DEFINE later == [day9Request EXCEPT ![r].phase = phase]
    <2>2. /\ later \in [ManyRequests -> Summarising] /\ later[r].phase = phase
          /\ \A s \in ManyRequests \ {r} : later[s] = day9Request[s]
        BY <2>1, OtherPhase, Zenon
    <2>4. day9Request' = later
        OBVIOUS
    <2> HIDE DEF later
    <2> QED BY <2>2, <2>4, Zenon
<1>2. \A n : First(n)' = First(n)
    BY Zenon DEF First
<1>3. SummariesTyped'
    BY <1>1, Zenon DEF CompressedInv, SummariesTyped
<1>4. SummariesOfPrefix'
    BY <1>1, <1>2, Zenon DEF CompressedInv, SummariesOfPrefix
<1> QED BY <1>3, <1>4 DEF CompressedInv

LEMMA StartSummaryKeeps ==
    ASSUME Compressed!CompressionAssumption, CompressedInv,
           NEW r \in ManyRequests, NEW limit \in Limits, NEW batch \in BatchSizes,
           Compressed!StartSummary(r, limit, batch)
    PROVE  CompressedInv'
<1> DEFINE start == Compressed!WindowStart(limit)
           covered == summary \cup Compressed!Range(Compressed!Pending(limit))
           begun == [phase |-> "summarising", covered |-> covered, nextCount |-> start,
                     replaced |-> FALSE]
<1>1. /\ SummariesTyped /\ limit \in Nat /\ batch \in Nat
      /\ fullHistory \in Seq(Compressed!Message) /\ count \in Nat /\ Len(fullHistory) \in Nat
    BY DEF CompressedInv, SummariesTyped, Compressed!CompressionAssumption
<1>2. start \in Nat /\ start <= Len(fullHistory)
    BY <1>1, WindowStarts
<1>3. Compressed!Range(Compressed!Pending(limit)) = {fullHistory[i] : i \in count + 1 .. start}
    <2>1. count + 1 \in Nat \ {0}
        BY <1>1, SMT
    <2> QED BY <1>1, <1>2, <2>1, RangeOfSpan DEF Compressed!Pending
<1>4. count < start
    <2>1. batch \in Int /\ 1 \in Int
        BY <1>1, SMT
    <2>2. /\ Compressed!Max({batch, 1}) \in {batch, 1} /\ Compressed!Max({batch, 1}) >= 1
        BY <2>1, LargerOfTwo, Zenon
    <2>3. Len(Compressed!Pending(limit)) >= 1
        <3>1. Compressed!Pending(limit) \in Seq(Compressed!Message)
            BY <1>1, <1>2, SMT DEF Compressed!Pending
        <3>2. Len(Compressed!Pending(limit)) \in Int
            BY <3>1, SMT
        <3>3. Len(Compressed!Pending(limit)) >= Compressed!Max({batch, 1})
            BY Zenon DEF Compressed!StartSummary, Compressed!ShouldCompress
        <3> QED BY <2>1, <2>2, <3>2, <3>3, SMT
    <2>4. start <= count => Compressed!Pending(limit) = <<>>
        BY <1>1, <1>2, SMT DEF Compressed!Pending
    <2>5. Len(<<>>) = 0
        BY SMT
    <2> QED BY <1>1, <1>2, <2>3, <2>4, <2>5, SMT
<1>5. covered \subseteq Compressed!Message
    <2>1. {fullHistory[i] : i \in count + 1 .. start} \subseteq Compressed!Message
        BY <1>1, <1>2, SMT
    <2> QED BY <1>1, <1>3, <2>1 DEF SummariesTyped
<1> HIDE DEF start, covered
<1>6. begun \in Summarising /\ begun.phase = "summarising"
      /\ begun.covered = covered /\ begun.nextCount = start
    BY <1>2, <1>5 DEF Summarising, Phases
<1>7. /\ day9Request' = [day9Request EXCEPT ![r] = begun]
      /\ UNCHANGED <<fullHistory, summary, count, outlived>>
    BY Zenon DEF Compressed!StartSummary, start, covered
<1> HIDE DEF begun
<1>8. SummariesTyped'
    BY <1>1, <1>6, <1>7, Zenon DEF SummariesTyped
<1>9. \A n : First(n)' = First(n)
    BY <1>7, Zenon DEF First
<1>10. summary = First(count) => covered = First(start)
    <2>1. summary = First(count) =>
             covered = {fullHistory[i] : i \in 1 .. count}
                         \cup {fullHistory[i] : i \in count + 1 .. start}
        BY <1>3, Zenon DEF First, covered
    <2>2. 1 .. start = (1 .. count) \cup (count + 1 .. start)
        BY <1>1, <1>2, <1>4, SMT
    <2> QED BY <2>1, <2>2, Zenon DEF First
<1>11. SummariesOfPrefix'
    <2>1. day9Request \in [ManyRequests -> Summarising]
        BY <1>1 DEF SummariesTyped
    <2>2. day9Request'[r] = begun /\ \A s \in ManyRequests \ {r} : day9Request'[s] = day9Request[s]
        BY <1>7, <2>1, Zenon
    <2> QED BY <1>2, <1>6, <1>7, <1>9, <1>10, <2>2, Zenon DEF CompressedInv, SummariesOfPrefix
<1> QED BY <1>8, <1>11 DEF CompressedInv

\* The summary and its count are written together.
LEMMA CommitSummaryKeeps ==
    ASSUME CompressedInv, NEW r \in ManyRequests, Compressed!CommitSummary(r)
    PROVE  CompressedInv'
<1>1. /\ SummariesTyped /\ day9Request \in [ManyRequests -> Summarising]
      /\ day9Request[r] \in Summarising /\ day9Request[r].phase = "summarising"
      /\ summary' = day9Request[r].covered /\ count' = day9Request[r].nextCount
      /\ day9Request' = [day9Request EXCEPT ![r].phase = "asking"]
      /\ outlived' = (outlived \/ day9Request[r].replaced)
      /\ fullHistory' = fullHistory
    BY Zenon DEF CompressedInv, SummariesTyped, Compressed!CommitSummary
<1>2. /\ day9Request' \in [ManyRequests -> Summarising]
      /\ day9Request'[r].phase = "asking"
      /\ \A s \in ManyRequests \ {r} : day9Request'[s] = day9Request[s]
    BY <1>1, PhasesOfTurn, OtherPhase, Zenon
<1>3. /\ day9Request[r].covered \subseteq Compressed!Message /\ day9Request[r].nextCount \in Nat
    BY <1>1 DEF Summarising
<1>4. SummariesTyped'
    BY <1>1, <1>2, <1>3, Zenon DEF SummariesTyped
<1>5. \A n : First(n)' = First(n)
    BY <1>1, Zenon DEF First
<1>6. "asking" # "summarising"
    OBVIOUS
<1>7. SummariesOfPrefix'
    BY <1>1, <1>2, <1>5, <1>6, Zenon DEF CompressedInv, SummariesOfPrefix
<1> QED BY <1>4, <1>7 DEF CompressedInv

LEMMA AnswerKeeps ==
    ASSUME CompressedInv, NEW r \in ManyRequests, Compressed!Answer(r)
    PROVE  CompressedInv'
<1>1. /\ SummariesTyped /\ day9Request \in [ManyRequests -> Summarising]
      /\ fullHistory \in Seq(Compressed!Message) /\ count \in Nat
      /\ fullHistory' = fullHistory \o Compressed!Turn(r)
      /\ day9Request' = [day9Request EXCEPT ![r].phase = "done"]
      /\ UNCHANGED <<summary, count, outlived>>
    BY Zenon DEF CompressedInv, SummariesTyped, Compressed!Answer
<1>2. Compressed!Turn(r) \in Seq(Compressed!Message)
    BY SMT DEF Compressed!Turn, Compressed!Message
<1>3. /\ day9Request' \in [ManyRequests -> Summarising]
      /\ day9Request'[r].phase = "done"
      /\ \A s \in ManyRequests \ {r} : day9Request'[s] = day9Request[s]
    BY <1>1, PhasesOfTurn, OtherPhase, Zenon
<1>4. fullHistory' \in Seq(Compressed!Message)
    BY <1>1, <1>2
<1>5. SummariesTyped'
    BY <1>1, <1>3, <1>4, Zenon DEF SummariesTyped
<1>6. \A n \in Nat : n <= Len(fullHistory) =>
          First(n)' = First(n) /\ n <= Len(fullHistory')
    BY <1>1, <1>2, FirstStays
<1>7. "done" # "summarising"
    OBVIOUS
<1>8. \A s \in ManyRequests : day9Request[s].nextCount \in Nat
    BY <1>1, SMT DEF Summarising
<1>9. SummariesOfPrefix'
    BY <1>1, <1>3, <1>6, <1>7, <1>8, Zenon DEF CompressedInv, SummariesOfPrefix
<1> QED BY <1>5, <1>9 DEF CompressedInv

\* In a new dialog, the summaries under way are of another one.
LEMMA ReplaceKeepsSummaries ==
    ASSUME CompressedInv, NEW dialog \in Seq(Compressed!Message), Compressed!Replace(dialog)
    PROVE  CompressedInv'
<1>1. /\ SummariesTyped /\ day9Request \in [ManyRequests -> Summarising]
      /\ fullHistory' = dialog /\ summary' = {} /\ count' = 0 /\ outlived' = outlived
      /\ day9Request' = [s \in ManyRequests |->
             [day9Request[s] EXCEPT !.replaced = day9Request[s].phase = "summarising"]]
    BY Zenon DEF CompressedInv, SummariesTyped, Compressed!Replace
<1>2. ASSUME NEW s \in ManyRequests
      PROVE  /\ day9Request'[s] \in Summarising
             /\ day9Request'[s].phase = "summarising" => day9Request'[s].replaced
    <2> DEFINE open == day9Request[s].phase = "summarising"
    <2>1. day9Request[s] \in Summarising /\ open \in BOOLEAN
        BY <1>1, Zenon
    <2>2. day9Request'[s] = [day9Request[s] EXCEPT !.replaced = open]
        BY <1>1, Zenon
    <2> HIDE DEF open
    <2>3. day9Request'[s] = [phase |-> day9Request[s].phase, covered |-> day9Request[s].covered,
                             nextCount |-> day9Request[s].nextCount, replaced |-> open]
        BY <2>1, <2>2, Zenon DEF Summarising
    <2>4. day9Request'[s].phase = day9Request[s].phase
        BY <2>3, SMT
    <2>5. day9Request'[s].replaced = open
        BY <2>3, SMT
    <2>6. /\ day9Request[s].phase \in Phases
          /\ day9Request[s].covered \in SUBSET Compressed!Message
          /\ day9Request[s].nextCount \in Nat
        BY <2>1, SMT DEF Summarising
    <2>7. day9Request'[s] \in Summarising
        <3> DEFINE new == [phase |-> day9Request[s].phase, covered |-> day9Request[s].covered,
                           nextCount |-> day9Request[s].nextCount, replaced |-> open]
        <3>1. new \in Summarising
            BY ONLY <2>1, <2>6, Zenon DEF Summarising
        <3> QED BY <2>3, <3>1
    <2> QED BY <2>4, <2>5, <2>7, Zenon DEF open
<1>3. day9Request' \in [ManyRequests -> Summarising]
    BY <1>1, <1>2, Zenon
<1>4. SummariesTyped'
    BY <1>1, <1>3, SMT DEF SummariesTyped
<1>5. First(0)' = {} /\ 0 <= Len(dialog)
    BY SMT DEF First
<1>6. SummariesOfPrefix'
    BY <1>1, <1>2, <1>5, Zenon DEF SummariesOfPrefix
<1> QED BY <1>4, <1>6 DEF CompressedInv

LEMMA CompressedStep ==
    ASSUME Compressed!CompressionAssumption, CompressedInv, [Compressed!Next]_(Compressed!vars)
    PROVE  CompressedInv'
<1>1. ASSUME NEW r \in ManyRequests,
             \/ Compressed!StartAsking(r) \/ Compressed!SummaryFails(r) \/ Compressed!ChatFails(r)
      PROVE  CompressedInv'
    <2>1. PICK phase \in {"asking", "failed"} :
              /\ day9Request' = [day9Request EXCEPT ![r].phase = phase]
              /\ UNCHANGED <<fullHistory, summary, count, outlived>>
        BY <1>1, Zenon DEF Compressed!StartAsking, Compressed!SummaryFails, Compressed!ChatFails
    <2>2. phase \in Phases /\ phase # "summarising"
        BY DEF Phases
    <2> QED BY <2>1, <2>2, OnlyPhase
<1>2. ASSUME NEW r \in ManyRequests, NEW limit \in Limits, NEW batch \in BatchSizes,
             Compressed!StartSummary(r, limit, batch)
      PROVE  CompressedInv'
    BY <1>2, StartSummaryKeeps
<1>3. ASSUME NEW r \in ManyRequests, Compressed!CommitSummary(r) PROVE CompressedInv'
    BY <1>3, CommitSummaryKeeps
<1>4. ASSUME NEW r \in ManyRequests, Compressed!Answer(r) PROVE CompressedInv'
    BY <1>4, AnswerKeeps
<1>5. CASE Compressed!Reset
    <2>1. <<>> \in Seq(Compressed!Message)
        OBVIOUS
    <2> QED BY <1>5, <2>1, ReplaceKeepsSummaries DEF Compressed!Reset
<1>6. CASE Compressed!SeedDemo
    <2> DEFINE demo == [i \in 1 .. DemoLength |-> [by |-> "demo", number |-> i]]
    <2>1. demo \in Seq(Compressed!Message)
        <3>1. DemoLength \in Nat
            BY DEF Compressed!CompressionAssumption
        <3>2. \A i \in 1 .. DemoLength : [by |-> "demo", number |-> i] \in Compressed!Message
            BY <3>1, SMT DEF Compressed!Message
        <3> QED BY <3>1, <3>2, SMT
    <2> QED BY <1>6, <2>1, ReplaceKeepsSummaries DEF Compressed!SeedDemo
<1>7. CASE UNCHANGED Compressed!vars
    BY <1>7, Zenon DEF Compressed!vars, CompressedInv, SummariesTyped, SummariesOfPrefix, First
<1>8. CASE Compressed!Next
    BY <1>1, <1>2, <1>3, <1>4, <1>5, <1>6, <1>8, Zenon
       DEF Compressed!Next, Compressed!StartFull, Compressed!StartUncompressed
<1> QED BY <1>7, <1>8

\* A message is in the summary, or waits for the next one, or is sent as it is.
LEMMA NothingBetween ==
    ASSUME SummariesTyped, count <= Len(fullHistory), summary = First(count),
           NEW limit \in Nat
    PROVE  Compressed!Range(fullHistory) \ Compressed!WorkingContext(limit)
               \subseteq Compressed!Range(Compressed!Pending(limit))
<1> DEFINE start == Compressed!WindowStart(limit)
           size == Len(fullHistory)
<1>1. /\ fullHistory \in Seq(Compressed!Message) /\ count \in Nat /\ size \in Nat
      /\ start \in Nat /\ start <= size
    BY WindowStarts DEF SummariesTyped
<1>2. Compressed!Range(Compressed!Pending(limit)) = {fullHistory[i] : i \in count + 1 .. start}
    <2>1. count + 1 \in Nat \ {0}
        BY <1>1, SMT
    <2> QED BY <1>1, <2>1, RangeOfSpan DEF Compressed!Pending
<1>3. Compressed!WorkingContext(limit) = summary \cup {fullHistory[i] : i \in start + 1 .. size}
    <2>1. start + 1 \in Nat \ {0} /\ size <= Len(fullHistory)
        BY <1>1, SMT
    <2>2. Compressed!Range(SubSeq(fullHistory, start + 1, size))
            = {fullHistory[i] : i \in start + 1 .. size}
        BY <1>1, <2>1, RangeOfSpan
    <2> QED BY <2>2, Zenon DEF Compressed!WorkingContext
<1> HIDE DEF start
<1>4. Compressed!Range(fullHistory) = {fullHistory[i] : i \in 1 .. size}
    BY <1>1, SMT DEF Compressed!Range
<1>5. \A i \in 1 .. size : \/ i \in 1 .. count \/ i \in count + 1 .. start \/ i \in start + 1 .. size
    BY <1>1, SMT
<1> HIDE DEF size
<1> QED BY <1>2, <1>3, <1>4, <1>5, Zenon DEF First

LEMMA CompressedInductive == Spec => []CompressedInv
<1>1. Compressed!CompressionAssumption
    BY DialogsConstants DEF DialogsAssumption
<1>2. Init => CompressedInv
    BY CompressedInit DEF Init
<1>3. [Next]_vars => [Compressed!Next]_(Compressed!vars)
    BY Zenon DEF Next, Only, vars, Compressed!vars, day9Vars
<1>4. CompressedInv /\ [Next]_vars => CompressedInv'
    BY <1>1, <1>3, CompressedStep
<1> QED BY <1>2, <1>4, PTL DEF Spec

\* However turns and summaries overlap, fail and use limits of their own: the
\* summary tells of exactly the messages before its count, and the model is not
\* told of those only that wait for the next summary, until a summary outlives the
\* dialog it was made from (Day9CompressionService).
THEOREM SummariesLoseNothing == Spec => []NothingLostToSummary
<1>1. CompressedInv => NothingLostToSummary
    <2> SUFFICES ASSUME CompressedInv PROVE NothingLostToSummary
        OBVIOUS
    <2>1. SummariesTyped /\ fullHistory \in Seq(Compressed!Message) /\ count \in Nat
        BY DEF CompressedInv, SummariesTyped
    <2>2. Limits \subseteq Nat
        BY DialogsConstants DEF DialogsAssumption, Compressed!CompressionAssumption
    <2>3. CASE outlived
        BY <2>3, Zenon DEF NothingLostToSummary, Of, Compressed!SummaryOfPrefix,
                           Compressed!OnlyPendingIsLeftOut
    <2>4. CASE ~outlived
        <3>1. count <= Len(fullHistory) /\ summary = First(count)
            BY <2>4, Zenon DEF CompressedInv, SummariesOfPrefix
        <3>2. 1 \in Nat \ {0}
            OBVIOUS
        <3>3. Compressed!Range(SubSeq(fullHistory, 1, count)) = First(count)
            BY <2>1, <3>1, <3>2, RangeOfSpan DEF First
        <3>4. Compressed!SummaryOfPrefix
            BY <3>1, <3>3, Zenon DEF Compressed!SummaryOfPrefix
        <3>5. Compressed!OnlyPendingIsLeftOut
            BY <2>1, <2>2, <3>1, NothingBetween, Zenon DEF Compressed!OnlyPendingIsLeftOut
        <3> QED BY <3>4, <3>5, Zenon DEF NothingLostToSummary, Of
    <2> QED BY <2>3, <2>4
<1> QED BY <1>1, CompressedInductive, PTL

----------------------------------------------------------------------------
(* The facts of Day 10.                                                    *)

StickyPhases == {"idle", "extracting", "asking", "done", "failed"}

Extracts(r) == factsRequest[r].phase = "extracting"

\* The turn of a fact is in the dialog, or under way, or has failed.
Told(r) ==
    \/ \E i \in 1 .. Len(histories["sticky_facts"]) : histories["sticky_facts"][i] = r
    \/ factsRequest[r].phase \in {"asking", "failed"}

\* Facts come from turns of the dialog whose own extraction is over.
Learned(r) ==
    factsRequest[r].phase \notin {"idle", "extracting"} /\ factsRequest[r].strategy = "sticky_facts"

\* What an extraction under way will make of the facts is as good as they are:
\* it leaves out only turns it overlaps.
BaseHolds(q) ==
    /\ factsRequest[q].strategy = "sticky_facts"
    /\ \A r \in factsRequest[q].base : Learned(r)
    /\ \A r \in ManyRequests :
           factsRequest[r].extracted /\ r \notin crossed => r \in factsRequest[q].base
    /\ \A r \in factsRequest[q].base \ crossed : Told(r)
    /\ \A r \in ManyRequests : Extracts(r) /\ r # q => q \in crossed

StickyInv ==
    /\ Sticky!TypeOK
    /\ Sticky!FactsAreKept
    /\ \A r \in facts \ crossed : Told(r)
    /\ \A r \in facts : Learned(r)
    /\ \A q \in ManyRequests : Extracts(q) => BaseHolds(q)

LEMMA StickyInit == Sticky!Init => StickyInv
<1> SUFFICES ASSUME Sticky!Init PROVE StickyInv
    OBVIOUS
<1>1. /\ facts = {} /\ crossed = {} /\ factsError = FALSE
      /\ histories = [s \in Sticky!Strategies |-> <<>>]
      /\ factsRequest = [r \in ManyRequests |->
             [phase |-> "idle", strategy |-> "sliding_window", base |-> {}, extracted |-> FALSE]]
    BY Zenon DEF Sticky!Init
<1>2. \A r \in ManyRequests : ~factsRequest[r].extracted /\ factsRequest[r].phase # "extracting"
    BY <1>1, Zenon
<1>3. factsRequest \in [ManyRequests -> Sticky!Request]
    BY <1>1 DEF Sticky!Request, Sticky!Strategies
<1>4. histories \in [Sticky!Strategies -> Seq(ManyRequests)]
    BY <1>1
<1>5. Sticky!TypeOK
    BY <1>1, <1>3, <1>4, Zenon DEF Sticky!TypeOK
<1> QED BY <1>1, <1>2, <1>5, Zenon DEF StickyInv, Sticky!FactsAreKept, Extracts

\* A turn in another phase is otherwise the same.
LEMMA StickyPhase ==
    ASSUME NEW turn \in Sticky!Request, NEW phase \in StickyPhases
    PROVE  /\ [turn EXCEPT !.phase = phase] \in Sticky!Request
           /\ [turn EXCEPT !.phase = phase].phase = phase
           /\ [turn EXCEPT !.phase = phase].strategy = turn.strategy
           /\ [turn EXCEPT !.phase = phase].base = turn.base
           /\ [turn EXCEPT !.phase = phase].extracted = turn.extracted
<1> DEFINE new == [phase |-> phase, strategy |-> turn.strategy, base |-> turn.base,
                   extracted |-> turn.extracted]
<1>1. [turn EXCEPT !.phase = phase] = new
    BY SMT DEF Sticky!Request
<1>2. new \in Sticky!Request
    BY Zenon DEF Sticky!Request, StickyPhases
<1>3. /\ new.phase = phase /\ new.strategy = turn.strategy /\ new.base = turn.base
      /\ new.extracted = turn.extracted
    BY SMT
<1> HIDE DEF new
<1> QED BY <1>1, <1>2, <1>3, Zenon

\* A turn that goes on, without the facts.
MovesOn(r) ==
    /\ Sticky!TypeOK'
    /\ facts' = facts /\ crossed' = crossed
    /\ \A q \in ManyRequests \ {r} :
           /\ factsRequest'[q] = factsRequest[q]
           /\ Told(q) => Told(q)'
    /\ factsRequest'[r].base = factsRequest[r].base
    /\ factsRequest'[r].extracted = factsRequest[r].extracted
    /\ Learned(r) => Learned(r)'
    /\ factsRequest'[r].phase # "extracting"
    /\ Learned(r) /\ Told(r) => Told(r)'

LEMMA MovesOnKeeps ==
    ASSUME StickyInv, NEW r \in ManyRequests, MovesOn(r) PROVE StickyInv'
<1>1. /\ facts \subseteq ManyRequests
      /\ \A q \in ManyRequests : factsRequest[q].base \subseteq ManyRequests
    BY SMT DEF StickyInv, Sticky!TypeOK, Sticky!Request
<1>2. \A q \in ManyRequests : Extracts(q)' => q # r /\ Extracts(q)
    BY Zenon DEF MovesOn, Extracts
<1>3. \A q \in ManyRequests : /\ Learned(q) => Learned(q)'
                              /\ Learned(q) /\ Told(q) => Told(q)'
    BY Zenon DEF MovesOn, Learned
<1>4. \A q \in ManyRequests : factsRequest'[q].base = factsRequest[q].base
                              /\ factsRequest'[q].extracted = factsRequest[q].extracted
    BY Zenon DEF MovesOn
<1>5. Sticky!FactsAreKept'
    BY <1>4, Zenon DEF StickyInv, MovesOn, Sticky!FactsAreKept
<1>6. \A q \in facts' : Learned(q)'
    BY <1>1, <1>3, Zenon DEF StickyInv, MovesOn
<1>7. \A q \in facts' \ crossed' : Told(q)'
    BY <1>1, <1>3, Zenon DEF StickyInv, MovesOn
<1>8. ASSUME NEW q \in ManyRequests, Extracts(q)' PROVE BaseHolds(q)'
    <2>1. BaseHolds(q) /\ q # r /\ factsRequest'[q] = factsRequest[q] /\ crossed' = crossed
        BY <1>2, <1>8, Zenon DEF StickyInv, MovesOn
    <2> QED BY <1>1, <1>2, <1>3, <1>4, <2>1, Zenon DEF BaseHolds
<1> QED BY <1>5, <1>6, <1>7, <1>8, Zenon DEF StickyInv, MovesOn

LEMMA StickyTyped ==
    ASSUME StickyInv, NEW r \in ManyRequests
    PROVE  /\ factsRequest[r] \in Sticky!Request
           /\ factsRequest \in [ManyRequests -> Sticky!Request]
           /\ histories \in [Sticky!Strategies -> Seq(ManyRequests)]
           /\ facts \subseteq ManyRequests /\ crossed \subseteq ManyRequests
           /\ factsError \in BOOLEAN
           /\ factsRequest[r].base \subseteq ManyRequests
           /\ factsRequest[r].strategy \in Sticky!Strategies
<1>1. /\ factsRequest \in [ManyRequests -> Sticky!Request]
      /\ histories \in [Sticky!Strategies -> Seq(ManyRequests)]
      /\ facts \subseteq ManyRequests /\ crossed \subseteq ManyRequests
      /\ factsError \in BOOLEAN
    BY Zenon DEF StickyInv, Sticky!TypeOK
<1>2. \A turn \in Sticky!Request :
          turn.base \subseteq ManyRequests /\ turn.strategy \in Sticky!Strategies
    BY SMT DEF Sticky!Request
<1> QED BY <1>1, <1>2, Zenon

\* The ways a turn goes on without an extraction of its own.
LEMMA PhaseMovesOn ==
    ASSUME StickyInv, NEW r \in ManyRequests, NEW phase \in StickyPhases,
           phase \notin {"idle", "extracting"}, factsRequest[r].phase \notin {"done", "failed"},
           factsRequest' = [factsRequest EXCEPT ![r].phase = phase],
           facts' = facts, crossed' = crossed, factsError' \in BOOLEAN,
           \/ histories' = histories /\ phase # "done"
           \/ histories' = [histories EXCEPT ![factsRequest[r].strategy] = Append(@, r)]
    PROVE  MovesOn(r)
<1> DEFINE turn == factsRequest[r]
           new == [factsRequest[r] EXCEPT !.phase = phase]
<1>1. /\ factsRequest[r] \in Sticky!Request
      /\ factsRequest \in [ManyRequests -> Sticky!Request]
      /\ histories \in [Sticky!Strategies -> Seq(ManyRequests)]
      /\ facts \subseteq ManyRequests /\ crossed \subseteq ManyRequests
      /\ turn.strategy \in Sticky!Strategies
    BY StickyTyped
<1>2. /\ new \in Sticky!Request /\ new.phase = phase /\ new.strategy = turn.strategy
      /\ new.base = turn.base /\ new.extracted = turn.extracted
    BY <1>1, StickyPhase
<1> HIDE DEF new
<1>3. /\ factsRequest' \in [ManyRequests -> Sticky!Request] /\ factsRequest'[r] = new
      /\ \A q \in ManyRequests \ {r} : factsRequest'[q] = factsRequest[q]
    BY <1>1, <1>2, Zenon DEF new
<1>4. histories' \in [Sticky!Strategies -> Seq(ManyRequests)]
    <2>1. Append(histories[turn.strategy], r) \in Seq(ManyRequests)
        BY <1>1
    <2> QED BY <1>1, <2>1
<1>5. Sticky!TypeOK'
    BY <1>1, <1>3, <1>4, Zenon DEF Sticky!TypeOK
<1>6. "sticky_facts" \in Sticky!Strategies
    BY DEF Sticky!Strategies
<1>7. /\ Len(histories["sticky_facts"]) <= Len(histories'["sticky_facts"])
      /\ \A i \in 1 .. Len(histories["sticky_facts"]) :
             histories'["sticky_facts"][i] = histories["sticky_facts"][i]
      /\ Len(histories["sticky_facts"]) \in Nat /\ Len(histories'["sticky_facts"]) \in Nat
    <2>1. CASE histories' = histories
        BY <1>1, <1>6, <2>1
    <2>2. CASE histories' = [histories EXCEPT ![turn.strategy] = Append(@, r)]
        <3>1. CASE turn.strategy = "sticky_facts"
            BY <1>1, <1>6, <2>2, <3>1
        <3>2. CASE turn.strategy # "sticky_facts"
            BY <1>1, <1>6, <2>2, <3>2
        <3> QED BY <3>1, <3>2
    <2> QED BY <2>1, <2>2
<1>8. \A q \in ManyRequests :
          (\E i \in 1 .. Len(histories["sticky_facts"]) : histories["sticky_facts"][i] = q) =>
              \E i \in 1 .. Len(histories'["sticky_facts"]) : histories'["sticky_facts"][i] = q
    <2>1. \A i \in 1 .. Len(histories["sticky_facts"]) : i \in 1 .. Len(histories'["sticky_facts"])
        BY <1>7, SMT
    <2> QED BY <1>7, <2>1, Zenon
<1>9. \A q \in ManyRequests \ {r} : Told(q) => Told(q)'
    BY <1>3, <1>8, Zenon DEF Told
<1>10. ASSUME Learned(r), phase = "done" PROVE Told(r)'
    <2>1. turn.strategy = "sticky_facts"
        BY <1>10 DEF Learned
    <2>2. histories' = [histories EXCEPT ![turn.strategy] = Append(@, r)]
        BY <1>10
    <2>3. histories'["sticky_facts"] = Append(histories["sticky_facts"], r)
        BY <1>1, <1>6, <2>1, <2>2, Zenon
    <2>4. /\ Len(histories["sticky_facts"]) + 1 \in 1 .. Len(histories'["sticky_facts"])
          /\ histories'["sticky_facts"][Len(histories["sticky_facts"]) + 1] = r
        BY <1>1, <1>6, <2>3, SMT
    <2> QED BY <2>4, Zenon DEF Told
<1>11. phase \in {"asking", "done", "failed"}
    BY DEF StickyPhases
<1>12. Learned(r) => Told(r)'
    BY <1>2, <1>3, <1>10, <1>11, Zenon DEF Told
<1>13. Learned(r) => Learned(r)'
    BY <1>2, <1>3, Zenon DEF Learned
<1> QED BY <1>2, <1>3, <1>5, <1>9, <1>12, <1>13, Zenon DEF MovesOn

LEMMA ChatDirectlyKeeps ==
    ASSUME StickyInv, NEW r \in ManyRequests, NEW s \in Sticky!Strategies,
           Sticky!ChatDirectly(r, s)
    PROVE  StickyInv'
<1> DEFINE turn == factsRequest[r]
           new == [phase |-> "asking", strategy |-> s, base |-> turn.base,
                   extracted |-> turn.extracted]
<1>1. /\ factsRequest[r] \in Sticky!Request
      /\ factsRequest \in [ManyRequests -> Sticky!Request]
    BY StickyTyped
<1>2. /\ turn.phase = "idle"
      /\ factsRequest' = [factsRequest EXCEPT ![r].phase = "asking", ![r].strategy = s]
      /\ UNCHANGED <<histories, facts, factsError, crossed>>
    BY Zenon DEF Sticky!ChatDirectly
<1>3. factsRequest'[r] = new /\ \A q \in ManyRequests \ {r} : factsRequest'[q] = factsRequest[q]
    <2>1. /\ factsRequest'[r] = [[turn EXCEPT !.phase = "asking"] EXCEPT !.strategy = s]
          /\ \A q \in ManyRequests \ {r} : factsRequest'[q] = factsRequest[q]
        BY <1>1, <1>2
    <2>2. [[turn EXCEPT !.phase = "asking"] EXCEPT !.strategy = s] = new
        <3> DEFINE mid == [phase |-> "asking", strategy |-> turn.strategy, base |-> turn.base,
                           extracted |-> turn.extracted]
        <3>1. [turn EXCEPT !.phase = "asking"] = mid
            BY <1>1, SMT DEF Sticky!Request
        <3>2. [mid EXCEPT !.strategy = s] = new
            BY SMT
        <3> QED BY <3>1, <3>2, Zenon
    <2> QED BY <2>1, <2>2, Zenon
<1>4. new \in Sticky!Request
    BY <1>1, Zenon DEF Sticky!Request
<1>5. factsRequest' \in [ManyRequests -> Sticky!Request]
    BY <1>1, <1>2, <1>3, <1>4, Zenon
<1>6. /\ new.phase = "asking" /\ new.base = turn.base /\ new.extracted = turn.extracted
    BY SMT
<1> HIDE DEF new
<1>7. Sticky!TypeOK'
    BY <1>2, <1>5, Zenon DEF StickyInv, Sticky!TypeOK
<1>8. ~Learned(r)
    BY <1>2, Zenon DEF Learned
<1>9. MovesOn(r)
    BY <1>2, <1>3, <1>6, <1>7, <1>8, Zenon DEF MovesOn, Told
<1> QED BY <1>9, MovesOnKeeps

\* An extraction begins: it and those under way overlap from now on.
LEMMA ChatWithFactsKeeps ==
    ASSUME StickyInv, NEW r \in ManyRequests, Sticky!ChatWithFacts(r)
    PROVE  StickyInv'
<1> DEFINE new == [phase |-> "extracting", strategy |-> "sticky_facts", base |-> facts,
                   extracted |-> FALSE]
<1>1. /\ factsRequest \in [ManyRequests -> Sticky!Request]
      /\ histories \in [Sticky!Strategies -> Seq(ManyRequests)]
      /\ facts \subseteq ManyRequests /\ crossed \subseteq ManyRequests
    BY StickyTyped
<1>2. /\ factsRequest[r].phase = "idle" /\ factsRequest' = [factsRequest EXCEPT ![r] = new]
      /\ UNCHANGED <<histories, facts, factsError>>
      /\ crossed' = IF Sticky!Extracting = {} THEN crossed
                    ELSE crossed \cup Sticky!Extracting \cup {r}
    BY Zenon DEF Sticky!ChatWithFacts
<1>3. new \in Sticky!Request
    BY <1>1, Zenon DEF Sticky!Request, Sticky!Strategies
<1>4. /\ new.phase = "extracting" /\ new.strategy = "sticky_facts" /\ new.base = facts
    BY SMT
<1>5. ~new.extracted
    BY Zenon
<1> HIDE DEF new
<1>6. /\ factsRequest' \in [ManyRequests -> Sticky!Request] /\ factsRequest'[r] = new
      /\ \A q \in ManyRequests \ {r} : factsRequest'[q] = factsRequest[q]
    BY <1>1, <1>2, <1>3, Zenon
<1>7. /\ crossed \subseteq crossed' /\ crossed' \subseteq ManyRequests
      /\ \A q \in ManyRequests : Extracts(q) => q \in crossed' /\ r \in crossed'
    BY <1>1, <1>2, Zenon DEF Sticky!Extracting, Extracts
<1>8. Sticky!TypeOK'
    BY <1>2, <1>6, <1>7, Zenon DEF StickyInv, Sticky!TypeOK
<1>10. /\ ~Learned(r) /\ ~Extracts(r)
       /\ \A q \in ManyRequests \ {r} : /\ Told(q) => Told(q)'
                                        /\ Learned(q) => Learned(q)'
                                        /\ Extracts(q)' => Extracts(q)
    BY <1>2, <1>6, Zenon DEF Learned, Told, Extracts
<1>11. r \notin facts /\ \A q \in ManyRequests : Extracts(q) => r \notin factsRequest[q].base
    BY <1>10, Zenon DEF StickyInv, BaseHolds
<1>12. Sticky!FactsAreKept'
    BY <1>2, <1>5, <1>6, <1>7, Zenon DEF StickyInv, Sticky!FactsAreKept
<1>13. \A q \in facts' : Learned(q)' /\ (q \notin crossed' => Told(q)')
    BY <1>1, <1>2, <1>7, <1>10, <1>11, Zenon DEF StickyInv
<1>14. ASSUME NEW q \in ManyRequests, Extracts(q)' PROVE BaseHolds(q)'
    <2>1. CASE q = r
        <3>1. factsRequest'[q].strategy = "sticky_facts" /\ factsRequest'[q].base = facts
            BY <1>4, <1>6, <2>1, Zenon
        <3>2. \A p \in facts : Learned(p)'
            BY <1>2, <1>13, Zenon
        <3>3. \A p \in ManyRequests : factsRequest'[p].extracted /\ p \notin crossed' => p \in facts
            BY <1>2, <1>12, Zenon DEF Sticky!FactsAreKept
        <3>4. \A p \in facts \ crossed' : Told(p)'
            BY <1>2, <1>13, Zenon
        <3>5. \A p \in ManyRequests : Extracts(p)' /\ p # q => q \in crossed'
            BY <1>7, <1>10, <2>1, Zenon
        <3> QED BY <3>1, <3>2, <3>3, <3>4, <3>5, Zenon DEF BaseHolds
    <2>2. CASE q # r
        <3>1. /\ BaseHolds(q) /\ Extracts(q) /\ factsRequest'[q] = factsRequest[q]
              /\ q \in crossed' /\ r \in crossed'
            BY <1>6, <1>7, <1>10, <1>14, <2>2, Zenon DEF StickyInv
        <3>2. factsRequest[q].base \subseteq ManyRequests \ {r}
            BY <1>11, <3>1, StickyTyped, Zenon
        <3>3. \A p \in factsRequest[q].base : Learned(p)' /\ (p \notin crossed' => Told(p)')
            BY <1>7, <1>10, <3>1, <3>2, Zenon DEF BaseHolds
        <3>4. \A p \in ManyRequests : factsRequest'[p].extracted /\ p \notin crossed' =>
                  p \in factsRequest[q].base
            BY <1>6, <1>7, <3>1, Zenon DEF BaseHolds
        <3>5. factsRequest'[q].strategy = "sticky_facts"
            BY <3>1, Zenon DEF BaseHolds
        <3> QED BY <3>1, <3>3, <3>4, <3>5, Zenon DEF BaseHolds
    <2> QED BY <2>1, <2>2
<1> QED BY <1>8, <1>12, <1>13, <1>14, Zenon DEF StickyInv

\* The answer of an extraction replaces the facts by the ones it began with and
\* its own: what it leaves out is of turns it overlapped.
LEMMA FactsExtractedKeeps ==
    ASSUME StickyInv, NEW r \in ManyRequests, Sticky!FactsExtracted(r)
    PROVE  StickyInv'
<1> DEFINE turn == factsRequest[r]
           new == [phase |-> "asking", strategy |-> turn.strategy, base |-> turn.base,
                   extracted |-> TRUE]
<1>1. /\ factsRequest[r] \in Sticky!Request /\ turn.base \subseteq ManyRequests
      /\ factsRequest \in [ManyRequests -> Sticky!Request]
    BY StickyTyped
<1>2. /\ turn.phase = "extracting" /\ Extracts(r)
      /\ factsRequest' = [factsRequest EXCEPT ![r].phase = "asking", ![r].extracted = TRUE]
      /\ facts' = turn.base \cup {r} /\ factsError' = FALSE
      /\ UNCHANGED <<histories, crossed>>
    BY Zenon DEF Sticky!FactsExtracted, Extracts
<1>3. factsRequest'[r] = new /\ \A q \in ManyRequests \ {r} : factsRequest'[q] = factsRequest[q]
    <2>1. /\ factsRequest'[r] = [[turn EXCEPT !.phase = "asking"] EXCEPT !.extracted = TRUE]
          /\ \A q \in ManyRequests \ {r} : factsRequest'[q] = factsRequest[q]
        BY <1>1, <1>2
    <2>2. [[turn EXCEPT !.phase = "asking"] EXCEPT !.extracted = TRUE] = new
        <3> DEFINE mid == [phase |-> "asking", strategy |-> turn.strategy, base |-> turn.base,
                           extracted |-> turn.extracted]
        <3>1. [turn EXCEPT !.phase = "asking"] = mid
            BY <1>1, SMT DEF Sticky!Request
        <3>2. \A yes \in BOOLEAN : [mid EXCEPT !.extracted = yes]
                  = [phase |-> "asking", strategy |-> turn.strategy, base |-> turn.base,
                     extracted |-> yes]
            BY ONLY SMT
        <3>3. [mid EXCEPT !.extracted = TRUE] = new
            BY <3>2, Zenon
        <3> QED BY <3>1, <3>3, Zenon
    <2> QED BY <2>1, <2>2, Zenon
<1>4. new \in Sticky!Request /\ TRUE \in BOOLEAN
    BY <1>1, Zenon DEF Sticky!Request
<1>5. factsRequest' \in [ManyRequests -> Sticky!Request]
    BY <1>1, <1>2, <1>3, <1>4, Zenon
<1>6. /\ new.phase = "asking" /\ new.base = turn.base /\ new.strategy = turn.strategy
    BY SMT
<1> HIDE DEF new
<1>7. Sticky!TypeOK'
    BY <1>1, <1>2, <1>5, Zenon DEF StickyInv, Sticky!TypeOK
<1>8. BaseHolds(r)
    BY <1>2, Zenon DEF StickyInv
<1>9. /\ Learned(r)' /\ Told(r)' /\ ~Learned(r) /\ ~Extracts(r)'
      /\ \A q \in ManyRequests \ {r} : /\ Told(q)' <=> Told(q)
                                       /\ Learned(q)' <=> Learned(q)
                                       /\ Extracts(q)' <=> Extracts(q)
    BY <1>2, <1>3, <1>6, <1>8, Zenon DEF Learned, Told, Extracts, BaseHolds
<1>10. Sticky!FactsAreKept'
    BY <1>2, <1>3, <1>8, Zenon DEF BaseHolds, Sticky!FactsAreKept
<1>11. \A q \in facts' : Learned(q)' /\ (q \notin crossed' => Told(q)')
    BY <1>1, <1>2, <1>8, <1>9, Zenon DEF BaseHolds
<1>12. ASSUME NEW q \in ManyRequests, Extracts(q)' PROVE BaseHolds(q)'
    <2>1. /\ BaseHolds(q) /\ Extracts(q) /\ q # r /\ factsRequest'[q] = factsRequest[q]
          /\ factsRequest[q].base \subseteq ManyRequests
        BY <1>3, <1>9, <1>12, StickyTyped, Zenon DEF StickyInv
    <2>2. q \in crossed /\ r \in crossed /\ r \notin factsRequest[q].base
        BY <1>2, <1>8, <1>9, <2>1, Zenon DEF BaseHolds
    <2>3. \A p \in factsRequest[q].base : Learned(p)' /\ (p \notin crossed' => Told(p)')
        BY <1>2, <1>9, <2>1, <2>2, Zenon DEF BaseHolds
    <2>4. \A p \in ManyRequests : factsRequest'[p].extracted /\ p \notin crossed' =>
              p \in factsRequest[q].base
        BY <1>2, <1>3, <2>1, <2>2, Zenon DEF BaseHolds
    <2>5. factsRequest'[q].strategy = "sticky_facts"
        BY <2>1, Zenon DEF BaseHolds
    <2> QED BY <1>2, <2>1, <2>2, <2>3, <2>4, <2>5, Zenon DEF BaseHolds
<1> QED BY <1>7, <1>10, <1>11, <1>12, Zenon DEF StickyInv

\* After a reset nothing is known, and what extractions under way knew is not of
\* this dialog.
LEMMA ResetFactsKeeps ==
    ASSUME StickyInv, Sticky!Reset("sticky_facts")
    PROVE  StickyInv'
<1>1. /\ \A r \in ManyRequests : factsRequest[r] \in Sticky!Request
      /\ histories \in [Sticky!Strategies -> Seq(ManyRequests)] /\ crossed \subseteq ManyRequests
      /\ \A r \in ManyRequests : factsRequest[r].base \subseteq ManyRequests
    <2>1. Sticky!TypeOK
        BY DEF StickyInv
    <2>2. \A r \in ManyRequests : factsRequest[r].base \subseteq ManyRequests
        BY StickyTyped
    <2> QED BY <2>1, <2>2, Zenon DEF Sticky!TypeOK
<1>2. /\ histories' = [histories EXCEPT !["sticky_facts"] = <<>>] /\ facts' = {}
      /\ factsError' = FALSE
      /\ factsRequest' = [r \in ManyRequests |-> [factsRequest[r] EXCEPT !.extracted = FALSE]]
      /\ crossed' = crossed \cup Sticky!Extracting
                            \cup UNION {factsRequest[r].base : r \in Sticky!Extracting}
    BY Zenon DEF Sticky!Reset
<1>3. ASSUME NEW r \in ManyRequests
      PROVE  /\ factsRequest'[r] \in Sticky!Request /\ ~factsRequest'[r].extracted
             /\ factsRequest'[r].phase = factsRequest[r].phase
             /\ factsRequest'[r].strategy = factsRequest[r].strategy
             /\ factsRequest'[r].base = factsRequest[r].base
    <2> DEFINE turn == factsRequest[r]
               new == [phase |-> turn.phase, strategy |-> turn.strategy, base |-> turn.base,
                       extracted |-> FALSE]
    <2>1. \A x \in Sticky!Request : \A yes \in BOOLEAN :
              [x EXCEPT !.extracted = yes]
                = [phase |-> x.phase, strategy |-> x.strategy, base |-> x.base, extracted |-> yes]
        BY ONLY SMT DEF Sticky!Request
    <2>2. turn \in Sticky!Request /\ factsRequest'[r] = [turn EXCEPT !.extracted = FALSE]
        BY <1>1, <1>2, Zenon
    <2>3. factsRequest'[r] = new
        BY <2>1, <2>2, Zenon
    <2>4. new \in Sticky!Request
        BY <2>2, Zenon DEF Sticky!Request
    <2>5. new.phase = turn.phase /\ new.strategy = turn.strategy /\ new.base = turn.base
        BY SMT
    <2>6. ~new.extracted
        BY Zenon
    <2> HIDE DEF new
    <2> QED BY <2>3, <2>4, <2>5, <2>6, Zenon
<1>4. factsRequest' \in [ManyRequests -> Sticky!Request]
    BY <1>2, <1>3, Zenon
<1>5. histories' \in [Sticky!Strategies -> Seq(ManyRequests)]
    <2>1. <<>> \in Seq(ManyRequests)
        OBVIOUS
    <2> QED BY <1>1, <1>2, <2>1, Zenon
<1>6. crossed' \subseteq ManyRequests /\ crossed \subseteq crossed'
      /\ \A r \in ManyRequests : Extracts(r) =>
             r \in crossed' /\ factsRequest[r].base \subseteq crossed'
    BY <1>1, <1>2, Zenon DEF Sticky!Extracting, Extracts
<1>7. Sticky!TypeOK'
    BY <1>2, <1>4, <1>5, <1>6, Zenon DEF Sticky!TypeOK
<1>8. \A r \in ManyRequests : (Extracts(r)' <=> Extracts(r)) /\ (Learned(r)' <=> Learned(r))
    BY <1>3, Zenon DEF Extracts, Learned
<1>9. ASSUME NEW q \in ManyRequests, Extracts(q)' PROVE BaseHolds(q)'
    <2>1. /\ BaseHolds(q) /\ Extracts(q) /\ q \in crossed'
          /\ factsRequest[q].base \subseteq crossed' /\ factsRequest[q].base \subseteq ManyRequests
        BY <1>1, <1>6, <1>8, <1>9, Zenon DEF StickyInv
    <2> QED BY <1>3, <1>8, <2>1, Zenon DEF BaseHolds
<1> QED BY <1>2, <1>3, <1>7, <1>9, Zenon DEF StickyInv, Sticky!FactsAreKept

LEMMA StickyStep == ASSUME StickyInv, [Sticky!Next]_(Sticky!vars) PROVE StickyInv'
<1>1. ASSUME NEW r \in ManyRequests, NEW s \in Sticky!Strategies, Sticky!ChatDirectly(r, s)
      PROVE  StickyInv'
    BY <1>1, ChatDirectlyKeeps
<1>2. ASSUME NEW r \in ManyRequests, Sticky!ChatWithFacts(r) PROVE StickyInv'
    BY <1>2, ChatWithFactsKeeps
<1>3. ASSUME NEW r \in ManyRequests, Sticky!FactsExtracted(r) PROVE StickyInv'
    BY <1>3, FactsExtractedKeeps
<1>4. ASSUME NEW r \in ManyRequests,
             Sticky!ExtractionFails(r) \/ Sticky!Answer(r) \/ Sticky!ChatFails(r)
      PROVE  StickyInv'
    <2>1. "asking" \in StickyPhases /\ "done" \in StickyPhases /\ "failed" \in StickyPhases
        BY DEF StickyPhases
    <2>2. factsError \in BOOLEAN /\ TRUE \in BOOLEAN
        BY StickyTyped
    <2>3. CASE Sticky!ExtractionFails(r)
        <3>1. /\ factsRequest[r].phase \notin {"done", "failed"}
              /\ factsRequest' = [factsRequest EXCEPT ![r].phase = "asking"]
              /\ facts' = facts /\ crossed' = crossed /\ factsError' \in BOOLEAN
              /\ histories' = histories /\ "asking" # "done"
              /\ "asking" \notin {"idle", "extracting"}
            BY <2>2, <2>3 DEF Sticky!ExtractionFails
        <3> QED BY <2>1, <3>1, PhaseMovesOn, MovesOnKeeps, Zenon
    <2>4. CASE Sticky!Answer(r)
        <3>1. /\ factsRequest[r].phase \notin {"done", "failed"}
              /\ factsRequest' = [factsRequest EXCEPT ![r].phase = "done"]
              /\ facts' = facts /\ crossed' = crossed /\ factsError' \in BOOLEAN
              /\ histories' = [histories EXCEPT ![factsRequest[r].strategy] = Append(@, r)]
              /\ "done" \notin {"idle", "extracting"}
            BY <2>2, <2>4 DEF Sticky!Answer
        <3>2. MovesOn(r)
            BY <2>1, <3>1, PhaseMovesOn
        <3> QED BY <3>2, MovesOnKeeps
    <2>5. CASE Sticky!ChatFails(r)
        <3>1. /\ factsRequest[r].phase \notin {"done", "failed"}
              /\ factsRequest' = [factsRequest EXCEPT ![r].phase = "failed"]
              /\ facts' = facts /\ crossed' = crossed /\ factsError' \in BOOLEAN
              /\ histories' = histories /\ "failed" # "done"
              /\ "failed" \notin {"idle", "extracting"}
            BY <2>2, <2>5 DEF Sticky!ChatFails
        <3> QED BY <2>1, <3>1, PhaseMovesOn, MovesOnKeeps, Zenon
    <2> QED BY <1>4, <2>3, <2>4, <2>5
<1>5. CASE Sticky!Reset("sliding_window")
    <2>1. /\ histories' = [histories EXCEPT !["sliding_window"] = <<>>]
          /\ UNCHANGED <<facts, factsError, factsRequest, crossed>>
        BY <1>5 DEF Sticky!Reset
    <2>2. /\ histories \in [Sticky!Strategies -> Seq(ManyRequests)] /\ <<>> \in Seq(ManyRequests)
          /\ "sticky_facts" \in Sticky!Strategies /\ "sliding_window" # "sticky_facts"
        BY SMT DEF StickyInv, Sticky!TypeOK, Sticky!Strategies
    <2>3. histories'["sticky_facts"] = histories["sticky_facts"]
          /\ histories' \in [Sticky!Strategies -> Seq(ManyRequests)]
        BY <2>1, <2>2, Zenon
    <2>4. \A r : /\ Told(r)' <=> Told(r)
                 /\ Learned(r)' <=> Learned(r)
                 /\ Extracts(r)' <=> Extracts(r)
        BY <2>1, <2>3, Zenon DEF Told, Learned, Extracts
    <2>5. \A q : BaseHolds(q) => BaseHolds(q)'
        BY <2>1, <2>4, Zenon DEF BaseHolds
    <2>6. Sticky!TypeOK' /\ Sticky!FactsAreKept'
        BY <2>1, <2>3, Zenon DEF StickyInv, Sticky!TypeOK, Sticky!FactsAreKept
    <2> QED BY <2>1, <2>4, <2>5, <2>6, Zenon DEF StickyInv
<1>6. CASE Sticky!Reset("sticky_facts")
    BY <1>6, ResetFactsKeeps
<1>7. CASE UNCHANGED Sticky!vars
    BY <1>7, Zenon DEF Sticky!vars, StickyInv, Sticky!TypeOK, Sticky!FactsAreKept, Told, Learned,
                       Extracts, BaseHolds
<1>8. CASE Sticky!Next
    <2>1. \A s \in Sticky!Strategies : s = "sliding_window" \/ s = "sticky_facts"
        BY DEF Sticky!Strategies
    <2> QED BY <1>1, <1>2, <1>3, <1>4, <1>5, <1>6, <1>8, <2>1, Zenon DEF Sticky!Next
<1> QED BY <1>7, <1>8

LEMMA StickyInductive == Spec => []StickyInv
<1>1. Init => StickyInv
    BY StickyInit DEF Init
<1>2. [Next]_vars => [Sticky!Next]_(Sticky!vars)
    BY Zenon DEF Next, Only, vars, Sticky!vars, factsVars
<1>3. StickyInv /\ [Next]_vars => StickyInv'
    BY <1>2, StickyStep
<1> QED BY <1>1, <1>3, PTL DEF Spec

\* Whatever extractions fail, turns fail and overlap, and whenever the dialog is
\* reset: what the facts once took in stays in them, and they know of nothing but
\* this dialog, but for turns whose extractions overlapped one another or a reset
\* (Day10Service and StickyFactsStrategy).
THEOREM FactsAreSticky == Spec => []FactsHold
<1>1. StickyInv => FactsHold
    BY Zenon DEF StickyInv, Told, FactsHold, Of, Sticky!FactsAreOfThisDialog
<1> QED BY <1>1, StickyInductive, PTL

----------------------------------------------------------------------------
(* The memory layers of Days 11 and 12.                                    *)

LayerPhases == {"idle", "classifying", "asking", "done", "failed"}
LayerTurn == [phase : LayerPhases, session : Layered!SessionIds, kept : SUBSET Keys]

ComparisonPhases == {"idle", "next", "asking", "done"}
LayerComparison ==
    [phase : ComparisonPhases, previous : Layered!SessionIds, session : Layered!SessionIds,
     left : 0 .. Profiles]

Spoken(r, s) == \E i \in 1 .. Len(shortTerm[s]) : shortTerm[s][i].by = r

\* What a request leaves is in its session; one that has not begun left nothing.
TracesApart ==
    \A r \in Requests, s \in Layered!SessionIds :
        r \in working[s] \/ Spoken(r, s) =>
            memoryRequest[r].phase # "idle" /\ memoryRequest[r].session = s

\* While one comparison runs, it is the only one, and what it will make active
\* again is a session of the user.
ComparisonsApart ==
    /\ temporary \subseteq 1 .. madeSessions
    /\ \A c \in Layered!Running : comparison[c].previous <= madeSessions
    /\ \/ overlapped
       \/ /\ \A c, d \in Layered!Running : c = d
          /\ \A c \in Layered!Running : comparison[c].previous \notin temporary
          /\ Layered!UserSessionRestored

LayeredInv ==
    /\ Layered!TypeOK
    /\ TracesApart
    /\ Layered!LongTermIsKept
    /\ ComparisonsApart

LEMMA LayeredTyped ==
    ASSUME Layered!LayersAssumption, LayeredInv
    PROVE  /\ MaxSessions \in Nat \ {0} /\ Profiles \in Nat \ {0}
           /\ madeSessions \in Layered!SessionIds /\ activeSession \in Layered!Sessions
           /\ activeSession \in Layered!SessionIds
           /\ Layered!SessionIds \subseteq Nat /\ Layered!Sessions \subseteq Layered!SessionIds
           /\ shortTerm \in [Layered!SessionIds -> Seq(Layered!Message)]
           /\ working \in [Layered!SessionIds -> SUBSET Requests]
           /\ longTerm \in Layered!Entries /\ memoryFile \in Layered!Entries
           /\ memoryRequest \in [Requests -> LayerTurn]
           /\ comparison \in [Comparisons -> LayerComparison]
           /\ temporary \subseteq Layered!SessionIds
           /\ memoryFailed \in BOOLEAN /\ overlapped \in BOOLEAN
<1>1. MaxSessions \in Nat \ {0} /\ Profiles \in Nat \ {0}
    BY DEF Layered!LayersAssumption
<1>2. madeSessions \in Layered!SessionIds /\ activeSession \in Layered!Sessions
    BY Zenon DEF LayeredInv, Layered!TypeOK
<1>3. /\ Layered!SessionIds \subseteq Nat /\ Layered!Sessions \subseteq Layered!SessionIds
      /\ activeSession \in Layered!SessionIds
    BY <1>1, <1>2, SMT DEF Layered!SessionIds, Layered!Sessions
<1> QED BY <1>1, <1>2, <1>3, Zenon
           DEF LayeredInv, Layered!TypeOK, LayerTurn, LayerPhases, LayerComparison, ComparisonPhases

LEMMA NoEntriesTyped == Layered!NoEntries \in Layered!Entries
<1> QED BY Zenon DEF Layered!NoEntries, Layered!Entries

LEMMA LayeredInit == ASSUME Layered!LayersAssumption PROVE Layered!Init => LayeredInv
<1> SUFFICES ASSUME Layered!Init PROVE LayeredInv
    OBVIOUS
<1>1. /\ madeSessions = 1 /\ activeSession = 1
      /\ shortTerm = [s \in Layered!SessionIds |-> <<>>]
      /\ working = [s \in Layered!SessionIds |-> {}]
      /\ longTerm = Layered!NoEntries /\ memoryFile = Layered!NoEntries /\ temporary = {}
      /\ memoryRequest = [r \in Requests |-> [phase |-> "idle", session |-> 1, kept |-> {}]]
      /\ comparison = [c \in Comparisons |->
             [phase |-> "idle", previous |-> 1, session |-> 1, left |-> Profiles]]
    BY Zenon DEF Layered!Init
<1>2. 1 \in Layered!SessionIds /\ 1 \in Layered!Sessions /\ Profiles \in 0 .. Profiles
    BY <1>1, SMT DEF Layered!LayersAssumption, Layered!SessionIds, Layered!Sessions
<1>3. /\ memoryRequest \in [Requests -> LayerTurn]
      /\ \A r \in Requests : memoryRequest[r].kept = {}
    BY <1>1, <1>2, Zenon DEF LayerTurn, LayerPhases
<1>4. comparison \in [Comparisons -> LayerComparison]
    BY <1>1, <1>2, Zenon DEF LayerComparison, ComparisonPhases
<1>5. shortTerm \in [Layered!SessionIds -> Seq(Layered!Message)]
      /\ working \in [Layered!SessionIds -> SUBSET Requests]
    <2>1. <<>> \in Seq(Layered!Message)
        OBVIOUS
    <2> QED BY <1>1, <2>1, Zenon
<1>6. Layered!TypeOK
    BY <1>1, <1>2, <1>3, <1>4, <1>5, NoEntriesTyped, Zenon
       DEF Layered!Init, Layered!TypeOK, LayerTurn, LayerPhases, LayerComparison, ComparisonPhases
<1>7. \A s \in Layered!SessionIds : shortTerm[s] = <<>> /\ working[s] = {}
    BY <1>1, Zenon
<1>8. 1 .. Len(<<>>) = {}
    BY SMT
<1>9. TracesApart
    BY <1>7, <1>8, Zenon DEF TracesApart, Spoken
<1>10. Layered!LongTermIsKept
    BY <1>1, <1>3, Zenon DEF Layered!LongTermIsKept
<1>11. \A c \in Comparisons : comparison[c].phase = "idle"
    BY <1>1, SMT
<1>12. Layered!Running = {}
    BY <1>11 DEF Layered!Running
<1>13. ComparisonsApart
    BY <1>1, <1>12, Zenon DEF ComparisonsApart, Layered!UserSessionRestored
<1> QED BY <1>6, <1>9, <1>10, <1>13 DEF LayeredInv

\* A message is one of its session.
LEMMA SayAdds ==
    ASSUME shortTerm \in [Layered!SessionIds -> Seq(Layered!Message)],
           NEW s \in Layered!SessionIds, NEW role \in {"user", "assistant"},
           NEW by \in Requests \cup Comparisons, Layered!Say(s, role, by)
    PROVE  /\ shortTerm' \in [Layered!SessionIds -> Seq(Layered!Message)]
           /\ \A r, t : t \in Layered!SessionIds /\ Spoken(r, t)' => Spoken(r, t) \/ (r = by /\ t = s)
<1> DEFINE m == [role |-> role, by |-> by]
<1>1. m \in Layered!Message /\ m.by = by
    BY DEF Layered!Message
<1>2. shortTerm' = [shortTerm EXCEPT ![s] = Append(@, m)]
    BY Zenon DEF Layered!Say
<1> HIDE DEF m
<1>3. Append(shortTerm[s], m) \in Seq(Layered!Message)
    BY <1>1
<1>4. shortTerm' \in [Layered!SessionIds -> Seq(Layered!Message)]
      /\ shortTerm'[s] = Append(shortTerm[s], m)
      /\ \A t \in Layered!SessionIds \ {s} : shortTerm'[t] = shortTerm[t]
    BY <1>2, <1>3, Zenon
<1>5. \A i \in 1 .. Len(Append(shortTerm[s], m)) :
          \/ i \in 1 .. Len(shortTerm[s]) /\ Append(shortTerm[s], m)[i] = shortTerm[s][i]
          \/ Append(shortTerm[s], m)[i] = m
    <2>1. shortTerm[s] \in Seq(Layered!Message)
        OBVIOUS
    <2> QED BY <1>1, <2>1, SMT
<1>6. ASSUME NEW r, NEW t \in Layered!SessionIds, Spoken(r, t)'
      PROVE  Spoken(r, t) \/ (r = by /\ t = s)
    BY <1>1, <1>4, <1>5, <1>6, Zenon DEF Spoken
<1> QED BY <1>4, <1>6, Zenon

\* What one turn changes in the requests leaves the other requests alone.
LEMMA TurnChanges ==
    ASSUME memoryRequest \in [Requests -> LayerTurn], NEW r \in Requests,
           NEW p \in LayerPhases, NEW s \in Layered!SessionIds, NEW k \in SUBSET Keys,
           memoryRequest'
             = [memoryRequest EXCEPT ![r] = [phase |-> p, session |-> s, kept |-> k]]
    PROVE  /\ memoryRequest' \in [Requests -> LayerTurn]
           /\ memoryRequest'[r].phase = p /\ memoryRequest'[r].session = s
           /\ memoryRequest'[r].kept = k
           /\ \A q \in Requests \ {r} : memoryRequest'[q] = memoryRequest[q]
<1> DEFINE new == [phase |-> p, session |-> s, kept |-> k]
<1>1. new \in LayerTurn
    BY Zenon DEF LayerTurn
<1>2. new.phase = p /\ new.session = s
    BY SMT
<1>3. new.kept = k
    OBVIOUS
<1> HIDE DEF new
<1>4. memoryRequest' = [memoryRequest EXCEPT ![r] = new]
    BY DEF new
<1>5. memoryRequest' \in [Requests -> LayerTurn] /\ memoryRequest'[r] = new
      /\ \A q \in Requests \ {r} : memoryRequest'[q] = memoryRequest[q]
    BY <1>1, <1>4, Zenon
<1> QED BY <1>2, <1>3, <1>5, Zenon

LEMMA TurnBegins ==
    ASSUME memoryRequest \in [Requests -> LayerTurn], NEW r \in Requests, NEW p,
           NEW s \in Layered!SessionIds
    PROVE  [memoryRequest EXCEPT ![r].session = s, ![r].phase = p]
             = [memoryRequest EXCEPT ![r] =
                   [phase |-> p, session |-> s, kept |-> memoryRequest[r].kept]]
<1> DEFINE turn == memoryRequest[r]
<1> DEFINE mid == [phase |-> turn.phase, session |-> s, kept |-> turn.kept]
<1>1. turn \in LayerTurn
    OBVIOUS
<1>2. [memoryRequest EXCEPT ![r].session = s, ![r].phase = p]
        = [memoryRequest EXCEPT ![r] = [[turn EXCEPT !.session = s] EXCEPT !.phase = p]]
    BY Zenon
<1> HIDE DEF turn
<1>3. \A x \in LayerTurn : [x EXCEPT !.session = s]
            = [phase |-> x.phase, session |-> s, kept |-> x.kept]
    BY ONLY SMT DEF LayerTurn
<1>4. \A x \in LayerTurn : [x EXCEPT !.phase = p]
            = [phase |-> p, session |-> x.session, kept |-> x.kept]
    BY ONLY SMT DEF LayerTurn
<1>5. mid \in LayerTurn
    <2>1. turn.phase \in LayerPhases /\ turn.kept \in SUBSET Keys
        BY <1>1, Zenon DEF LayerTurn
    <2> QED BY <2>1, Zenon DEF LayerTurn
<1>6. mid.session = s
    BY SMT
<1>7. mid.kept = turn.kept
    OBVIOUS
<1>8. [turn EXCEPT !.session = s] = mid
    BY <1>1, <1>3, Zenon
<1> HIDE DEF mid
<1>9. [mid EXCEPT !.phase = p] = [phase |-> p, session |-> s, kept |-> turn.kept]
    BY <1>4, <1>5, <1>6, <1>7, Zenon
<1> QED BY <1>2, <1>8, <1>9, Zenon DEF turn

LEMMA TurnMoves ==
    ASSUME memoryRequest \in [Requests -> LayerTurn], NEW r \in Requests, NEW p
    PROVE  [memoryRequest EXCEPT ![r].phase = p]
             = [memoryRequest EXCEPT ![r] =
                   [phase |-> p, session |-> memoryRequest[r].session,
                    kept |-> memoryRequest[r].kept]]
<1>1. memoryRequest[r] \in LayerTurn
    OBVIOUS
<1>2. \A x \in LayerTurn : [x EXCEPT !.phase = p]
            = [phase |-> p, session |-> x.session, kept |-> x.kept]
    BY ONLY SMT DEF LayerTurn
<1> QED BY <1>1, <1>2

LEMMA TurnGives ==
    ASSUME NEW turn \in LayerTurn, NEW p \in LayerPhases, NEW k \in SUBSET Keys
    PROVE  [[turn EXCEPT !.phase = p] EXCEPT !.kept = k]
             = [phase |-> p, session |-> turn.session, kept |-> k]
<1> DEFINE mid == [phase |-> p, session |-> turn.session, kept |-> turn.kept]
<1>1. \A x \in LayerTurn : [x EXCEPT !.phase = p]
            = [phase |-> p, session |-> x.session, kept |-> x.kept]
    BY ONLY SMT DEF LayerTurn
<1>2. \A x \in LayerTurn : \A y \in SUBSET Keys : [x EXCEPT !.kept = y]
            = [phase |-> x.phase, session |-> x.session, kept |-> y]
    BY ONLY SMT DEF LayerTurn
<1>3. mid \in LayerTurn
    <2>1. turn.session \in Layered!SessionIds /\ turn.kept \in SUBSET Keys
        BY Zenon DEF LayerTurn
    <2> QED BY <2>1, Zenon DEF LayerTurn
<1>4. mid.session = turn.session /\ mid.phase = p
    BY SMT
<1>5. [turn EXCEPT !.phase = p] = mid
    BY <1>1, Zenon
<1> HIDE DEF mid
<1>6. [mid EXCEPT !.kept = k] = [phase |-> p, session |-> turn.session, kept |-> k]
    BY <1>2, <1>3, <1>4, Zenon
<1> QED BY <1>5, <1>6, Zenon

\* Traces stay apart when nothing is moved and what is added is in its session.
LEMMA ApartKept ==
    ASSUME TracesApart,
           \A r \in Requests : memoryRequest[r].phase # "idle" =>
               memoryRequest'[r].phase # "idle"
               /\ memoryRequest'[r].session = memoryRequest[r].session,
           \A r \in Requests, s \in Layered!SessionIds :
               r \in working'[s] \/ Spoken(r, s)' =>
                   \/ r \in working[s] \/ Spoken(r, s)
                   \/ memoryRequest'[r].phase # "idle" /\ memoryRequest'[r].session = s
    PROVE  TracesApart'
<1> QED BY Zenon DEF TracesApart, Layered!SessionIds

\* Comparisons stay apart from whatever moves no session of theirs.
LEMMA ComparisonsKept ==
    ASSUME Layered!LayersAssumption, LayeredInv, UNCHANGED <<comparison, temporary>>,
           madeSessions' \in Nat, madeSessions <= madeSessions',
           overlapped => overlapped',
           overlapped' \/ activeSession' = activeSession \/ activeSession' \notin temporary
    PROVE  ComparisonsApart'
<1>1. Layered!Running' = Layered!Running
    BY Zenon DEF Layered!Running
<1>2. /\ temporary \subseteq 1 .. madeSessions
      /\ \A c \in Layered!Running : comparison[c].previous <= madeSessions
      /\ \/ overlapped
         \/ /\ \A c, d \in Layered!Running : c = d
            /\ \A c \in Layered!Running : comparison[c].previous \notin temporary
            /\ Layered!UserSessionRestored
    BY Zenon DEF LayeredInv, ComparisonsApart
<1>3. madeSessions \in Nat /\ 1 .. madeSessions \subseteq 1 .. madeSessions'
    BY LayeredTyped
<1>4. \A c \in Layered!Running : comparison[c].previous \in Nat
    BY LayeredTyped, Zenon DEF Layered!Running, LayerComparison
<1>5. \A c \in Layered!Running' : comparison'[c].previous <= madeSessions'
    BY <1>1, <1>2, <1>3, <1>4, SMT
<1>6. \/ overlapped'
      \/ /\ \A c, d \in Layered!Running' : c = d
         /\ \A c \in Layered!Running' : comparison'[c].previous \notin temporary'
         /\ Layered!UserSessionRestored'
    BY <1>1, <1>2, Zenon DEF Layered!UserSessionRestored
<1> QED BY <1>2, <1>3, <1>5, <1>6, Zenon DEF ComparisonsApart

LEMMA LayeredAgain ==
    ASSUME madeSessions' \in Layered!SessionIds, activeSession' \in Layered!Sessions',
           shortTerm' \in [Layered!SessionIds -> Seq(Layered!Message)],
           working' \in [Layered!SessionIds -> SUBSET Requests],
           longTerm' \in Layered!Entries, memoryFile' \in Layered!Entries,
           memoryRequest' \in [Requests -> LayerTurn],
           comparison' \in [Comparisons -> LayerComparison],
           temporary' \subseteq Layered!SessionIds,
           memoryFailed' \in BOOLEAN, overlapped' \in BOOLEAN,
           TracesApart', Layered!LongTermIsKept', ComparisonsApart'
    PROVE  LayeredInv'
<1> QED BY Zenon DEF LayeredInv, Layered!TypeOK, Layered!SessionIds, Layered!Message, Layered!Entries,
               LayerTurn, LayerPhases, LayerComparison, ComparisonPhases

\* An action that leaves the long-term memory and what is kept in it alone.
LEMMA LongTermUntouched ==
    ASSUME Layered!LongTermIsKept, UNCHANGED <<longTerm, memoryFile, memoryFailed>>,
           \A r \in Requests : memoryRequest'[r].kept = memoryRequest[r].kept
    PROVE  Layered!LongTermIsKept'
<1> QED BY Zenon DEF Layered!LongTermIsKept

LEMMA LayeredNewSession ==
    ASSUME Layered!LayersAssumption, LayeredInv, Layered!NewSession
    PROVE  LayeredInv'
<1> USE LayeredTyped
<1>1. /\ madeSessions < MaxSessions
      /\ madeSessions' = madeSessions + 1 /\ activeSession' = madeSessions + 1
      /\ UNCHANGED <<shortTerm, working, longTerm, memoryFile, memoryRequest, comparison>>
      /\ UNCHANGED <<temporary, memoryFailed, overlapped>>
    BY Zenon DEF Layered!NewSession, Layered!memory, Layered!observed
<1>2. madeSessions' \in Layered!SessionIds /\ activeSession' \in Layered!Sessions'
      /\ madeSessions' \in Nat /\ madeSessions <= madeSessions'
      /\ madeSessions + 1 \notin 1 .. madeSessions
    BY <1>1, SMT DEF Layered!SessionIds, Layered!Sessions
<1>3. TracesApart'
    BY <1>1, ApartKept, Zenon DEF Spoken, LayeredInv
<1>4. Layered!LongTermIsKept'
    BY <1>1, LongTermUntouched, Zenon DEF LayeredInv
<1>5. activeSession' \notin temporary
    BY <1>1, <1>2, Zenon DEF LayeredInv, ComparisonsApart
<1>6. ComparisonsApart'
    BY <1>1, <1>2, <1>5, ComparisonsKept, Zenon
<1> QED BY <1>1, <1>2, <1>3, <1>4, <1>6, LayeredAgain, Zenon

\* An action that moves no session and no comparison.
LEMMA SessionsStay ==
    ASSUME Layered!LayersAssumption, LayeredInv,
           UNCHANGED <<madeSessions, activeSession, comparison, temporary, overlapped>>
    PROVE  /\ madeSessions' \in Layered!SessionIds /\ activeSession' \in Layered!Sessions'
           /\ comparison' \in [Comparisons -> LayerComparison]
           /\ temporary' \subseteq Layered!SessionIds /\ overlapped' \in BOOLEAN
           /\ ComparisonsApart'
<1>1. ComparisonsApart'
    BY ComparisonsKept, LayeredTyped
<1> QED BY <1>1, LayeredTyped, Zenon DEF Layered!Sessions

LEMMA LayeredResets ==
    ASSUME Layered!LayersAssumption, LayeredInv,
           Layered!ResetShortTerm \/ Layered!ResetWorking
    PROVE  LayeredInv'
<1> USE LayeredTyped
<1>1. UNCHANGED <<madeSessions, activeSession, comparison, temporary, overlapped>>
      /\ UNCHANGED <<longTerm, memoryFile, memoryRequest, memoryFailed>>
    BY Zenon DEF Layered!ResetShortTerm, Layered!ResetWorking, Layered!observed
<1>2. /\ shortTerm' \in [Layered!SessionIds -> Seq(Layered!Message)]
      /\ working' \in [Layered!SessionIds -> SUBSET Requests]
      /\ \A s \in Layered!SessionIds : shortTerm'[s] = shortTerm[s] \/ shortTerm'[s] = <<>>
      /\ \A s \in Layered!SessionIds : working'[s] \subseteq working[s]
    <2>1. <<>> \in Seq(Layered!Message)
        OBVIOUS
    <2>2. CASE Layered!ResetShortTerm
        <3>1. shortTerm' = [shortTerm EXCEPT ![activeSession] = <<>>] /\ working' = working
            BY <2>2, Zenon DEF Layered!ResetShortTerm
        <3> QED BY <2>1, <3>1, Zenon
    <2>3. CASE Layered!ResetWorking
        <3>1. working' = [working EXCEPT ![activeSession] = {}] /\ shortTerm' = shortTerm
            BY <2>3, Zenon DEF Layered!ResetWorking
        <3> QED BY <3>1, Zenon
    <2> QED BY <2>2, <2>3
<1>3. 1 .. Len(<<>>) = {}
    BY SMT
<1>4. \A r \in Requests, s \in Layered!SessionIds : Spoken(r, s)' => Spoken(r, s)
    BY <1>2, <1>3, Zenon DEF Spoken
<1>5. TracesApart'
    BY <1>1, <1>2, <1>4, ApartKept, Zenon DEF LayeredInv
<1>6. Layered!LongTermIsKept'
    BY <1>1, LongTermUntouched, Zenon DEF LayeredInv
<1> QED BY <1>1, <1>2, <1>5, <1>6, SessionsStay, LayeredAgain, Zenon

LEMMA LayeredResetLongTerm ==
    ASSUME Layered!LayersAssumption, LayeredInv, Layered!ResetLongTerm
    PROVE  LayeredInv'
<1> USE LayeredTyped
<1>1. /\ UNCHANGED <<madeSessions, activeSession, comparison, temporary, overlapped>>
      /\ UNCHANGED <<shortTerm, working>>
      /\ longTerm' = Layered!NoEntries
      /\ \/ memoryFile' = Layered!NoEntries /\ memoryFailed' = memoryFailed
         \/ memoryFailed' = TRUE /\ memoryFile' = memoryFile
      /\ memoryRequest' = [r \in Requests |-> [memoryRequest[r] EXCEPT !.kept = {}]]
    BY Zenon DEF Layered!ResetLongTerm, Layered!Written
<1>2. \A x \in LayerTurn : \A y \in SUBSET Keys : [x EXCEPT !.kept = y]
            = [phase |-> x.phase, session |-> x.session, kept |-> y]
    BY ONLY SMT DEF LayerTurn
<1>3. ASSUME NEW r \in Requests
      PROVE  /\ memoryRequest'[r] \in LayerTurn /\ memoryRequest'[r].kept = {}
             /\ memoryRequest'[r].phase = memoryRequest[r].phase
             /\ memoryRequest'[r].session = memoryRequest[r].session
    <2> DEFINE new == [phase |-> memoryRequest[r].phase, session |-> memoryRequest[r].session,
                       kept |-> {}]
    <2>1. memoryRequest[r] \in LayerTurn
        OBVIOUS
    <2>2. memoryRequest'[r] = new
        BY <1>1, <1>2, <2>1, Zenon
    <2>3. new \in LayerTurn
        BY <2>1, Zenon DEF LayerTurn
    <2>4. new.phase = memoryRequest[r].phase /\ new.session = memoryRequest[r].session
        BY SMT
    <2>5. new.kept = {}
        OBVIOUS
    <2> HIDE DEF new
    <2> QED BY <2>2, <2>3, <2>4, <2>5, Zenon
<1>4. memoryRequest' \in [Requests -> LayerTurn]
    BY <1>1, <1>3, Zenon
<1>5. TracesApart'
    BY <1>1, <1>3, ApartKept, Zenon DEF Spoken, LayeredInv
<1>6. Layered!LongTermIsKept'
    BY <1>1, <1>3, Zenon DEF Layered!LongTermIsKept
<1> QED BY <1>1, <1>4, <1>5, <1>6, NoEntriesTyped, SessionsStay, LayeredAgain, Zenon

LEMMA LayeredStartChat ==
    ASSUME Layered!LayersAssumption, LayeredInv, NEW r \in Requests,
           NEW session \in Layered!Sessions \cup {NoSession}, NEW classify \in BOOLEAN,
           Layered!StartChat(r, session, classify)
    PROVE  LayeredInv'
<1> USE LayeredTyped
<1> DEFINE s == Layered!Ensured(session)
<1> DEFINE p == IF classify THEN "classifying" ELSE "asking"
<1> DEFINE k == memoryRequest[r].kept
<1>1. /\ memoryRequest[r].phase = "idle" /\ activeSession' = s /\ Layered!Say(s, "user", r)
      /\ memoryRequest' = [memoryRequest EXCEPT ![r].session = s, ![r].phase = p]
      /\ overlapped' = (overlapped \/ s \in temporary)
      /\ UNCHANGED <<madeSessions, working, longTerm, memoryFile, comparison, temporary,
                     memoryFailed>>
    BY Zenon DEF Layered!StartChat
<1>2. s \in Layered!Sessions /\ s \in Layered!SessionIds
    BY Zenon DEF Layered!Ensured
<1>3. p \in LayerPhases /\ p # "idle" /\ k \in SUBSET Keys
    <2>1. p \in LayerPhases /\ p # "idle"
        BY DEF LayerPhases
    <2>2. memoryRequest[r] \in LayerTurn
        OBVIOUS
    <2>3. k \in SUBSET Keys
        BY <2>2, Zenon DEF LayerTurn
    <2> QED BY <2>1, <2>3
<1> HIDE DEF s, p
<1>4. memoryRequest' = [memoryRequest EXCEPT ![r] = [phase |-> p, session |-> s, kept |-> k]]
    BY <1>1, <1>2, TurnBegins, Zenon
<1>5. /\ memoryRequest' \in [Requests -> LayerTurn]
      /\ memoryRequest'[r].phase = p /\ memoryRequest'[r].session = s
      /\ memoryRequest'[r].kept = k
      /\ \A q \in Requests \ {r} : memoryRequest'[q] = memoryRequest[q]
    <2> HIDE DEF k
    <2> QED BY <1>2, <1>3, <1>4, TurnChanges, Zenon
<1>6. /\ shortTerm' \in [Layered!SessionIds -> Seq(Layered!Message)]
      /\ \A q, t : t \in Layered!SessionIds /\ Spoken(q, t)' => Spoken(q, t) \/ (q = r /\ t = s)
    BY <1>1, <1>2, SayAdds, Zenon
<1>7. TracesApart'
    <2>1. \A q \in Requests : memoryRequest[q].phase # "idle" =>
              memoryRequest'[q].phase # "idle"
              /\ memoryRequest'[q].session = memoryRequest[q].session
        BY <1>1, <1>5, Zenon
    <2> QED BY <1>1, <1>3, <1>5, <1>6, <2>1, ApartKept, Zenon DEF LayeredInv
<1>8. Layered!LongTermIsKept'
    <2>1. \A q \in Requests : memoryRequest'[q].kept = memoryRequest[q].kept
        BY <1>5, Zenon
    <2> QED BY <1>1, <2>1, LongTermUntouched, Zenon DEF LayeredInv
<1>9. /\ madeSessions' \in Nat /\ madeSessions <= madeSessions'
      /\ madeSessions' \in Layered!SessionIds
    BY <1>1, SMT
<1>10. overlapped => overlapped'
    BY <1>1, Zenon
<1>11. overlapped' \in BOOLEAN
    BY <1>1, Zenon
<1>12. overlapped' \/ activeSession' \notin temporary
    BY <1>1, Zenon
<1>13. ComparisonsApart'
    BY <1>1, <1>9, <1>10, <1>12, ComparisonsKept, Zenon
<1>14. activeSession' \in Layered!Sessions'
    BY <1>1, <1>2, Zenon DEF Layered!Sessions
<1> QED BY <1>1, <1>5, <1>6, <1>7, <1>8, <1>9, <1>11, <1>13, <1>14, LayeredAgain, Zenon

LEMMA LayeredClassified ==
    ASSUME Layered!LayersAssumption, LayeredInv, NEW r \in Requests,
           NEW toWorking \in BOOLEAN, NEW keys \in Layered!Updates,
           Layered!Classified(r, toWorking, keys)
    PROVE  LayeredInv'
<1> USE LayeredTyped
<1> DEFINE s == memoryRequest[r].session
<1> DEFINE others(q) == [phase |-> memoryRequest[q].phase, session |-> memoryRequest[q].session,
                         kept |-> memoryRequest[q].kept \ keys]
<1>1. /\ memoryRequest[r].phase = "classifying"
      /\ working' = IF toWorking THEN [working EXCEPT ![s] = @ \cup {r}] ELSE working
      /\ longTerm' = Layered!Upserted(r, keys)
      /\ IF keys = {} THEN UNCHANGED <<memoryFile, memoryFailed>> ELSE Layered!Written(longTerm')
      /\ memoryRequest' = Layered!Decided(r, keys)
      /\ UNCHANGED <<madeSessions, activeSession, comparison, temporary, overlapped>>
      /\ UNCHANGED shortTerm
    BY Zenon DEF Layered!Classified
<1>2. /\ \A q \in Requests : memoryRequest[q] \in LayerTurn
      /\ "asking" \in LayerPhases /\ keys \in SUBSET Keys
    BY DEF LayerPhases, Layered!Updates
<1>3. s \in Layered!SessionIds
    BY <1>2, Zenon DEF LayerTurn
<1>4. memoryRequest' = [q \in Requests |-> memoryRequest'[q]]
    BY <1>1, Zenon DEF Layered!Decided
<1>5. /\ memoryRequest'[r] = [phase |-> "asking", session |-> s, kept |-> keys]
      /\ memoryRequest'[r] \in LayerTurn
    <2>1. memoryRequest'[r]
            = [[memoryRequest[r] EXCEPT !.phase = "asking"] EXCEPT !.kept = keys]
        BY <1>1, Zenon DEF Layered!Decided
    <2>2. memoryRequest'[r] = [phase |-> "asking", session |-> s, kept |-> keys]
        BY <1>2, <2>1, TurnGives, Zenon
    <2> HIDE DEF s
    <2>3. [phase |-> "asking", session |-> s, kept |-> keys] \in LayerTurn
        BY <1>2, <1>3, Zenon DEF LayerTurn
    <2> QED BY <2>2, <2>3, Zenon DEF s
<1>6. ASSUME NEW q \in Requests \ {r}
      PROVE  memoryRequest'[q] = others(q) /\ others(q) \in LayerTurn
    <2> DEFINE left == memoryRequest[q].kept \ keys
    <2>1. \A x \in LayerTurn : \A y \in SUBSET Keys : [x EXCEPT !.kept = y]
            = [phase |-> x.phase, session |-> x.session, kept |-> y]
        BY ONLY SMT DEF LayerTurn
    <2>2. memoryRequest'[q] = [memoryRequest[q] EXCEPT !.kept = left]
        BY <1>1, Zenon DEF Layered!Decided
    <2>3. /\ memoryRequest[q].phase \in LayerPhases
          /\ memoryRequest[q].session \in Layered!SessionIds
          /\ memoryRequest[q].kept \in SUBSET Keys
        BY <1>2, Zenon DEF LayerTurn
    <2>4. left \in SUBSET Keys
        BY <2>3, Zenon
    <2>5. memoryRequest'[q] = others(q)
        BY <1>2, <2>1, <2>2, <2>4, Zenon
    <2>6. others(q) \in LayerTurn
        BY <2>3, <2>4, Zenon DEF LayerTurn
    <2> QED BY <2>5, <2>6
<1>7. /\ memoryRequest'[r].phase = "asking" /\ memoryRequest'[r].session = s
      /\ memoryRequest'[r].kept = keys
      /\ \A q \in Requests \ {r} :
             /\ memoryRequest'[q].phase = memoryRequest[q].phase
             /\ memoryRequest'[q].session = memoryRequest[q].session
             /\ memoryRequest'[q].kept = memoryRequest[q].kept \ keys
    <2> HIDE DEF s
    <2> DEFINE new == [phase |-> "asking", session |-> s, kept |-> keys]
    <2>1. memoryRequest'[r] = new
        BY <1>5
    <2>2. new.phase = "asking" /\ new.session = s /\ new.kept = keys
        OBVIOUS
    <2>3. ASSUME NEW q \in Requests \ {r}
          PROVE  /\ memoryRequest'[q].phase = memoryRequest[q].phase
                 /\ memoryRequest'[q].session = memoryRequest[q].session
                 /\ memoryRequest'[q].kept = memoryRequest[q].kept \ keys
        <3>1. memoryRequest'[q] = others(q)
            BY <1>6
        <3>2. /\ others(q).phase = memoryRequest[q].phase
              /\ others(q).session = memoryRequest[q].session
              /\ others(q).kept = memoryRequest[q].kept \ keys
            OBVIOUS
        <3> HIDE DEF others
        <3> QED BY <3>1, <3>2, Zenon
    <2> HIDE DEF new
    <2> QED BY <2>1, <2>2, <2>3, Zenon
<1>8. memoryRequest' \in [Requests -> LayerTurn]
    <2>1. \A q \in Requests : memoryRequest'[q] \in LayerTurn
        BY <1>5, <1>6, Zenon
    <2> QED BY <1>4, <2>1, Zenon
<1>9. memoryRequest[r].session = s
    OBVIOUS
<1> HIDE DEF s
<1>10. /\ working' \in [Layered!SessionIds -> SUBSET Requests]
       /\ \A q, t : t \in Layered!SessionIds /\ q \in working'[t]
             => q \in working[t] \/ (q = r /\ t = s)
    <2>1. CASE toWorking
        <3>1. working' = [working EXCEPT ![s] = @ \cup {r}]
            BY <1>1, <2>1
        <3>2. working[s] \cup {r} \subseteq Requests
            BY <1>3, Zenon
        <3>3. working' \in [Layered!SessionIds -> SUBSET Requests]
              /\ working'[s] = working[s] \cup {r}
              /\ \A t \in Layered!SessionIds \ {s} : working'[t] = working[t]
            BY <1>3, <3>1, <3>2, Zenon
        <3> QED BY <3>3, Zenon
    <2>2. CASE ~toWorking
        BY <1>1, <2>2, Zenon
    <2> QED BY <2>1, <2>2
<1>11. "asking" # "idle" /\ "classifying" # "idle"
    OBVIOUS
<1>12. \A q, t : t \in Layered!SessionIds /\ Spoken(q, t)' => Spoken(q, t)
    BY <1>1, Zenon DEF Spoken
<1>13. TracesApart'
    <2>1. \A q \in Requests : memoryRequest[q].phase # "idle" =>
              memoryRequest'[q].phase # "idle"
              /\ memoryRequest'[q].session = memoryRequest[q].session
        BY <1>7, <1>9, <1>11, Zenon
    <2> QED BY <1>7, <1>10, <1>11, <1>12, <2>1, ApartKept, Zenon DEF LayeredInv
<1>14. /\ longTerm' \in Layered!Entries
       /\ \A k \in Keys : longTerm'[k] = IF k \in keys THEN r ELSE longTerm[k]
    <2>1. \A k \in Keys : longTerm[k] \in Requests \cup {NoRequest}
        BY Zenon DEF Layered!Entries
    <2> QED BY <1>1, <2>1, Zenon DEF Layered!Upserted, Layered!Entries
<1>15. /\ memoryFile' \in Layered!Entries /\ memoryFailed' \in BOOLEAN
       /\ memoryFailed' \/ memoryFile' = longTerm'
    <2>1. CASE keys = {}
        <3>1. \A k \in Keys : longTerm'[k] = longTerm[k]
            BY <1>14, <2>1, Zenon
        <3>2. longTerm' = longTerm
            BY <1>14, <3>1 DEF Layered!Entries
        <3>3. UNCHANGED <<memoryFile, memoryFailed>>
            BY <1>1, <2>1
        <3> QED BY <3>2, <3>3, Zenon DEF LayeredInv, Layered!LongTermIsKept
    <2>2. CASE keys # {}
        <3>1. \/ memoryFile' = longTerm' /\ memoryFailed' = memoryFailed
              \/ memoryFailed' = TRUE /\ memoryFile' = memoryFile
            BY <1>1, <2>2, Zenon DEF Layered!Written
        <3> QED BY <1>14, <3>1, Zenon
    <2> QED BY <2>1, <2>2
<1>16. Layered!LongTermIsKept'
    <2>1. ASSUME NEW q \in Requests, NEW k \in memoryRequest'[q].kept
          PROVE  longTerm'[k] = q
        <3>1. memoryRequest'[q].kept \subseteq Keys
            BY <1>8, Zenon DEF LayerTurn
        <3>2. CASE q = r
            BY <1>7, <1>14, <3>1, <3>2, Zenon
        <3>3. CASE q # r
            <4>1. k \in memoryRequest[q].kept /\ k \notin keys
                BY <1>7, <3>3, Zenon
            <4> QED BY <1>14, <3>1, <4>1, Zenon DEF LayeredInv, Layered!LongTermIsKept
        <3> QED BY <3>2, <3>3
    <2> QED BY <1>15, <2>1, Zenon DEF Layered!LongTermIsKept
<1> QED BY <1>1, <1>8, <1>10, <1>13, <1>14, <1>15, <1>16, SessionsStay, LayeredAgain, Zenon

\* The last step of a turn: its phase, and its answer if there is one.
LEMMA LayeredTurnEnds ==
    ASSUME Layered!LayersAssumption, LayeredInv, NEW r \in Requests,
           Layered!Answer(r) \/ Layered!ChatFails(r)
    PROVE  LayeredInv'
<1> USE LayeredTyped
<1> DEFINE s == memoryRequest[r].session
<1> DEFINE k == memoryRequest[r].kept
<1>1. PICK p \in LayerPhases \ {"idle"} :
          memoryRequest' = [memoryRequest EXCEPT ![r].phase = p]
    <2>1. "done" \in LayerPhases \ {"idle"} /\ "failed" \in LayerPhases \ {"idle"}
        BY DEF LayerPhases
    <2> QED BY <2>1, Zenon DEF Layered!Answer, Layered!ChatFails
<1>2. /\ memoryRequest[r].phase = "asking"
      /\ UNCHANGED <<madeSessions, activeSession, comparison, temporary, overlapped>>
      /\ UNCHANGED <<working, longTerm, memoryFile, memoryFailed>>
      /\ Layered!Say(s, "assistant", r) \/ shortTerm' = shortTerm
    BY Zenon DEF Layered!Answer, Layered!ChatFails, Layered!memory, Layered!observed
<1>3. s \in Layered!SessionIds /\ k \in SUBSET Keys
    <2>1. memoryRequest[r] \in LayerTurn
        OBVIOUS
    <2> QED BY <2>1, Zenon DEF LayerTurn
<1>4. memoryRequest' = [memoryRequest EXCEPT ![r] = [phase |-> p, session |-> s, kept |-> k]]
    BY <1>1, TurnMoves, Zenon
<1>5. /\ memoryRequest' \in [Requests -> LayerTurn]
      /\ memoryRequest'[r].phase = p /\ memoryRequest'[r].session = s
      /\ memoryRequest'[r].kept = k
      /\ \A q \in Requests \ {r} : memoryRequest'[q] = memoryRequest[q]
    <2>1. p \in LayerPhases
        BY <1>1
    <2> HIDE DEF s, k
    <2> QED BY <2>1, <1>3, <1>4, TurnChanges, Zenon
<1>6. /\ shortTerm' \in [Layered!SessionIds -> Seq(Layered!Message)]
      /\ \A q, t : t \in Layered!SessionIds /\ Spoken(q, t)' => Spoken(q, t) \/ (q = r /\ t = s)
    <2>1. CASE Layered!Say(s, "assistant", r)
        <3> HIDE DEF s
        <3> QED BY <1>3, <2>1, SayAdds, Zenon
    <2>2. CASE shortTerm' = shortTerm
        BY <2>2, Zenon DEF Spoken
    <2> QED BY <1>2, <2>1, <2>2
<1>7. TracesApart'
    BY <1>1, <1>2, <1>5, <1>6, ApartKept, Zenon DEF LayeredInv
<1>8. Layered!LongTermIsKept'
    <2>1. \A q \in Requests : memoryRequest'[q].kept = memoryRequest[q].kept
        BY <1>5, Zenon
    <2> QED BY <1>2, <2>1, LongTermUntouched, Zenon DEF LayeredInv
<1> QED BY <1>2, <1>5, <1>6, <1>7, <1>8, SessionsStay, LayeredAgain, Zenon

\* What one comparison changes leaves the other comparisons alone.
LEMMA ComparisonChanges ==
    ASSUME comparison \in [Comparisons -> LayerComparison], NEW c \in Comparisons,
           NEW p \in ComparisonPhases, NEW b \in Layered!SessionIds,
           NEW s \in Layered!SessionIds, NEW l \in 0 .. Profiles,
           comparison' = [comparison EXCEPT ![c] =
               [phase |-> p, previous |-> b, session |-> s, left |-> l]]
    PROVE  /\ comparison' \in [Comparisons -> LayerComparison]
           /\ comparison'[c].phase = p /\ comparison'[c].previous = b
           /\ \A d \in Comparisons \ {c} : comparison'[d] = comparison[d]
<1> DEFINE new == [phase |-> p, previous |-> b, session |-> s, left |-> l]
<1>1. new \in LayerComparison
    BY Zenon DEF LayerComparison
<1>2. new.phase = p /\ new.previous = b
    BY SMT
<1> HIDE DEF new
<1>3. comparison' = [comparison EXCEPT ![c] = new]
    BY DEF new
<1>4. comparison' \in [Comparisons -> LayerComparison] /\ comparison'[c] = new
      /\ \A d \in Comparisons \ {c} : comparison'[d] = comparison[d]
    BY <1>1, <1>3, Zenon
<1> QED BY <1>2, <1>4, Zenon

\* The fields of a comparison.
LEMMA ComparisonFields ==
    ASSUME comparison \in [Comparisons -> LayerComparison], NEW c \in Comparisons
    PROVE  /\ comparison[c].phase \in ComparisonPhases
           /\ comparison[c].previous \in Layered!SessionIds
           /\ comparison[c].session \in Layered!SessionIds
           /\ comparison[c].left \in 0 .. Profiles
<1>1. comparison[c] \in LayerComparison
    OBVIOUS
<1> QED BY <1>1, Zenon DEF LayerComparison

LEMMA ComparisonBegins ==
    ASSUME NEW x \in LayerComparison, NEW b
    PROVE  [[x EXCEPT !.phase = "next"] EXCEPT !.previous = b]
             = [phase |-> "next", previous |-> b, session |-> x.session, left |-> x.left]
<1> DEFINE mid == [phase |-> "next", previous |-> x.previous, session |-> x.session,
                   left |-> x.left]
<1>1. [x EXCEPT !.phase = "next"] = mid
    BY SMT DEF LayerComparison
<1>2. [mid EXCEPT !.previous = b]
        = [phase |-> "next", previous |-> b, session |-> x.session, left |-> x.left]
    BY SMT
<1> QED BY <1>1, <1>2, Zenon

LEMMA ComparisonMoves ==
    ASSUME NEW x \in LayerComparison, NEW p
    PROVE  [x EXCEPT !.phase = p]
             = [phase |-> p, previous |-> x.previous, session |-> x.session, left |-> x.left]
<1> QED BY SMT DEF LayerComparison

LEMMA ComparisonAsks ==
    ASSUME NEW x \in LayerComparison, NEW n
    PROVE  [[[x EXCEPT !.phase = "asking"] EXCEPT !.session = n] EXCEPT !.left = @ - 1]
             = [phase |-> "asking", previous |-> x.previous, session |-> n, left |-> x.left - 1]
<1> DEFINE mid == [phase |-> "asking", previous |-> x.previous, session |-> x.session,
                   left |-> x.left]
<1> DEFINE last == [phase |-> "asking", previous |-> x.previous, session |-> n,
                    left |-> x.left]
<1>1. [x EXCEPT !.phase = "asking"] = mid
    BY SMT DEF LayerComparison
<1>2. [mid EXCEPT !.session = n] = last
    BY SMT
<1>3. [last EXCEPT !.left = @ - 1]
        = [phase |-> "asking", previous |-> x.previous, session |-> n, left |-> x.left - 1]
    BY SMT
<1> QED BY <1>1, <1>2, <1>3, Zenon

LEMMA LayeredStartComparison ==
    ASSUME Layered!LayersAssumption, LayeredInv, NEW c \in Comparisons,
           Layered!StartComparison(c)
    PROVE  LayeredInv'
<1> USE LayeredTyped
<1> DEFINE x == comparison[c]
<1>1. /\ x.phase = "idle"
      /\ comparison' = [comparison EXCEPT ![c].phase = "next", ![c].previous = activeSession]
      /\ overlapped' = (overlapped \/ Layered!Running # {})
      /\ UNCHANGED <<madeSessions, activeSession, shortTerm, working, longTerm, memoryFile>>
      /\ UNCHANGED <<memoryRequest, temporary, memoryFailed>>
    BY Zenon DEF Layered!StartComparison, Layered!memory
<1>2. /\ x.session \in Layered!SessionIds /\ x.left \in 0 .. Profiles
      /\ "next" \in ComparisonPhases
    BY ComparisonFields DEF ComparisonPhases
<1>3. comparison' = [comparison EXCEPT ![c] =
          [phase |-> "next", previous |-> activeSession, session |-> x.session, left |-> x.left]]
    <2>1. [comparison EXCEPT ![c].phase = "next", ![c].previous = activeSession]
            = [comparison EXCEPT ![c] =
                 [[x EXCEPT !.phase = "next"] EXCEPT !.previous = activeSession]]
        BY Zenon
    <2>2. [[x EXCEPT !.phase = "next"] EXCEPT !.previous = activeSession]
            = [phase |-> "next", previous |-> activeSession, session |-> x.session,
               left |-> x.left]
        BY ComparisonBegins
    <2> QED BY <1>1, <2>1, <2>2, Zenon
<1> HIDE DEF x
<1>4. /\ comparison' \in [Comparisons -> LayerComparison]
      /\ comparison'[c].phase = "next" /\ comparison'[c].previous = activeSession
      /\ \A d \in Comparisons \ {c} : comparison'[d] = comparison[d]
    BY <1>2, <1>3, ComparisonChanges, Zenon
<1>5. Layered!Running' = Layered!Running \cup {c}
    BY <1>1, <1>4, Zenon DEF Layered!Running, x
<1>6. c \notin Layered!Running
    BY <1>1 DEF Layered!Running, x
<1>7. /\ temporary \subseteq 1 .. madeSessions
      /\ \A d \in Layered!Running : comparison[d].previous <= madeSessions
      /\ \/ overlapped
         \/ Layered!UserSessionRestored
    BY Zenon DEF LayeredInv, ComparisonsApart
<1>8. activeSession <= madeSessions
    BY SMT DEF Layered!Sessions
<1>9. \A d \in Layered!Running' : comparison'[d].previous <= madeSessions'
    BY <1>1, <1>4, <1>5, <1>7, <1>8, Zenon DEF Layered!Running
<1>10. \/ overlapped'
       \/ /\ \A d, e \in Layered!Running' : d = e
          /\ \A d \in Layered!Running' : comparison'[d].previous \notin temporary'
          /\ Layered!UserSessionRestored'
    <2>1. CASE overlapped \/ Layered!Running # {}
        BY <1>1, <2>1, Zenon
    <2>2. CASE ~overlapped /\ Layered!Running = {}
        <3>1. Layered!Running' = {c}
            BY <1>5, <2>2
        <3>2. activeSession \notin temporary
            BY <1>7, <2>2 DEF Layered!UserSessionRestored
        <3>3. Layered!UserSessionRestored'
            BY <3>1 DEF Layered!UserSessionRestored
        <3>4. \A d \in Layered!Running' : d = c
            BY <3>1
        <3>5. comparison'[c].previous \notin temporary'
            <4>1. comparison'[c].previous = activeSession /\ temporary' = temporary
                BY <1>1, <1>4
            <4> QED BY <3>2, <4>1
        <3> QED BY <3>3, <3>4, <3>5, Zenon
    <2> QED BY <2>1, <2>2
<1>11. ComparisonsApart'
    BY <1>1, <1>7, <1>9, <1>10, Zenon DEF ComparisonsApart
<1>12. overlapped' \in BOOLEAN
    BY <1>1, Zenon
<1>13. TracesApart'
    BY <1>1, ApartKept, Zenon DEF LayeredInv, Spoken
<1>14. Layered!LongTermIsKept'
    BY <1>1, LongTermUntouched, Zenon DEF LayeredInv
<1>15. activeSession' \in Layered!Sessions'
    BY <1>1, Zenon DEF Layered!Sessions
<1> QED BY <1>1, <1>4, <1>11, <1>12, <1>13, <1>14, <1>15, LayeredAgain, Zenon

\* The messages of a comparison are no request's.
LEMMA ComparisonSpeaks ==
    ASSUME Layered!LayersAssumption, LayeredInv, NEW c \in Comparisons,
           NEW s \in Layered!SessionIds, NEW role \in {"user", "assistant"},
           Layered!Say(s, role, c), UNCHANGED <<working, memoryRequest>>
    PROVE  shortTerm' \in [Layered!SessionIds -> Seq(Layered!Message)] /\ TracesApart'
<1>1. c \notin Requests /\ c \in Requests \cup Comparisons
    BY DEF Layered!LayersAssumption
<1>2. shortTerm \in [Layered!SessionIds -> Seq(Layered!Message)]
    BY LayeredTyped
<1>3. /\ shortTerm' \in [Layered!SessionIds -> Seq(Layered!Message)]
      /\ \A q, t : t \in Layered!SessionIds /\ Spoken(q, t)' => Spoken(q, t) \/ (q = c /\ t = s)
    BY <1>1, <1>2, SayAdds
<1>4. TracesApart'
    <2>1. TracesApart
        BY DEF LayeredInv
    <2> QED BY <1>1, <1>3, <2>1, ApartKept, Zenon
<1> QED BY <1>3, <1>4

\* What runs on is one comparison still.
LEMMA RunningKept ==
    ASSUME comparison \in [Comparisons -> LayerComparison], NEW c \in Layered!Running,
           NEW p \in {"next", "asking"},
           comparison'[c].phase = p, comparison'[c].previous = comparison[c].previous,
           \A d \in Comparisons \ {c} : comparison'[d] = comparison[d]
    PROVE  /\ Layered!Running' = Layered!Running
           /\ \A d \in Layered!Running : comparison'[d].previous = comparison[d].previous
<1>1. c \in Comparisons
    BY DEF Layered!Running
<1> QED BY <1>1, Zenon DEF Layered!Running

LEMMA LayeredAskProfile ==
    ASSUME Layered!LayersAssumption, LayeredInv, NEW c \in Comparisons, Layered!AskProfile(c)
    PROVE  LayeredInv'
<1> USE LayeredTyped
<1> DEFINE x == comparison[c]
<1> DEFINE n == madeSessions + 1
<1>1. /\ x.phase = "next" /\ x.left > 0 /\ madeSessions < MaxSessions
      /\ madeSessions' = n /\ activeSession' = n
      /\ temporary' = temporary \cup {n}
      /\ Layered!Say(n, "user", c)
      /\ comparison' = [comparison EXCEPT ![c].phase = "asking", ![c].session = n,
                           ![c].left = @ - 1]
      /\ UNCHANGED <<working, longTerm, memoryFile, memoryRequest, memoryFailed, overlapped>>
    BY Zenon DEF Layered!AskProfile
<1>2. /\ n \in Layered!SessionIds /\ n \in Nat /\ n \in 1 .. n
      /\ 1 .. madeSessions \subseteq 1 .. n /\ n \notin 1 .. madeSessions
    BY <1>1, SMT DEF Layered!SessionIds
<1>3. /\ x.previous \in Layered!SessionIds /\ x.left \in 0 .. Profiles
      /\ "asking" \in ComparisonPhases
    BY ComparisonFields DEF ComparisonPhases
<1>4. x.left - 1 \in 0 .. Profiles
    BY <1>1, <1>3, SMT
<1>5. comparison' = [comparison EXCEPT ![c] =
          [phase |-> "asking", previous |-> x.previous, session |-> n, left |-> x.left - 1]]
    <2>1. comparison' = [comparison EXCEPT ![c] =
              [[[x EXCEPT !.phase = "asking"] EXCEPT !.session = n] EXCEPT !.left = @ - 1]]
        BY <1>1, Zenon
    <2>2. [[[x EXCEPT !.phase = "asking"] EXCEPT !.session = n] EXCEPT !.left = @ - 1]
            = [phase |-> "asking", previous |-> x.previous, session |-> n, left |-> x.left - 1]
        <3>1. x \in LayerComparison
            OBVIOUS
        <3> HIDE DEF x, n
        <3> QED BY <3>1, ComparisonAsks
    <2> QED BY <2>1, <2>2, Zenon
<1>6. /\ comparison' \in [Comparisons -> LayerComparison]
      /\ comparison'[c].phase = "asking" /\ comparison'[c].previous = x.previous
      /\ \A d \in Comparisons \ {c} : comparison'[d] = comparison[d]
    <2> HIDE DEF n, x
    <2> QED BY <1>2, <1>3, <1>4, <1>5, ComparisonChanges, Zenon
<1>7. c \in Layered!Running
    BY <1>1 DEF Layered!Running
<1>8. /\ Layered!Running' = Layered!Running
      /\ \A d \in Layered!Running : comparison'[d].previous = comparison[d].previous
    BY <1>6, <1>7, RunningKept
<1> HIDE DEF n
<1>9. shortTerm' \in [Layered!SessionIds -> Seq(Layered!Message)] /\ TracesApart'
    BY <1>1, <1>2, ComparisonSpeaks
<1>10. /\ temporary \subseteq 1 .. madeSessions
       /\ \A d \in Layered!Running : comparison[d].previous <= madeSessions
       /\ \/ overlapped
          \/ /\ \A d, e \in Layered!Running : d = e
             /\ \A d \in Layered!Running : comparison[d].previous \notin temporary
    BY Zenon DEF LayeredInv, ComparisonsApart
<1>11. \A d \in Layered!Running :
           comparison[d].previous \in Nat /\ comparison[d].previous <= madeSessions
    BY <1>10, ComparisonFields, Zenon DEF Layered!Running
<1>12. \A d \in Layered!Running : comparison[d].previous <= n /\ comparison[d].previous # n
    BY <1>11, SMT DEF n
<1>13. ComparisonsApart'
    <2>1. temporary' \subseteq 1 .. madeSessions'
        BY <1>1, <1>2, <1>10, Zenon
    <2>2. \A d \in Layered!Running' : comparison'[d].previous <= madeSessions'
        BY <1>1, <1>8, <1>12, Zenon
    <2>3. Layered!UserSessionRestored'
        BY <1>7, <1>8, Zenon DEF Layered!UserSessionRestored
    <2>4. overlapped' = overlapped
        BY <1>1
    <2>5. ASSUME ~overlapped
          PROVE  /\ \A d, e \in Layered!Running' : d = e
                 /\ \A d \in Layered!Running' : comparison'[d].previous \notin temporary'
        <3>1. /\ \A d, e \in Layered!Running : d = e
              /\ \A d \in Layered!Running : comparison[d].previous \notin temporary
            BY <1>10, <2>5
        <3>2. \A d \in Layered!Running : comparison'[d].previous \notin temporary \cup {n}
            BY <1>8, <1>12, <3>1, Zenon
        <3> QED BY <1>1, <1>8, <3>1, <3>2, Zenon
    <2> QED BY <2>1, <2>2, <2>3, <2>4, <2>5, Zenon DEF ComparisonsApart
<1>14. activeSession' \in Layered!Sessions'
    BY <1>1, <1>2, Zenon DEF Layered!Sessions
<1>15. Layered!LongTermIsKept'
    BY <1>1, LongTermUntouched, Zenon DEF LayeredInv
<1>16. temporary' \subseteq Layered!SessionIds
    BY <1>1, <1>2, Zenon
<1> QED BY <1>1, <1>2, <1>6, <1>9, <1>13, <1>14, <1>15, <1>16, LayeredAgain, Zenon

LEMMA LayeredProfileAnswered ==
    ASSUME Layered!LayersAssumption, LayeredInv, NEW c \in Comparisons,
           Layered!ProfileAnswered(c)
    PROVE  LayeredInv'
<1> USE LayeredTyped
<1> DEFINE x == comparison[c]
<1>1. /\ x.phase = "asking" /\ Layered!Say(x.session, "assistant", c)
      /\ comparison' = [comparison EXCEPT ![c].phase = "next"]
      /\ UNCHANGED <<madeSessions, activeSession, working, longTerm, memoryFile, memoryRequest>>
      /\ UNCHANGED <<temporary, memoryFailed, overlapped>>
    BY Zenon DEF Layered!ProfileAnswered, Layered!observed
<1>2. /\ x.previous \in Layered!SessionIds /\ x.session \in Layered!SessionIds
      /\ x.left \in 0 .. Profiles /\ "next" \in ComparisonPhases
    BY ComparisonFields DEF ComparisonPhases
<1>3. comparison' = [comparison EXCEPT ![c] =
          [phase |-> "next", previous |-> x.previous, session |-> x.session, left |-> x.left]]
    <2>1. comparison' = [comparison EXCEPT ![c] = [x EXCEPT !.phase = "next"]]
        BY <1>1, Zenon
    <2>2. [x EXCEPT !.phase = "next"]
            = [phase |-> "next", previous |-> x.previous, session |-> x.session,
               left |-> x.left]
        <3>1. x \in LayerComparison
            OBVIOUS
        <3> HIDE DEF x
        <3> QED BY <3>1, ComparisonMoves
    <2> QED BY <2>1, <2>2, Zenon
<1>4. /\ comparison' \in [Comparisons -> LayerComparison]
      /\ comparison'[c].phase = "next" /\ comparison'[c].previous = x.previous
      /\ \A d \in Comparisons \ {c} : comparison'[d] = comparison[d]
    <2> HIDE DEF x
    <2> QED BY <1>2, <1>3, ComparisonChanges, Zenon
<1>5. c \in Layered!Running
    BY <1>1 DEF Layered!Running
<1>6. /\ Layered!Running' = Layered!Running
      /\ \A d \in Layered!Running : comparison'[d].previous = comparison[d].previous
    BY <1>4, <1>5, RunningKept
<1>7. shortTerm' \in [Layered!SessionIds -> Seq(Layered!Message)] /\ TracesApart'
    BY <1>1, <1>2, ComparisonSpeaks
<1>8. ComparisonsApart'
    <2>1. /\ temporary \subseteq 1 .. madeSessions
          /\ \A d \in Layered!Running : comparison[d].previous <= madeSessions
          /\ \/ overlapped
             \/ /\ \A d, e \in Layered!Running : d = e
                /\ \A d \in Layered!Running : comparison[d].previous \notin temporary
        BY Zenon DEF LayeredInv, ComparisonsApart
    <2>2. \A d \in Layered!Running' : comparison'[d].previous <= madeSessions'
        BY <1>1, <1>6, <2>1, Zenon
    <2>3. Layered!UserSessionRestored'
        BY <1>5, <1>6, Zenon DEF Layered!UserSessionRestored
    <2>4. ASSUME ~overlapped
          PROVE  \A d \in Layered!Running' : comparison'[d].previous \notin temporary'
        <3>1. \A d \in Layered!Running : comparison'[d].previous \notin temporary
            BY <1>6, <2>1, <2>4, Zenon
        <3>2. temporary' = temporary
            BY <1>1
        <3> QED BY <1>6, <3>1, <3>2, Zenon
    <2> QED BY <1>1, <1>6, <2>1, <2>2, <2>3, <2>4, Zenon DEF ComparisonsApart
<1>9. activeSession' \in Layered!Sessions'
    BY <1>1, Zenon DEF Layered!Sessions
<1>10. Layered!LongTermIsKept'
    BY <1>1, LongTermUntouched, Zenon DEF LayeredInv
<1> QED BY <1>1, <1>4, <1>7, <1>8, <1>9, <1>10, LayeredAgain, Zenon

LEMMA LayeredEndComparison ==
    ASSUME Layered!LayersAssumption, LayeredInv, NEW c \in Comparisons,
           Layered!EndComparison(c)
    PROVE  LayeredInv'
<1> USE LayeredTyped
<1> DEFINE x == comparison[c]
<1>1. /\ x.phase \in {"next", "asking"}
      /\ activeSession' = x.previous
      /\ comparison' = [comparison EXCEPT ![c].phase = "done"]
      /\ UNCHANGED <<madeSessions, shortTerm, working, longTerm, memoryFile, memoryRequest>>
      /\ UNCHANGED <<temporary, memoryFailed, overlapped>>
    BY Zenon DEF Layered!EndComparison, Layered!observed, Layered!memory
<1>2. /\ x.previous \in Layered!SessionIds /\ x.session \in Layered!SessionIds
      /\ x.left \in 0 .. Profiles /\ "done" \in ComparisonPhases
    BY ComparisonFields DEF ComparisonPhases
<1>3. comparison' = [comparison EXCEPT ![c] =
          [phase |-> "done", previous |-> x.previous, session |-> x.session, left |-> x.left]]
    <2>1. comparison' = [comparison EXCEPT ![c] = [x EXCEPT !.phase = "done"]]
        BY <1>1, Zenon
    <2>2. [x EXCEPT !.phase = "done"]
            = [phase |-> "done", previous |-> x.previous, session |-> x.session,
               left |-> x.left]
        <3>1. x \in LayerComparison
            OBVIOUS
        <3> HIDE DEF x
        <3> QED BY <3>1, ComparisonMoves
    <2> QED BY <2>1, <2>2, Zenon
<1>4. /\ comparison' \in [Comparisons -> LayerComparison]
      /\ comparison'[c].phase = "done"
      /\ \A d \in Comparisons \ {c} : comparison'[d] = comparison[d]
    <2> HIDE DEF x
    <2> QED BY <1>2, <1>3, ComparisonChanges, Zenon
<1>5. c \in Layered!Running
    BY <1>1 DEF Layered!Running
<1>6. /\ Layered!Running' = Layered!Running \ {c}
      /\ \A d \in Layered!Running' : comparison'[d] = comparison[d]
    BY <1>4, Zenon DEF Layered!Running
<1>7. /\ temporary \subseteq 1 .. madeSessions
      /\ \A d \in Layered!Running : comparison[d].previous <= madeSessions
      /\ \/ overlapped
         \/ /\ \A d, e \in Layered!Running : d = e
            /\ \A d \in Layered!Running : comparison[d].previous \notin temporary
    BY Zenon DEF LayeredInv, ComparisonsApart
<1>8. ComparisonsApart'
    <2>1. temporary' \subseteq 1 .. madeSessions'
        BY <1>1, <1>7, Zenon
    <2>2. \A d \in Layered!Running' : comparison'[d].previous <= madeSessions'
        BY <1>1, <1>6, <1>7, Zenon
    <2>3. \/ overlapped'
          \/ /\ \A d, e \in Layered!Running' : d = e
             /\ \A d \in Layered!Running' : comparison'[d].previous \notin temporary'
             /\ activeSession' \notin temporary'
        BY <1>1, <1>5, <1>6, <1>7, Zenon
    <2> QED BY <2>1, <2>2, <2>3, Zenon DEF ComparisonsApart, Layered!UserSessionRestored
<1>9. activeSession' \in Layered!Sessions'
    <2>1. x.previous <= madeSessions
        BY <1>5, <1>7
    <2>2. x.previous \in 1 .. madeSessions
        <3> HIDE DEF x
        <3> QED BY <1>2, <2>1, SMT DEF Layered!SessionIds
    <2> QED BY <1>1, <2>2, Zenon DEF Layered!Sessions
<1>10. TracesApart'
    BY <1>1, ApartKept, Zenon DEF LayeredInv, Spoken
<1>11. Layered!LongTermIsKept'
    BY <1>1, LongTermUntouched, Zenon DEF LayeredInv
<1> QED BY <1>1, <1>4, <1>8, <1>9, <1>10, <1>11, LayeredAgain, Zenon

LEMMA LayeredRestart ==
    ASSUME Layered!LayersAssumption, LayeredInv, Layered!Restart
    PROVE  LayeredInv'
<1> USE LayeredTyped
<1>1. /\ madeSessions' = 1 /\ activeSession' = 1
      /\ shortTerm' = [s \in Layered!SessionIds |-> <<>>]
      /\ working' = [s \in Layered!SessionIds |-> {}]
      /\ longTerm' = memoryFile /\ memoryFile' = memoryFile
      /\ temporary' = {} /\ memoryFailed' = FALSE /\ overlapped' = overlapped
    BY Zenon DEF Layered!Restart
<1>2. 1 \in Layered!SessionIds /\ 1 \in 1 .. 1
    BY SMT DEF Layered!SessionIds
<1>3. ASSUME NEW r \in Requests
      PROVE  memoryRequest'[r] \in LayerTurn /\ \A k \in memoryRequest'[r].kept : memoryFile[k] = r
    <2> DEFINE turn == memoryRequest[r]
    <2> DEFINE p == IF turn.phase = "idle" THEN "idle" ELSE "failed"
    <2> DEFINE k == {x \in turn.kept : memoryFile[x] = r}
    <2> DEFINE new == [phase |-> p, session |-> turn.session, kept |-> k]
    <2>1. turn \in LayerTurn
        OBVIOUS
    <2>2. memoryRequest'[r] = [[turn EXCEPT !.phase = p] EXCEPT !.kept = k]
        BY Zenon DEF Layered!Restart
    <2>3. turn.session \in Layered!SessionIds /\ turn.kept \in SUBSET Keys
        BY <2>1, Zenon DEF LayerTurn
    <2>4. k \in SUBSET Keys /\ \A x \in k : memoryFile[x] = r
        BY <2>3, Zenon
    <2>5. p \in LayerPhases
        BY DEF LayerPhases
    <2> HIDE DEF turn, p, k
    <2>6. [[turn EXCEPT !.phase = p] EXCEPT !.kept = k] = new
        BY <2>1, <2>4, <2>5, TurnGives
    <2>7. new \in LayerTurn
        BY <2>3, <2>4, <2>5, Zenon DEF LayerTurn
    <2>8. new.kept = k
        OBVIOUS
    <2> HIDE DEF new
    <2> QED BY <2>2, <2>4, <2>6, <2>7, <2>8, Zenon
<1>4. ASSUME NEW c \in Comparisons
      PROVE  comparison'[c] \in LayerComparison /\ comparison'[c].phase \notin {"next", "asking"}
    <2> DEFINE x == comparison[c]
    <2> DEFINE p == IF x.phase = "idle" THEN "idle" ELSE "done"
    <2> DEFINE new == [phase |-> p, previous |-> x.previous, session |-> x.session,
                       left |-> x.left]
    <2>1. x \in LayerComparison
        OBVIOUS
    <2>2. comparison'[c] = [x EXCEPT !.phase = p]
        BY Zenon DEF Layered!Restart
    <2>3. /\ x.previous \in Layered!SessionIds /\ x.session \in Layered!SessionIds
          /\ x.left \in 0 .. Profiles
        BY ComparisonFields
    <2>4. p \in ComparisonPhases /\ p \notin {"next", "asking"}
        BY DEF ComparisonPhases
    <2> HIDE DEF x, p
    <2>5. [x EXCEPT !.phase = p] = new
        BY <2>1, ComparisonMoves
    <2>6. new \in LayerComparison
        BY <2>3, <2>4, Zenon DEF LayerComparison
    <2>7. new.phase = p
        BY SMT
    <2> HIDE DEF new
    <2> QED BY <2>2, <2>4, <2>5, <2>6, <2>7, Zenon
<1>5. memoryRequest' \in [Requests -> LayerTurn] /\ comparison' \in [Comparisons -> LayerComparison]
    <2>1. memoryRequest' = [r \in Requests |-> memoryRequest'[r]]
        BY Zenon DEF Layered!Restart
    <2>2. comparison' = [c \in Comparisons |-> comparison'[c]]
        BY Zenon DEF Layered!Restart
    <2> QED BY <1>3, <1>4, <2>1, <2>2, Zenon
<1>6. Layered!Running' = {}
    BY <1>4, Zenon DEF Layered!Running
<1>7. /\ shortTerm' \in [Layered!SessionIds -> Seq(Layered!Message)]
      /\ working' \in [Layered!SessionIds -> SUBSET Requests]
      /\ \A s \in Layered!SessionIds : shortTerm'[s] = <<>> /\ working'[s] = {}
    <2>1. <<>> \in Seq(Layered!Message)
        OBVIOUS
    <2> QED BY <1>1, <2>1, Zenon
<1>8. 1 .. Len(<<>>) = {}
    BY SMT
<1>9. TracesApart'
    BY <1>7, <1>8, Zenon DEF TracesApart, Spoken, Layered!SessionIds
<1>10. Layered!LongTermIsKept'
    BY <1>1, <1>3, Zenon DEF Layered!LongTermIsKept
<1>11. ComparisonsApart'
    BY <1>1, <1>6, Zenon DEF ComparisonsApart, Layered!UserSessionRestored
<1>12. activeSession' \in Layered!Sessions'
    BY <1>1, <1>2, Zenon DEF Layered!Sessions
<1>13. /\ madeSessions' \in Layered!SessionIds /\ longTerm' \in Layered!Entries
       /\ memoryFile' \in Layered!Entries /\ temporary' \subseteq Layered!SessionIds
       /\ memoryFailed' \in BOOLEAN /\ overlapped' \in BOOLEAN
    BY <1>1, <1>2, Zenon
<1> QED BY <1>5, <1>7, <1>9, <1>10, <1>11, <1>12, <1>13, LayeredAgain, Zenon

LEMMA LayeredStep ==
    ASSUME Layered!LayersAssumption, LayeredInv, [Layered!Next]_(Layered!vars)
    PROVE  LayeredInv'
<1>1. CASE UNCHANGED Layered!vars
    <2>1. /\ UNCHANGED <<madeSessions, activeSession, comparison, temporary, overlapped>>
          /\ UNCHANGED <<shortTerm, working, longTerm, memoryFile, memoryRequest, memoryFailed>>
        BY <1>1, Zenon DEF Layered!vars, Layered!memory, Layered!observed
    <2>2. TracesApart'
        BY <2>1, ApartKept, Zenon DEF LayeredInv, Spoken
    <2>3. Layered!LongTermIsKept'
        BY <2>1, LongTermUntouched, Zenon DEF LayeredInv
    <2> QED BY <2>1, <2>2, <2>3, LayeredTyped, SessionsStay, LayeredAgain, Zenon
<1>2. CASE Layered!Next
    BY <1>2, LayeredNewSession, LayeredResets, LayeredResetLongTerm, LayeredStartChat,
       LayeredClassified, LayeredTurnEnds, LayeredStartComparison, LayeredAskProfile,
       LayeredProfileAnswered, LayeredEndComparison, LayeredRestart, Zenon DEF Layered!Next
<1> QED BY <1>1, <1>2

LEMMA LayeredInductive == Spec => []LayeredInv
<1>1. Layered!LayersAssumption
    BY DialogsConstants DEF DialogsAssumption
<1>2. Init => LayeredInv
    BY <1>1, LayeredInit DEF Init
<1>3. [Next]_vars => [Layered!Next]_(Layered!vars)
    BY Zenon DEF Next, Only, vars, Layered!vars, Layered!memory, Layered!observed, memoryVars
<1>4. LayeredInv /\ [Next]_vars => LayeredInv'
    BY <1>1, <1>3, LayeredStep
<1> QED BY <1>2, <1>4, PTL DEF Spec

\* Whichever session is active when the provider answers, what a turn leaves is in
\* the session it began in; the long-term memory keeps what it was given, however
\* many decisions are merged at once; and a comparison alone gives the user the
\* session back (Day11Service and Day12Service).
THEOREM MemoriesAreKept == Spec => []MemoriesHold
<1>1. LayeredInv => MemoriesHold
    <2> SUFFICES ASSUME LayeredInv PROVE MemoriesHold
        OBVIOUS
    <2>1. Layered!SessionsApart
        BY Zenon DEF LayeredInv, TracesApart, Spoken, Layered!SessionsApart
    <2>2. Layered!LongTermIsKept /\ Layered!RestoredByOne
        BY Zenon DEF LayeredInv, ComparisonsApart, Layered!RestoredByOne
    <2> QED BY <2>1, <2>2 DEF MemoriesHold, Of
<1> QED BY <1>1, LayeredInductive, PTL

----------------------------------------------------------------------------
(* The task of Day 13.                                                     *)

\* Steps are done in order, unless the task was moved by hand.
Orderly(task, moved) ==
    task.task \notin moved =>
        /\ task.stage = "planning" => task.completed = {}
        /\ task.stage = "execution" =>
               /\ task.plan > 0 /\ task.step <= task.plan
               /\ task.completed = 1 .. task.step - 1 \/ task.completed = 1 .. task.plan
        /\ task.stage \in {"validation", "done"} => task.plan > 0 /\ task.completed = 1 .. task.plan

\* Objects are those the service or a turn refers to.
OnlyReferenced ==
    /\ \A oo \in Staged!Ids : objects[oo] # NoTask =>
           oo = current \/ \E rr \in Requests : taskRequest[rr] = oo
    /\ \A rr \in Requests : taskRequest[rr] # NoTask => objects[taskRequest[rr]] # NoTask

AllOrderly ==
    /\ \A oo \in Staged!Ids : objects[oo] # NoTask => Orderly(objects[oo], forced)
    /\ taskFile # NoTask => Orderly(taskFile, forced)

StageInv == Staged!TypeOK /\ OnlyReferenced /\ AllOrderly /\ Staged!FileIsCurrent

\* There is always room for a new object.
LEMMA NewObject ==
    ASSUME Staged!StagesAssumption, Staged!TypeOK, OnlyReferenced
    PROVE  Staged!New \in Staged!Ids /\ objects[Staged!New] = NoTask
<1> DEFINE held == {taskRequest[rr] : rr \in Requests}
           all == held \cup {current}
<1>1. /\ MaxObjects \in Nat /\ IsFiniteSet(Requests)
      /\ Cardinality(Requests) + 1 < MaxObjects
    BY DEF Staged!StagesAssumption, Staged!Cardinality, Cardinality, Staged!IsFiniteSet, IsFiniteSet
<1>2. taskRequest \in Surjection(Requests, held)
    <2>1. taskRequest \in [Requests -> held]
        BY Zenon DEF Staged!TypeOK
    <2> QED BY <2>1, Zenon DEF Surjection
<1>3. IsFiniteSet(held) /\ Cardinality(held) <= Cardinality(Requests)
    BY <1>1, <1>2, FS_Surjection
<1>4. Cardinality(Requests) \in Nat /\ Cardinality(held) \in Nat
    BY <1>1, <1>3, FS_CardinalityType
<1>5. IsFiniteSet(all) /\ Cardinality(all) <= Cardinality(Requests) + 1
    <2> HIDE DEF held
    <2>1. IsFiniteSet(all) /\ Cardinality(all) = IF current \in held THEN Cardinality(held) ELSE Cardinality(held) + 1
        BY <1>3, FS_AddElement
    <2> QED BY <1>3, <1>4, <2>1, SMT
<1>6. \E oo \in Staged!Ids : objects[oo] = NoTask
    <2> SUFFICES ASSUME \A oo \in Staged!Ids : objects[oo] # NoTask
                 PROVE  FALSE
        OBVIOUS
    <2>1. Staged!Ids \in SUBSET all
        BY Zenon DEF OnlyReferenced
    <2>2. Cardinality(Staged!Ids) <= Cardinality(all)
        BY <1>5, <2>1, FS_Subset
    <2>3. Cardinality(Staged!Ids) = MaxObjects
        <3>1. Staged!Ids = 1 .. MaxObjects
            BY DEF Staged!Ids
        <3>2. Cardinality(1 .. MaxObjects) = IF 1 > MaxObjects THEN 0 ELSE MaxObjects - 1 + 1
            BY <1>1, FS_Interval
        <3> QED BY <1>1, <1>4, <3>1, <3>2
    <2>4. Cardinality(all) \in Nat
        BY <1>5, FS_CardinalityType
    <2> HIDE DEF all
    <2> QED BY <1>1, <1>4, <1>5, <2>2, <2>3, <2>4, SMT
<1> QED BY <1>6, Zenon DEF Staged!New

\* The records.
LEMMA TaskWith ==
    ASSUME NEW task \in Staged!TaskState
    PROVE  /\ task.stage \in Staged!STAGES /\ task.step \in 1 .. MaxSteps /\ task.plan \in 0 .. MaxSteps
           /\ task.completed \subseteq 1 .. MaxSteps /\ task.task \in 1 .. MaxTasks
           /\ \A p \in BOOLEAN :
                  /\ [task EXCEPT !.paused = p] \in Staged!TaskState
                  /\ [task EXCEPT !.paused = p].task = task.task
                  /\ [task EXCEPT !.paused = p].stage = task.stage
                  /\ [task EXCEPT !.paused = p].step = task.step
                  /\ [task EXCEPT !.paused = p].plan = task.plan
                  /\ [task EXCEPT !.paused = p].completed = task.completed
           /\ \A s \in Staged!STAGES :
                  /\ Staged!Moved(task, s) \in Staged!TaskState
                  /\ Staged!Moved(task, s).task = task.task
                  /\ Staged!Moved(task, s).stage = s
                  /\ Staged!Moved(task, s).step = task.step
                  /\ Staged!Moved(task, s).plan = task.plan
                  /\ Staged!Moved(task, s).completed = task.completed
           /\ \A n \in 1 .. MaxSteps :
                  /\ [task EXCEPT !.step = n] \in Staged!TaskState
                  /\ [task EXCEPT !.step = n].task = task.task
                  /\ [task EXCEPT !.step = n].stage = task.stage
                  /\ [task EXCEPT !.step = n].step = n
                  /\ [task EXCEPT !.step = n].plan = task.plan
                  /\ [task EXCEPT !.step = n].completed = task.completed
           /\ \A done \in SUBSET (1 .. MaxSteps) :
                  /\ [task EXCEPT !.completed = done] \in Staged!TaskState
                  /\ [task EXCEPT !.completed = done].task = task.task
                  /\ [task EXCEPT !.completed = done].stage = task.stage
                  /\ [task EXCEPT !.completed = done].step = task.step
                  /\ [task EXCEPT !.completed = done].plan = task.plan
                  /\ [task EXCEPT !.completed = done].completed = done
           /\ \A n \in 0 .. MaxSteps :
                  /\ [task EXCEPT !.plan = n] \in Staged!TaskState
                  /\ [task EXCEPT !.plan = n].task = task.task
                  /\ [task EXCEPT !.plan = n].stage = task.stage
                  /\ [task EXCEPT !.plan = n].step = task.step
                  /\ [task EXCEPT !.plan = n].plan = n
                  /\ [task EXCEPT !.plan = n].completed = task.completed
<1> DEFINE G == BOOLEAN
           D == SUBSET (1 .. MaxSteps)
           N == 0 .. MaxSteps
           P == 1 .. MaxSteps
           M == 1 .. MaxTasks
           S == [task : M, stage : Staged!STAGES, step : P, plan : N, completed : D, paused : G]
<1>1. Staged!TaskState = S
    BY Zenon DEF Staged!TaskState
<1> HIDE DEF G, D, N, P, M
<1>2. task \in S
    BY <1>1
<1>3. task.stage \in Staged!STAGES /\ task.step \in P /\ task.plan \in N /\ task.completed \in D /\ task.task \in M
    BY <1>2, SMT
<1>4. \A p \in G :
          /\ [task EXCEPT !.paused = p] \in S
          /\ [task EXCEPT !.paused = p].task = task.task
          /\ [task EXCEPT !.paused = p].stage = task.stage
          /\ [task EXCEPT !.paused = p].step = task.step
          /\ [task EXCEPT !.paused = p].plan = task.plan
          /\ [task EXCEPT !.paused = p].completed = task.completed
    BY <1>2, SMT
<1>5. \A s \in Staged!STAGES :
          /\ [task EXCEPT !.stage = s] \in S
          /\ [task EXCEPT !.stage = s].task = task.task
          /\ [task EXCEPT !.stage = s].stage = s
          /\ [task EXCEPT !.stage = s].step = task.step
          /\ [task EXCEPT !.stage = s].plan = task.plan
          /\ [task EXCEPT !.stage = s].completed = task.completed
    BY <1>2, SMT
<1>6. \A n \in P :
          /\ [task EXCEPT !.step = n] \in S
          /\ [task EXCEPT !.step = n].task = task.task
          /\ [task EXCEPT !.step = n].stage = task.stage
          /\ [task EXCEPT !.step = n].step = n
          /\ [task EXCEPT !.step = n].plan = task.plan
          /\ [task EXCEPT !.step = n].completed = task.completed
    BY <1>2, SMT
<1>7. \A done \in D :
          /\ [task EXCEPT !.completed = done] \in S
          /\ [task EXCEPT !.completed = done].task = task.task
          /\ [task EXCEPT !.completed = done].stage = task.stage
          /\ [task EXCEPT !.completed = done].step = task.step
          /\ [task EXCEPT !.completed = done].plan = task.plan
          /\ [task EXCEPT !.completed = done].completed = done
    BY <1>2, SMT
<1>8. \A n \in N :
          /\ [task EXCEPT !.plan = n] \in S
          /\ [task EXCEPT !.plan = n].task = task.task
          /\ [task EXCEPT !.plan = n].stage = task.stage
          /\ [task EXCEPT !.plan = n].step = task.step
          /\ [task EXCEPT !.plan = n].plan = n
          /\ [task EXCEPT !.plan = n].completed = task.completed
    BY <1>2, SMT
<1> HIDE DEF S
<1>9. task.completed \subseteq 1 .. MaxSteps
    BY <1>3, Zenon DEF D
<1>11. \A p \in BOOLEAN :
          /\ [task EXCEPT !.paused = p] \in Staged!TaskState
          /\ [task EXCEPT !.paused = p].task = task.task
          /\ [task EXCEPT !.paused = p].stage = task.stage
          /\ [task EXCEPT !.paused = p].step = task.step
          /\ [task EXCEPT !.paused = p].plan = task.plan
          /\ [task EXCEPT !.paused = p].completed = task.completed
    BY <1>1, <1>4, Zenon DEF G
<1>12. \A s \in Staged!STAGES :
          /\ Staged!Moved(task, s) \in Staged!TaskState
          /\ Staged!Moved(task, s).task = task.task
          /\ Staged!Moved(task, s).stage = s
          /\ Staged!Moved(task, s).step = task.step
          /\ Staged!Moved(task, s).plan = task.plan
          /\ Staged!Moved(task, s).completed = task.completed
    BY <1>1, <1>5 DEF Staged!Moved
<1>13. \A n \in 1 .. MaxSteps :
          /\ [task EXCEPT !.step = n] \in Staged!TaskState
          /\ [task EXCEPT !.step = n].task = task.task
          /\ [task EXCEPT !.step = n].stage = task.stage
          /\ [task EXCEPT !.step = n].step = n
          /\ [task EXCEPT !.step = n].plan = task.plan
          /\ [task EXCEPT !.step = n].completed = task.completed
    BY <1>1, <1>6, Zenon DEF P
<1>14. \A done \in SUBSET (1 .. MaxSteps) :
          /\ [task EXCEPT !.completed = done] \in Staged!TaskState
          /\ [task EXCEPT !.completed = done].task = task.task
          /\ [task EXCEPT !.completed = done].stage = task.stage
          /\ [task EXCEPT !.completed = done].step = task.step
          /\ [task EXCEPT !.completed = done].plan = task.plan
          /\ [task EXCEPT !.completed = done].completed = done
    BY <1>1, <1>7, Zenon DEF D
<1>15. \A n \in 0 .. MaxSteps :
          /\ [task EXCEPT !.plan = n] \in Staged!TaskState
          /\ [task EXCEPT !.plan = n].task = task.task
          /\ [task EXCEPT !.plan = n].stage = task.stage
          /\ [task EXCEPT !.plan = n].step = task.step
          /\ [task EXCEPT !.plan = n].plan = n
          /\ [task EXCEPT !.plan = n].completed = task.completed
    BY <1>1, <1>8, Zenon DEF N
<1>16. task.stage \in Staged!STAGES /\ task.step \in 1 .. MaxSteps /\ task.plan \in 0 .. MaxSteps /\ task.task \in 1 .. MaxTasks
    BY <1>3 DEF P, N, M
<1> QED BY <1>9, <1>11, <1>12, <1>13, <1>14, <1>15, <1>16

LEMMA StageInit ==
    ASSUME Staged!StagesAssumption, Staged!Init
    PROVE  StageInv
<1>1. /\ objects = [oo \in Staged!Ids |-> NoTask] /\ current = NoTask /\ taskFile = NoTask
      /\ taskRequest = [rr \in Requests |-> NoTask]
      /\ taskFailed = FALSE /\ overwritten = FALSE /\ forced = {}
    BY Zenon DEF Staged!Init
<1>2. Staged!TypeOK
    BY <1>1, Zenon DEF Staged!TypeOK
<1>3. OnlyReferenced /\ AllOrderly
    BY <1>1, Zenon DEF OnlyReferenced, AllOrderly
<1>4. Staged!FileIsCurrent
    BY <1>1, Zenon DEF Staged!FileIsCurrent
<1> QED BY <1>2, <1>3, <1>4 DEF StageInv

\* What a step leaves, from the objects as they are before those nobody refers to go.
LEMMA StageEffect ==
    ASSUME Staged!StagesAssumption, StageInv,
           NEW all \in [Staged!Ids -> Staged!TaskState \cup {NoTask}],
           objects' = Staged!Referenced(all),
           current' = NoTask \/ (current' \in Staged!Ids /\ all[current'] # NoTask),
           taskRequest' \in [Requests -> Staged!Ids \cup {NoTask}],
           \A rr \in Requests : taskRequest'[rr] # NoTask => all[taskRequest'[rr]] # NoTask,
           overwritten' \in BOOLEAN, forced' \subseteq 1 .. MaxTasks,
           \A oo \in Staged!Ids : all[oo] # NoTask => Orderly(all[oo], forced'),
           taskFile # NoTask => Orderly(taskFile, forced'),
           \/ /\ taskFile' = taskFile /\ taskFailed' = taskFailed /\ current' = current
              /\ current # NoTask => all[current] = objects[current]
           \/ Staged!Stored(IF current' = NoTask THEN NoTask ELSE all[current'])
    PROVE  StageInv'
<1>1. NoTask \notin Staged!Ids /\ NoTask \notin Staged!TaskState
    BY SMT DEF Staged!StagesAssumption, Staged!Ids
<1>2. \A oo \in Staged!Ids :
          objects'[oo] = IF oo = current' \/ \E rr \in Requests : taskRequest'[rr] = oo
                         THEN all[oo] ELSE NoTask
    BY Zenon DEF Staged!Referenced
<1>3. objects' \in [Staged!Ids -> Staged!TaskState \cup {NoTask}]
    <2>1. objects' = [oo \in Staged!Ids |->
                         IF oo = current' \/ \E rr \in Requests : taskRequest'[rr] = oo
                         THEN all[oo] ELSE NoTask]
        BY Zenon DEF Staged!Referenced
    <2> QED BY <2>1, Zenon
<1>4. current' # NoTask => current' \in Staged!Ids /\ objects'[current'] = all[current'] /\ all[current'] # NoTask
    BY <1>2, Zenon
<1>5. \A rr \in Requests : taskRequest'[rr] # NoTask =>
          taskRequest'[rr] \in Staged!Ids /\ objects'[taskRequest'[rr]] # NoTask
    BY <1>2, Zenon
<1>6. \A oo \in Staged!Ids : objects'[oo] # NoTask =>
          objects'[oo] = all[oo] /\ (oo = current' \/ \E rr \in Requests : taskRequest'[rr] = oo)
    BY <1>2, Zenon
<1> DEFINE held == IF current' = NoTask THEN NoTask ELSE all[current']
<1>7. held \in Staged!TaskState \cup {NoTask}
    BY <1>4, Zenon
<1>8. /\ taskFile \in Staged!TaskState \cup {NoTask} /\ taskFailed \in BOOLEAN
      /\ taskFailed \/ taskFile = IF current = NoTask THEN NoTask ELSE objects[current]
    BY Zenon DEF StageInv, Staged!TypeOK, Staged!FileIsCurrent, Staged!Task
<1>9. \/ taskFile' = held /\ taskFailed' = FALSE
      \/ taskFile' = taskFile /\ taskFailed' = TRUE
      \/ /\ taskFile' = taskFile /\ taskFailed' = taskFailed
         /\ held = IF current = NoTask THEN NoTask ELSE objects[current]
    BY Zenon DEF Staged!Stored
<1>10. held # NoTask => Orderly(held, forced')
    BY <1>4, Zenon
<1>11. /\ taskFile' \in Staged!TaskState \cup {NoTask} /\ taskFailed' \in BOOLEAN
       /\ taskFailed' \/ taskFile' = held
       /\ taskFile' # NoTask => Orderly(taskFile', forced')
    <2> HIDE DEF held
    <2> QED BY <1>7, <1>8, <1>9, <1>10, Zenon
<1>12. held = IF current' = NoTask THEN NoTask ELSE objects'[current']
    BY <1>4, Zenon
<1> HIDE DEF held
<1>13. Staged!TypeOK'
    <2>1. current' \in Staged!Made' \cup {NoTask}
        BY <1>4, Zenon DEF Staged!Made
    <2> QED BY <1>3, <1>11, <2>1, Zenon DEF Staged!TypeOK
<1>14. OnlyReferenced'
    BY <1>5, <1>6, Zenon DEF OnlyReferenced
<1>15. AllOrderly'
    BY <1>6, <1>11, Zenon DEF AllOrderly
<1>16. Staged!FileIsCurrent'
    BY <1>11, <1>12, Zenon DEF Staged!FileIsCurrent, Staged!Task
<1> QED BY <1>13, <1>14, <1>15, <1>16 DEF StageInv

\* The turns that wait are as before, but for one that may have ended.
Releases ==
    /\ taskRequest' \in [Requests -> Staged!Ids \cup {NoTask}]
    /\ \A rr \in Requests : taskRequest'[rr] \in {taskRequest[rr], NoTask}

\* A task becomes or stays the current one, in the object it is in or in a new one.
LEMMA SaveHolds ==
    ASSUME Staged!StagesAssumption, StageInv, NEW oo \in Staged!Ids, objects[oo] # NoTask,
           NEW task \in Staged!TaskState, Staged!Save(oo, task), Releases,
           overwritten' \in BOOLEAN, forced \subseteq forced', forced' \subseteq 1 .. MaxTasks,
           Orderly(task, forced')
    PROVE  StageInv'
<1> DEFINE all == [objects EXCEPT ![oo] = task]
<1>1. /\ objects \in [Staged!Ids -> Staged!TaskState \cup {NoTask}]
      /\ taskRequest \in [Requests -> Staged!Ids \cup {NoTask}]
      /\ NoTask \notin Staged!TaskState
    BY Zenon DEF StageInv, Staged!TypeOK, Staged!StagesAssumption
<1>2. /\ all \in [Staged!Ids -> Staged!TaskState \cup {NoTask}] /\ all[oo] = task
      /\ \A pp \in Staged!Ids : pp # oo => all[pp] = objects[pp]
    BY <1>1, Zenon
<1>3. /\ objects' = Staged!Referenced(all) /\ current' = oo
      /\ Staged!Stored(task)
    BY Zenon DEF Staged!Save
<1>4. \A kept : Orderly(kept, forced) => Orderly(kept, forced')
    BY Zenon DEF Orderly
<1>5. \A pp \in Staged!Ids : all[pp] # NoTask => Orderly(all[pp], forced')
    BY <1>2, <1>4, Zenon DEF StageInv, AllOrderly
<1>6. taskFile # NoTask => Orderly(taskFile, forced')
    BY <1>4, Zenon DEF StageInv, AllOrderly
<1>7. oo # NoTask /\ task # NoTask
    BY <1>1, SMT DEF Staged!Ids, Staged!StagesAssumption
<1>8. \A rr \in Requests : taskRequest'[rr] # NoTask => all[taskRequest'[rr]] # NoTask
    <2>1. \A rr \in Requests : taskRequest'[rr] # NoTask =>
              taskRequest'[rr] \in Staged!Ids /\ objects[taskRequest'[rr]] # NoTask
        BY <1>1, Zenon DEF Releases, StageInv, OnlyReferenced
    <2> HIDE DEF all
    <2> QED BY <1>2, <1>7, <2>1, Zenon
<1>9. Staged!Stored(IF current' = NoTask THEN NoTask ELSE all[current'])
    <2>1. (IF current' = NoTask THEN NoTask ELSE all[current']) = task
        BY <1>2, <1>3, <1>7, Zenon
    <2> QED BY <1>3, <2>1
<1> HIDE DEF all
<1>10. current' \in Staged!Ids /\ all[current'] # NoTask
    BY <1>2, <1>3, <1>7
<1>11. taskRequest' \in [Requests -> Staged!Ids \cup {NoTask}]
    BY DEF Releases
<1> QED BY <1>2, <1>3, <1>5, <1>6, <1>8, <1>9, <1>10, <1>11, StageEffect

LEMMA CopyHolds ==
    ASSUME Staged!StagesAssumption, StageInv, NEW oo \in Staged!Ids, objects[oo] # NoTask,
           NEW before \in Staged!TaskState, NEW task \in Staged!TaskState,
           Staged!SaveCopy(oo, before, task), Releases,
           overwritten' \in BOOLEAN, forced \subseteq forced', forced' \subseteq 1 .. MaxTasks,
           Orderly(before, forced'), Orderly(task, forced')
    PROVE  StageInv'
<1> DEFINE copy == Staged!Copied(oo)
           all == [objects EXCEPT ![oo] = before, ![copy] = task]
<1>1. /\ objects \in [Staged!Ids -> Staged!TaskState \cup {NoTask}]
      /\ taskRequest \in [Requests -> Staged!Ids \cup {NoTask}]
      /\ NoTask \notin Staged!TaskState
    BY Zenon DEF StageInv, Staged!TypeOK, Staged!StagesAssumption
<1>2. copy \in Staged!Ids /\ (copy # oo => objects[copy] = NoTask)
    <2>1. Staged!New \in Staged!Ids /\ objects[Staged!New] = NoTask
        BY NewObject DEF StageInv
    <2> QED BY <2>1, Zenon DEF Staged!Copied
<1>3. /\ objects' = Staged!Referenced(all) /\ current' = copy
      /\ Staged!Stored(task)
    BY Zenon DEF Staged!SaveCopy
<1> HIDE DEF copy
<1>4. /\ all \in [Staged!Ids -> Staged!TaskState \cup {NoTask}] /\ all[copy] = task /\ (copy # oo => all[oo] = before)
      /\ \A pp \in Staged!Ids : pp # oo /\ pp # copy => all[pp] = objects[pp]
    BY <1>1, <1>2, Zenon
<1>5. \A kept : Orderly(kept, forced) => Orderly(kept, forced')
    BY Zenon DEF Orderly
<1> HIDE DEF all
<1>6. \A pp \in Staged!Ids : all[pp] # NoTask => Orderly(all[pp], forced')
    BY <1>4, <1>5, Zenon DEF StageInv, AllOrderly
<1>7. taskFile # NoTask => Orderly(taskFile, forced')
    BY <1>5, Zenon DEF StageInv, AllOrderly
<1>8. copy # NoTask /\ task # NoTask /\ before # NoTask
    BY <1>1, <1>2, SMT DEF Staged!Ids, Staged!StagesAssumption
<1>9. \A rr \in Requests : taskRequest'[rr] # NoTask => all[taskRequest'[rr]] # NoTask
    <2>1. \A rr \in Requests : taskRequest'[rr] # NoTask =>
              taskRequest'[rr] \in Staged!Ids /\ objects[taskRequest'[rr]] # NoTask
        BY <1>1, Zenon DEF Releases, StageInv, OnlyReferenced
    <2> QED BY <1>4, <1>8, <2>1, Zenon
<1>10. Staged!Stored(IF current' = NoTask THEN NoTask ELSE all[current'])
    <2>1. (IF current' = NoTask THEN NoTask ELSE all[current']) = task
        BY <1>3, <1>4, <1>8, Zenon
    <2> QED BY <1>3, <2>1
<1>11. current' \in Staged!Ids /\ all[current'] # NoTask
    BY <1>2, <1>3, <1>4, <1>8
<1>12. taskRequest' \in [Requests -> Staged!Ids \cup {NoTask}]
    BY DEF Releases
<1> QED BY <1>3, <1>4, <1>6, <1>7, <1>9, <1>10, <1>11, <1>12, StageEffect

\* What a turn makes of the task it was given keeps the steps in order.
Planned(task, n) == [task EXCEPT !.plan = n, !.step = 1]
Marked(task) == [task EXCEPT !.completed = @ \cup {task.step}]
NextStep(task) == [task EXCEPT !.step = @ + 1]

LEMMA PlanIsOrderly ==
    ASSUME Staged!StagesAssumption, NEW task \in Staged!TaskState, NEW moved, Orderly(task, moved),
           task.stage = "planning", NEW n \in 1 .. MaxSteps
    PROVE  /\ Planned(task, n) \in Staged!TaskState /\ Orderly(Planned(task, n), moved)
           /\ Staged!Moved(Planned(task, n), "execution") \in Staged!TaskState
           /\ Orderly(Staged!Moved(Planned(task, n), "execution"), moved)
           /\ Staged!Moved(Planned(task, n), "execution").stage = "execution"
<1> DEFINE given == [task EXCEPT !.plan = n]
           planned == [given EXCEPT !.step = 1]
           begun == Staged!Moved(planned, "execution")
<1>1. n \in 0 .. MaxSteps /\ 1 \in 1 .. MaxSteps /\ n > 0
    BY SMT DEF Staged!StagesAssumption
<1>2. /\ given \in Staged!TaskState /\ given.task = task.task /\ given.stage = "planning"
      /\ given.plan = n /\ given.completed = task.completed
    BY <1>1, TaskWith
<1> HIDE DEF given
<1>3. /\ planned \in Staged!TaskState /\ planned.task = task.task /\ planned.stage = "planning"
      /\ planned.plan = n /\ planned.completed = task.completed /\ planned.step = 1
    BY <1>1, <1>2, TaskWith
<1> HIDE DEF planned
<1>4. /\ begun \in Staged!TaskState /\ begun.task = task.task /\ begun.stage = "execution"
      /\ begun.plan = n /\ begun.completed = task.completed /\ begun.step = 1
    <2>1. "execution" \in Staged!STAGES
        BY DEF Staged!STAGES
    <2> QED BY <1>3, <2>1, TaskWith
<1> HIDE DEF begun
<1>5. Orderly(planned, moved)
    BY <1>3 DEF Orderly
<1>6. Orderly(begun, moved)
    <2>1. task.task \notin moved => task.completed = {}
        BY DEF Orderly
    <2>2. {} = 1 .. 1 - 1 /\ 1 <= n
        BY <1>1, SMT
    <2> QED BY <1>1, <1>4, <2>1, <2>2 DEF Orderly
<1>7. Planned(task, n) = planned
    BY DEF planned, given, Planned
<1> QED BY <1>3, <1>4, <1>5, <1>6, <1>7 DEF begun

LEMMA DoneIsOrderly ==
    ASSUME Staged!StagesAssumption, NEW task \in Staged!TaskState, NEW moved, Orderly(task, moved),
           task.stage = "execution"
    PROVE  /\ Marked(task) \in Staged!TaskState
           /\ Marked(task).step = task.step /\ Marked(task).plan = task.plan
           /\ Marked(task).step < Marked(task).plan =>
                  /\ NextStep(Marked(task)) \in Staged!TaskState
                  /\ Orderly(NextStep(Marked(task)), moved)
                  /\ NextStep(Marked(task)).stage = "execution"
           /\ ~(Marked(task).step < Marked(task).plan) =>
                  /\ Orderly(Marked(task), moved)
                  /\ Staged!Moved(Marked(task), "validation") \in Staged!TaskState
                  /\ Orderly(Staged!Moved(Marked(task), "validation"), moved)
                  /\ Staged!Moved(Marked(task), "validation").stage = "validation"
<1> DEFINE marked == Marked(task)
           more == task.completed \cup {task.step}
           next == marked.step + 1
           on == [marked EXCEPT !.step = next]
           over == Staged!Moved(marked, "validation")
<1>1. /\ task.step \in 1 .. MaxSteps /\ task.plan \in 0 .. MaxSteps /\ task.completed \subseteq 1 .. MaxSteps
      /\ MaxSteps \in Nat
    BY TaskWith DEF Staged!StagesAssumption
<1>2. more \in SUBSET (1 .. MaxSteps)
    BY <1>1
<1>3. marked = [task EXCEPT !.completed = more]
    BY DEF Marked
<1> HIDE DEF more, marked
<1>4. /\ marked \in Staged!TaskState /\ marked.task = task.task /\ marked.stage = "execution"
      /\ marked.step = task.step /\ marked.plan = task.plan /\ marked.completed = more
    BY <1>2, <1>3, TaskWith
<1>5. task.task \notin moved =>
          /\ task.plan > 0 /\ task.step <= task.plan
          /\ task.completed = 1 .. task.step - 1 \/ task.completed = 1 .. task.plan
    BY DEF Orderly
<1>6. CASE marked.step < marked.plan
    <2>1. next \in 1 .. MaxSteps /\ next = task.step + 1 /\ next <= task.plan
        BY <1>1, <1>4, <1>6, SMT
    <2> HIDE DEF next
    <2>2. /\ on \in Staged!TaskState /\ on.task = task.task /\ on.stage = "execution"
          /\ on.step = next /\ on.plan = task.plan /\ on.completed = more
        BY <1>4, <2>1, TaskWith
    <2> HIDE DEF on
    <2>3. task.completed = 1 .. task.step - 1 => more = 1 .. next - 1
        BY <1>1, <2>1, SMT DEF more
    <2>4. task.completed = 1 .. task.plan => more = 1 .. task.plan
        BY <1>1, <1>4, <1>6, SMT DEF more
    <2>5. Orderly(on, moved)
        BY <1>5, <2>1, <2>2, <2>3, <2>4 DEF Orderly
    <2>6. NextStep(marked) = on
        BY DEF on, next, NextStep
    <2> QED BY <1>4, <1>6, <2>2, <2>5, <2>6 DEF marked
<1>7. CASE ~(marked.step < marked.plan)
    <2>1. task.task \notin moved => task.step = task.plan
        BY <1>1, <1>4, <1>5, <1>7, SMT
    <2>2. task.task \notin moved => task.plan > 0 /\ more = 1 .. task.plan
        <3>1. task.completed = 1 .. task.step - 1 /\ task.step = task.plan => more = 1 .. task.plan
            BY <1>1, SMT DEF more
        <3>2. task.completed = 1 .. task.plan /\ task.step = task.plan => more = 1 .. task.plan
            BY <1>1, SMT DEF more
        <3> QED BY <1>5, <2>1, <3>1, <3>2
    <2>3. /\ over \in Staged!TaskState /\ over.task = task.task /\ over.stage = "validation"
          /\ over.step = task.step /\ over.plan = task.plan /\ over.completed = more
        <3>1. "validation" \in Staged!STAGES
            BY DEF Staged!STAGES
        <3> QED BY <1>4, <3>1, TaskWith
    <2> HIDE DEF over
    <2>4. Orderly(over, moved)
        BY <2>2, <2>3 DEF Orderly
    <2>5. Orderly(marked, moved)
        BY <1>4, <1>5, <2>2 DEF Orderly
    <2> QED BY <1>4, <1>7, <2>3, <2>4, <2>5 DEF over, marked
<1> QED BY <1>6, <1>7

LEMMA VerdictIsOrderly ==
    ASSUME Staged!StagesAssumption, NEW task \in Staged!TaskState, NEW moved, Orderly(task, moved),
           task.stage = "validation"
    PROVE  LET passed == Staged!Moved(task, "done")
               back == Staged!Moved(task, "execution")
               again == IF back.plan > 0 THEN [back EXCEPT !.step = back.plan] ELSE back
           IN  /\ passed \in Staged!TaskState /\ Orderly(passed, moved) /\ passed.stage = "done"
               /\ again \in Staged!TaskState /\ Orderly(again, moved) /\ again.stage = "execution"
<1> DEFINE passed == Staged!Moved(task, "done")
           back == Staged!Moved(task, "execution")
           last == back.plan
           redo == [back EXCEPT !.step = last]
<1>1. "done" \in Staged!STAGES /\ "execution" \in Staged!STAGES
    BY DEF Staged!STAGES
<1>2. /\ passed \in Staged!TaskState /\ passed.task = task.task /\ passed.stage = "done"
      /\ passed.plan = task.plan /\ passed.completed = task.completed
    BY <1>1, TaskWith
<1>3. /\ back \in Staged!TaskState /\ back.task = task.task /\ back.stage = "execution"
      /\ back.plan = task.plan /\ back.completed = task.completed
    BY <1>1, TaskWith
<1>4. task.task \notin moved => task.plan > 0 /\ task.completed = 1 .. task.plan
    BY DEF Orderly
<1>5. task.plan \in 0 .. MaxSteps /\ MaxSteps \in Nat
    BY TaskWith DEF Staged!StagesAssumption
<1> HIDE DEF passed, back
<1>6. Orderly(passed, moved)
    BY <1>2, <1>4 DEF Orderly
<1>7. CASE back.plan > 0
    <2>1. last \in 1 .. MaxSteps /\ last = task.plan
        BY <1>3, <1>5, <1>7, SMT
    <2> HIDE DEF last
    <2>2. /\ redo \in Staged!TaskState /\ redo.task = task.task /\ redo.stage = "execution"
          /\ redo.step = last /\ redo.plan = task.plan /\ redo.completed = task.completed
        BY <1>3, <2>1, TaskWith
    <2> HIDE DEF redo
    <2>3. last <= task.plan
        BY <1>5, <2>1, SMT
    <2>4. Orderly(redo, moved)
        BY <1>4, <2>2, <2>3 DEF Orderly
    <2>5. (IF back.plan > 0 THEN [back EXCEPT !.step = back.plan] ELSE back) = redo
        BY <1>7 DEF redo, last
    <2> QED BY <1>2, <1>6, <2>2, <2>4, <2>5 DEF passed, back
<1>8. CASE ~(back.plan > 0)
    <2>1. Orderly(back, moved)
        BY <1>3, <1>4, <1>8 DEF Orderly
    <2>2. (IF back.plan > 0 THEN [back EXCEPT !.step = back.plan] ELSE back) = back
        BY <1>8
    <2> QED BY <1>2, <1>3, <1>6, <2>1, <2>2 DEF passed, back
<1> QED BY <1>7, <1>8

\* The task a turn was given, when it is answered.
LEMMA TurnEnds ==
    ASSUME Staged!StagesAssumption, StageInv, NEW rr \in Requests, NEW s, Staged!EndTurn(rr, s)
    PROVE  /\ taskRequest[rr] \in Staged!Ids /\ objects[taskRequest[rr]] # NoTask
           /\ Staged!Held(rr) = objects[taskRequest[rr]]
           /\ Staged!Held(rr) \in Staged!TaskState /\ Staged!Held(rr).stage = s
           /\ Orderly(Staged!Held(rr), forced)
           /\ Releases /\ overwritten' \in BOOLEAN /\ forced' = forced
           /\ forced \subseteq 1 .. MaxTasks
           /\ ~overwritten' => taskRequest[rr] = current
<1>1. /\ taskRequest[rr] # NoTask /\ Staged!Held(rr).stage = s
      /\ taskRequest' = [taskRequest EXCEPT ![rr] = NoTask]
      /\ overwritten' = (overwritten \/ taskRequest[rr] # current)
      /\ forced' = forced
    BY Zenon DEF Staged!EndTurn
<1>2. /\ taskRequest \in [Requests -> Staged!Ids \cup {NoTask}]
      /\ objects \in [Staged!Ids -> Staged!TaskState \cup {NoTask}]
      /\ forced \subseteq 1 .. MaxTasks
    BY Zenon DEF StageInv, Staged!TypeOK
<1>3. taskRequest[rr] \in Staged!Ids /\ objects[taskRequest[rr]] # NoTask
    BY <1>1, <1>2, Zenon DEF StageInv, OnlyReferenced
<1>4. Releases
    BY <1>1, <1>2, Zenon DEF Releases
<1>5. overwritten' \in BOOLEAN
    BY <1>1, Zenon
<1> QED BY <1>1, <1>2, <1>3, <1>4, <1>5, Zenon DEF StageInv, AllOrderly, Staged!Held

\* The current task.
LEMMA CurrentTask ==
    ASSUME StageInv, current # NoTask
    PROVE  /\ current \in Staged!Ids /\ objects[current] # NoTask /\ Staged!Task = objects[current]
           /\ Staged!Task \in Staged!TaskState /\ Orderly(Staged!Task, forced)
BY Zenon DEF StageInv, Staged!TypeOK, Staged!Made, Staged!Task, AllOrderly

LEMMA CreateHolds ==
    ASSUME Staged!StagesAssumption, StageInv, Staged!CreateTask
    PROVE  StageInv' /\ (current # NoTask => Staged!Task.task # Staged!Task'.task)
<1> DEFINE copy == Staged!New
           no == FALSE
<1>1. PICK tt \in (1 .. MaxTasks) \ Staged!Tasks :
          /\ Staged!Save(copy, [task |-> tt, stage |-> "planning", step |-> 1, plan |-> 0,
                                completed |-> {}, paused |-> no])
          /\ forced' = forced \ {tt}
    BY Zenon DEF Staged!CreateTask
<1> DEFINE fresh == [task |-> tt, stage |-> "planning", step |-> 1, plan |-> 0, completed |-> {}, paused |-> no]
           all == [objects EXCEPT ![copy] = fresh]
<1>2. copy \in Staged!Ids /\ objects[copy] = NoTask
    BY NewObject DEF StageInv
<1>3. fresh \in Staged!TaskState /\ fresh.task = tt /\ fresh.stage = "planning" /\ fresh.completed = {}
    <2> DEFINE G == BOOLEAN
               D == SUBSET (1 .. MaxSteps)
    <2>1. no \in G /\ {} \in D
        BY Zenon
    <2>2. 0 \in 0 .. MaxSteps /\ 1 \in 1 .. MaxSteps /\ "planning" \in Staged!STAGES
        BY SMT DEF Staged!StagesAssumption, Staged!STAGES
    <2>3. tt \in 1 .. MaxTasks
        OBVIOUS
    <2> HIDE DEF G, D, no
    <2>4. fresh \in [task : 1 .. MaxTasks, stage : Staged!STAGES, step : 1 .. MaxSteps,
                     plan : 0 .. MaxSteps, completed : D, paused : G]
        BY <2>1, <2>2, <2>3, SMT
    <2> QED BY <2>4 DEF Staged!TaskState, D, G
<1>4. objects' = Staged!Referenced(all) /\ current' = copy /\ Staged!Stored(fresh)
    BY <1>1, Zenon DEF Staged!Save
<1>5. taskRequest' = taskRequest /\ overwritten' = overwritten
    BY Zenon DEF Staged!CreateTask
<1> HIDE DEF copy, fresh
<1>6. /\ objects \in [Staged!Ids -> Staged!TaskState \cup {NoTask}] /\ NoTask \notin Staged!TaskState
      /\ taskRequest \in [Requests -> Staged!Ids \cup {NoTask}]
      /\ taskFile \in Staged!TaskState \cup {NoTask}
      /\ overwritten \in BOOLEAN /\ forced \subseteq 1 .. MaxTasks
    BY Zenon DEF StageInv, Staged!TypeOK, Staged!StagesAssumption
<1>7. /\ all \in [Staged!Ids -> Staged!TaskState \cup {NoTask}] /\ all[copy] = fresh
      /\ \A oo \in Staged!Ids : oo # copy => all[oo] = objects[oo]
    BY <1>2, <1>3, <1>6, Zenon
<1> HIDE DEF all
<1>8. copy # NoTask /\ fresh # NoTask
    BY <1>2, <1>3, <1>6, SMT DEF Staged!Ids, Staged!StagesAssumption
<1>9. /\ \A oo \in Staged!Ids : objects[oo] # NoTask => objects[oo].task # tt
      /\ taskFile # NoTask => taskFile.task # tt
    BY Zenon DEF Staged!Tasks, Staged!Made
<1>10. \A kept : kept.task # tt /\ Orderly(kept, forced) => Orderly(kept, forced')
    BY <1>1, Zenon DEF Orderly
<1>11. Orderly(fresh, forced')
    BY <1>3 DEF Orderly
<1>12. \A oo \in Staged!Ids : all[oo] # NoTask => Orderly(all[oo], forced')
    BY <1>7, <1>9, <1>10, <1>11, Zenon DEF StageInv, AllOrderly
<1>13. taskFile # NoTask => Orderly(taskFile, forced')
    BY <1>9, <1>10, Zenon DEF StageInv, AllOrderly
<1>14. \A rr \in Requests : taskRequest'[rr] # NoTask => all[taskRequest'[rr]] # NoTask
    BY <1>2, <1>5, <1>6, <1>7, Zenon DEF StageInv, OnlyReferenced
<1>15. (IF current' = NoTask THEN NoTask ELSE all[current']) = fresh
    BY <1>4, <1>7, <1>8, Zenon
<1>16. forced' \subseteq 1 .. MaxTasks /\ overwritten' \in BOOLEAN
    BY <1>1, <1>5, <1>6, Zenon
<1>17. current' \in Staged!Ids /\ all[current'] # NoTask
    BY <1>2, <1>4, <1>7, <1>8
<1>18. Staged!Stored(IF current' = NoTask THEN NoTask ELSE all[current'])
    BY <1>4, <1>15
<1>19. StageInv'
    BY <1>4, <1>5, <1>6, <1>7, <1>12, <1>13, <1>14, <1>16, <1>17, <1>18, StageEffect
<1>20. Staged!Task' = fresh
    BY <1>2, <1>4, <1>7, Zenon DEF Staged!Task, Staged!Referenced
<1>21. current # NoTask => Staged!Task.task # tt
    BY <1>9, CurrentTask
<1> QED BY <1>3, <1>19, <1>20, <1>21

\* What becomes of the task a step saves.
LEMMA SavedTask ==
    ASSUME NEW oo, NEW before, NEW task, oo \in Staged!Ids,
           objects \in [Staged!Ids -> Staged!TaskState \cup {NoTask}],
           Staged!Save(oo, task) \/ (Staged!New \in Staged!Ids /\ Staged!SaveCopy(oo, before, task))
    PROVE  Staged!Task' = task
<1>1. CASE Staged!Save(oo, task)
    BY <1>1, Zenon DEF Staged!Save, Staged!Task, Staged!Referenced
<1>2. CASE Staged!New \in Staged!Ids /\ Staged!SaveCopy(oo, before, task)
    <2> DEFINE copy == Staged!Copied(oo)
               all == [objects EXCEPT ![oo] = before, ![copy] = task]
    <2>1. objects' = Staged!Referenced(all) /\ current' = copy /\ copy \in Staged!Ids
        BY <1>2, Zenon DEF Staged!SaveCopy, Staged!Copied
    <2> HIDE DEF copy
    <2>2. all[copy] = task
        BY <2>1, Zenon
    <2> HIDE DEF all
    <2> QED BY <2>1, <2>2, Zenon DEF Staged!Task, Staged!Referenced
<1> QED BY <1>1, <1>2

\* A task that stays the current one moves as the table says.
TableMove ==
    \/ overwritten' \/ taskFailed
    \/ current = NoTask \/ current' = NoTask
    \/ Staged!Task.task # Staged!Task'.task \/ Staged!Task'.stage = Staged!Task.stage
    \/ Staged!Task'.stage \in Staged!ALLOWED_TRANSITIONS[Staged!Task.stage]

LEMMA TurnHolds ==
    ASSUME Staged!StagesAssumption, StageInv, NEW rr \in Requests,
           \/ \E n \in 1 .. MaxSteps : Staged!PlanningTurn(rr, n)
           \/ Staged!ExecutionTurn(rr) \/ Staged!ValidationPassed(rr) \/ Staged!ValidationFailed(rr)
    PROVE  StageInv' /\ TableMove
<1> DEFINE oo == taskRequest[rr]
           held == Staged!Held(rr)
<1>1. objects \in [Staged!Ids -> Staged!TaskState \cup {NoTask}] /\ Staged!New \in Staged!Ids
    BY NewObject, Zenon DEF StageInv, Staged!TypeOK
<1>2. ASSUME NEW s, Staged!EndTurn(rr, s), NEW task \in Staged!TaskState, NEW before \in Staged!TaskState,
             Orderly(task, forced), Orderly(before, forced),
             Staged!Save(oo, task) \/ Staged!SaveCopy(oo, before, task),
             task.stage = s \/ task.stage \in Staged!ALLOWED_TRANSITIONS[s]
      PROVE  StageInv' /\ TableMove
    <2>1. /\ oo \in Staged!Ids /\ objects[oo] # NoTask /\ held = objects[oo] /\ held.stage = s
          /\ Releases /\ overwritten' \in BOOLEAN /\ forced' = forced
          /\ forced \subseteq 1 .. MaxTasks
          /\ ~overwritten' => oo = current
        BY <1>2, TurnEnds
    <2> HIDE DEF oo, held
    <2>2. Orderly(task, forced') /\ Orderly(before, forced') /\ forced \subseteq forced' /\ forced' \subseteq 1 .. MaxTasks
        BY <1>2, <2>1
    <2>3. StageInv'
        <3>1. CASE Staged!Save(oo, task)
            BY <1>2, <2>1, <2>2, <3>1, SaveHolds
        <3>2. CASE Staged!SaveCopy(oo, before, task)
            BY <1>2, <2>1, <2>2, <3>2, CopyHolds
        <3> QED BY <1>2, <3>1, <3>2
    <2>4. Staged!Task' = task
        <3>1. CASE Staged!Save(oo, task)
            BY <1>1, <2>1, <3>1, SavedTask
        <3>2. CASE Staged!SaveCopy(oo, before, task)
            BY <1>1, <2>1, <3>2, SavedTask
        <3> QED BY <1>2, <3>1, <3>2
    <2>5. ~overwritten' => Staged!Task = held
        BY <2>1, Zenon DEF Staged!Task
    <2>6. TableMove
        BY <1>2, <2>1, <2>4, <2>5, Zenon DEF TableMove
    <2> QED BY <2>3, <2>6
<1>3. ASSUME NEW n \in 1 .. MaxSteps, Staged!PlanningTurn(rr, n)
      PROVE  StageInv' /\ TableMove
    <2> DEFINE planned == Planned(held, n)
               begun == Staged!Moved(planned, "execution")
    <2>1. Staged!EndTurn(rr, "planning") /\ Staged!SaveCopy(oo, planned, begun)
        BY <1>3, Zenon DEF Staged!PlanningTurn, Planned
    <2>2. held \in Staged!TaskState /\ held.stage = "planning" /\ Orderly(held, forced)
        BY <2>1, TurnEnds
    <2> HIDE DEF held, oo
    <2>3. /\ planned \in Staged!TaskState /\ Orderly(planned, forced)
          /\ begun \in Staged!TaskState /\ Orderly(begun, forced) /\ begun.stage = "execution"
        BY <2>2, PlanIsOrderly
    <2> HIDE DEF planned, begun
    <2>4. "execution" \in Staged!ALLOWED_TRANSITIONS["planning"]
        BY DEF Staged!ALLOWED_TRANSITIONS, Staged!STAGES
    <2> QED BY <1>2, <2>1, <2>3, <2>4
<1>4. CASE Staged!ExecutionTurn(rr)
    <2> DEFINE marked == Marked(held)
               on == NextStep(marked)
               over == Staged!Moved(marked, "validation")
    <2>1. /\ Staged!EndTurn(rr, "execution")
          /\ IF marked.step < marked.plan THEN Staged!Save(oo, on) ELSE Staged!SaveCopy(oo, marked, over)
        BY <1>4, Zenon DEF Staged!ExecutionTurn, Marked, NextStep
    <2>2. held \in Staged!TaskState /\ held.stage = "execution" /\ Orderly(held, forced)
        BY <2>1, TurnEnds
    <2> HIDE DEF held, oo
    <2>3. /\ marked \in Staged!TaskState
          /\ marked.step < marked.plan =>
                 on \in Staged!TaskState /\ Orderly(on, forced) /\ on.stage = "execution"
          /\ ~(marked.step < marked.plan) =>
                 /\ Orderly(marked, forced)
                 /\ over \in Staged!TaskState /\ Orderly(over, forced) /\ over.stage = "validation"
        BY <2>2, DoneIsOrderly
    <2> HIDE DEF marked, on, over
    <2>4. "validation" \in Staged!ALLOWED_TRANSITIONS["execution"]
        BY DEF Staged!ALLOWED_TRANSITIONS, Staged!STAGES
    <2>5. CASE marked.step < marked.plan
        BY <1>2, <2>1, <2>3, <2>5
    <2>6. CASE ~(marked.step < marked.plan)
        BY <1>2, <2>1, <2>3, <2>4, <2>6
    <2> QED BY <2>5, <2>6
<1>5. CASE Staged!ValidationPassed(rr) \/ Staged!ValidationFailed(rr)
    <2> DEFINE passed == Staged!Moved(held, "done")
               back == Staged!Moved(held, "execution")
               again == IF back.plan > 0 THEN [back EXCEPT !.step = back.plan] ELSE back
    <2>1. /\ Staged!EndTurn(rr, "validation")
          /\ Staged!SaveCopy(oo, held, passed) \/ Staged!SaveCopy(oo, held, again)
        BY <1>5, Zenon DEF Staged!ValidationPassed, Staged!ValidationFailed
    <2>2. held \in Staged!TaskState /\ held.stage = "validation" /\ Orderly(held, forced)
        BY <2>1, TurnEnds
    <2> HIDE DEF held, oo
    <2>3. /\ passed \in Staged!TaskState /\ Orderly(passed, forced) /\ passed.stage = "done"
          /\ again \in Staged!TaskState /\ Orderly(again, forced) /\ again.stage = "execution"
        BY <2>2, VerdictIsOrderly
    <2> HIDE DEF passed, again
    <2>4. "done" \in Staged!ALLOWED_TRANSITIONS["validation"] /\ "execution" \in Staged!ALLOWED_TRANSITIONS["validation"]
        BY DEF Staged!ALLOWED_TRANSITIONS, Staged!STAGES
    <2> QED BY <1>2, <2>1, <2>2, <2>3, <2>4
<1> QED BY <1>3, <1>4, <1>5

\* What the user does without the model.
LEMMA HandHolds ==
    ASSUME Staged!StagesAssumption, StageInv,
           Staged!Pause \/ Staged!Resume \/ \E s \in Staged!STAGES : Staged!Transition(s)
    PROVE  StageInv' /\ TableMove
<1> DEFINE task == Staged!Task
<1>1. current # NoTask /\ taskRequest' = taskRequest /\ overwritten' = overwritten
    BY Zenon DEF Staged!Pause, Staged!Resume, Staged!Transition
<1>2. /\ current \in Staged!Ids /\ objects[current] # NoTask
      /\ task \in Staged!TaskState /\ Orderly(task, forced)
    BY <1>1, CurrentTask
<1>3. /\ objects \in [Staged!Ids -> Staged!TaskState \cup {NoTask}] /\ Staged!New \in Staged!Ids
      /\ taskRequest \in [Requests -> Staged!Ids \cup {NoTask}]
      /\ overwritten \in BOOLEAN /\ forced \subseteq 1 .. MaxTasks
    BY NewObject, Zenon DEF StageInv, Staged!TypeOK
<1>4. Releases /\ overwritten' \in BOOLEAN
    BY <1>1, <1>3, Zenon DEF Releases
<1> HIDE DEF task
<1>5. ASSUME NEW p \in BOOLEAN, Staged!Save(current, [task EXCEPT !.paused = p]), forced' = forced
      PROVE  StageInv' /\ TableMove
    <2> DEFINE held == [task EXCEPT !.paused = p]
    <2>1. /\ held \in Staged!TaskState /\ held.task = task.task /\ held.stage = task.stage
          /\ held.step = task.step /\ held.plan = task.plan /\ held.completed = task.completed
        BY <1>2, TaskWith
    <2> HIDE DEF held
    <2>2. Orderly(held, forced')
        BY <1>2, <1>5, <2>1 DEF Orderly
    <2>3. Staged!Save(current, held) /\ forced \subseteq forced' /\ forced' \subseteq 1 .. MaxTasks
        BY <1>3, <1>5 DEF held
    <2>4. StageInv'
        BY <1>2, <1>4, <2>1, <2>2, <2>3, SaveHolds
    <2>5. Staged!Task' = held
        BY <1>2, <1>3, <2>3, SavedTask
    <2>6. Staged!Task'.stage = Staged!Task.stage
        BY <2>1, <2>5 DEF task
    <2> QED BY <2>4, <2>6 DEF TableMove
<1>6. ASSUME NEW s \in Staged!STAGES, Staged!Transition(s) PROVE StageInv' /\ TableMove
    <2> DEFINE next == Staged!Moved(task, s)
    <2>1. /\ s \in Staged!ALLOWED_TRANSITIONS[task.stage]
          /\ Staged!SaveCopy(current, task, next) /\ forced' = forced \cup {task.task}
        BY <1>6, Zenon DEF Staged!Transition, Staged!CanMove, task
    <2>2. /\ next \in Staged!TaskState /\ next.task = task.task /\ next.stage = s
          /\ task.task \in 1 .. MaxTasks
        BY <1>2, TaskWith
    <2> HIDE DEF next
    <2>3. Orderly(next, forced') /\ Orderly(task, forced')
        BY <2>1, <2>2, Zenon DEF Orderly
    <2>4. forced \subseteq forced' /\ forced' \subseteq 1 .. MaxTasks
        BY <1>3, <2>1, <2>2, Zenon
    <2>5. StageInv'
        BY <1>2, <1>4, <2>1, <2>2, <2>3, <2>4, CopyHolds
    <2>6. Staged!Task' = next
        BY <1>2, <1>3, <2>1, SavedTask
    <2>7. Staged!Task'.stage \in Staged!ALLOWED_TRANSITIONS[Staged!Task.stage]
        BY <2>1, <2>2, <2>6 DEF task
    <2> QED BY <2>5, <2>7 DEF TableMove
<1>7. CASE Staged!Pause \/ Staged!Resume
    <2>1. PICK p \in BOOLEAN : Staged!Save(current, [task EXCEPT !.paused = p]) /\ forced' = forced
        BY <1>7, Zenon DEF Staged!Pause, Staged!Resume, task
    <2> QED BY <1>5, <2>1
<1> QED BY <1>6, <1>7

LEMMA StageStep ==
    ASSUME Staged!StagesAssumption, StageInv, Staged!Next
    PROVE  StageInv' /\ TableMove
<1>1. /\ objects \in [Staged!Ids -> Staged!TaskState \cup {NoTask}]
      /\ current \in Staged!Made \cup {NoTask}
      /\ taskFile \in Staged!TaskState \cup {NoTask}
      /\ taskRequest \in [Requests -> Staged!Ids \cup {NoTask}]
      /\ taskFailed \in BOOLEAN /\ overwritten \in BOOLEAN /\ forced \subseteq 1 .. MaxTasks
      /\ NoTask \notin Staged!TaskState /\ NoTask \notin Staged!Ids
    BY SMT DEF StageInv, Staged!TypeOK, Staged!StagesAssumption, Staged!Ids
<1>2. /\ \A oo \in Staged!Ids : objects[oo] # NoTask => Orderly(objects[oo], forced)
      /\ taskFile # NoTask => Orderly(taskFile, forced)
      /\ \A rr \in Requests : taskRequest[rr] # NoTask => objects[taskRequest[rr]] # NoTask
      /\ current # NoTask => current \in Staged!Ids /\ objects[current] # NoTask
    BY <1>1, Zenon DEF StageInv, OnlyReferenced, AllOrderly, Staged!Made
<1>3. CASE Staged!CreateTask
    BY <1>3, CreateHolds, Zenon DEF TableMove
<1>4. CASE Staged!Reset
    <2>1. /\ current' = NoTask /\ taskRequest' = taskRequest /\ overwritten' = overwritten
          /\ forced' = forced /\ objects' = Staged!Referenced(objects) /\ Staged!Stored(NoTask)
        BY <1>4, Zenon DEF Staged!Reset
    <2>2. Staged!Stored(IF current' = NoTask THEN NoTask ELSE objects[current'])
        <3>1. (IF current' = NoTask THEN NoTask ELSE objects[current']) = NoTask
            BY <2>1
        <3> QED BY <2>1, <3>1
    <2>3. taskRequest' \in [Requests -> Staged!Ids \cup {NoTask}] /\ overwritten' \in BOOLEAN /\ forced' \subseteq 1 .. MaxTasks
        BY <1>1, <2>1, Zenon
    <2>4. /\ \A rr \in Requests : taskRequest'[rr] # NoTask => objects[taskRequest'[rr]] # NoTask
          /\ \A oo \in Staged!Ids : objects[oo] # NoTask => Orderly(objects[oo], forced')
          /\ taskFile # NoTask => Orderly(taskFile, forced')
        BY <1>2, <2>1
    <2>5. StageInv'
        BY <1>1, <2>1, <2>2, <2>3, <2>4, StageEffect
    <2> QED BY <2>1, <2>5 DEF TableMove
<1>5. ASSUME NEW rr \in Requests, Staged!TurnFails(rr) PROVE StageInv' /\ TableMove
    <2>1. /\ current' = current /\ taskRequest' = [taskRequest EXCEPT ![rr] = NoTask]
          /\ overwritten' = overwritten /\ forced' = forced
          /\ taskFile' = taskFile /\ taskFailed' = taskFailed
          /\ objects' = Staged!Referenced(objects)
        BY <1>5, Zenon DEF Staged!TurnFails
    <2>2. taskRequest' \in [Requests -> Staged!Ids \cup {NoTask}] /\ overwritten' \in BOOLEAN /\ forced' \subseteq 1 .. MaxTasks
        BY <1>1, <2>1, Zenon
    <2>3. /\ \A ss \in Requests : taskRequest'[ss] # NoTask => objects[taskRequest'[ss]] # NoTask
          /\ \A oo \in Staged!Ids : objects[oo] # NoTask => Orderly(objects[oo], forced')
          /\ taskFile # NoTask => Orderly(taskFile, forced')
          /\ current' = NoTask \/ (current' \in Staged!Ids /\ objects[current'] # NoTask)
        BY <1>1, <1>2, <2>1, Zenon
    <2>4. StageInv'
        BY <1>1, <2>1, <2>2, <2>3, StageEffect
    <2>5. current # NoTask => Staged!Task' = Staged!Task
        BY <1>2, <2>1, Zenon DEF Staged!Task, Staged!Referenced
    <2> QED BY <2>4, <2>5, Zenon DEF TableMove
<1>6. ASSUME NEW rr \in Requests, Staged!StartTurn(rr) PROVE StageInv' /\ TableMove
    <2>1. /\ current # NoTask /\ current' = current /\ objects' = objects /\ overwritten' = overwritten
          /\ forced' = forced /\ taskFile' = taskFile /\ taskFailed' = taskFailed
          /\ taskRequest[rr] = NoTask /\ taskRequest' = [taskRequest EXCEPT ![rr] = current]
        BY <1>6, Zenon DEF Staged!StartTurn
    <2>2. taskRequest' \in [Requests -> Staged!Ids \cup {NoTask}]
        BY <1>1, <1>2, <2>1, Zenon
    <2>3. Staged!TypeOK'
        <3>1. Staged!Made' = Staged!Made
            BY <2>1, Zenon DEF Staged!Made
        <3> QED BY <1>1, <2>1, <2>2, <3>1, Zenon DEF Staged!TypeOK
    <2>4. OnlyReferenced'
        <3>1. \A ss \in Requests : taskRequest'[ss] = IF ss = rr THEN current ELSE taskRequest[ss]
            BY <1>1, <2>1, Zenon
        <3>2. \A oo \in Staged!Ids : objects[oo] # NoTask =>
                  oo = current \/ \E ss \in Requests \ {rr} : taskRequest[ss] = oo
            BY <1>1, <2>1, Zenon DEF StageInv, OnlyReferenced
        <3> QED BY <1>2, <2>1, <3>1, <3>2, Zenon DEF OnlyReferenced
    <2>5. AllOrderly'
        BY <1>2, <2>1, Zenon DEF AllOrderly
    <2>6. Staged!FileIsCurrent' /\ Staged!Task' = Staged!Task
        BY <2>1, Zenon DEF StageInv, Staged!FileIsCurrent, Staged!Task
    <2> QED BY <2>3, <2>4, <2>5, <2>6 DEF StageInv, TableMove
<1>7. CASE Staged!Restart
    <2>1. /\ objects' = [oo \in Staged!Ids |-> IF oo = 1 THEN taskFile ELSE NoTask]
          /\ current' = IF taskFile = NoTask THEN NoTask ELSE 1
          /\ taskRequest' = [rr \in Requests |-> NoTask]
          /\ taskFailed' = FALSE /\ overwritten' = FALSE
          /\ forced' = (IF taskFile = NoTask THEN {} ELSE forced \cap {taskFile.task})
          /\ taskFile' = taskFile
        BY <1>7, Zenon DEF Staged!Restart
    <2>2. 1 \in Staged!Ids
        <3>1. Cardinality(Requests) \in Nat /\ Cardinality(Requests) + 1 < MaxObjects /\ MaxObjects \in Nat
            <4>1. IsFiniteSet(Requests) /\ Cardinality(Requests) + 1 < MaxObjects /\ MaxObjects \in Nat
                BY DEF Staged!StagesAssumption, Staged!Cardinality, Cardinality, Staged!IsFiniteSet, IsFiniteSet
            <4> QED BY <4>1, FS_CardinalityType
        <3> QED BY <3>1, SMT DEF Staged!Ids
    <2>3. objects'[1] = taskFile /\ \A oo \in Staged!Ids : objects'[oo] # NoTask => oo = 1 /\ taskFile # NoTask
        BY <2>1, <2>2, Zenon
    <2>4. taskFile # NoTask => Orderly(taskFile, forced')
        BY <1>2, <2>1, Zenon DEF Orderly
    <2>5. Staged!TypeOK'
        <3>1. objects' \in [Staged!Ids -> Staged!TaskState \cup {NoTask}]
            BY <1>1, <2>1, Zenon
        <3>2. current' \in Staged!Made' \cup {NoTask}
            BY <2>1, <2>2, <2>3, Zenon DEF Staged!Made
        <3>3. taskRequest' \in [Requests -> Staged!Ids \cup {NoTask}]
            BY <2>1, Zenon
        <3>4. forced' \subseteq 1 .. MaxTasks
            BY <1>1, <2>1, Zenon
        <3> QED BY <1>1, <2>1, <3>1, <3>2, <3>3, <3>4, Zenon DEF Staged!TypeOK
    <2>6. OnlyReferenced'
        <3>1. \A rr \in Requests : taskRequest'[rr] = NoTask
            BY <2>1, Zenon
        <3>2. \A oo \in Staged!Ids : objects'[oo] # NoTask => oo = current'
            BY <2>1, <2>3, Zenon
        <3> QED BY <3>1, <3>2, Zenon DEF OnlyReferenced
    <2>7. AllOrderly'
        BY <2>1, <2>3, <2>4, Zenon DEF AllOrderly
    <2>8. Staged!FileIsCurrent'
        <3>1. CASE taskFile = NoTask
            BY <2>1, <3>1, Zenon DEF Staged!FileIsCurrent
        <3>2. CASE taskFile # NoTask
            <4>1. current' = 1 /\ 1 # NoTask
                BY <1>1, <2>1, <2>2, <3>2, Zenon
            <4>2. taskFile' = IF current' = NoTask THEN NoTask ELSE objects'[current']
                BY <2>1, <2>3, <4>1, Zenon
            <4> QED BY <4>2, Zenon DEF Staged!FileIsCurrent, Staged!Task
        <3> QED BY <3>1, <3>2
    <2>9. TableMove
        <3> SUFFICES ASSUME ~taskFailed, current # NoTask, current' # NoTask
                     PROVE  Staged!Task' = Staged!Task
            BY Zenon DEF TableMove
        <3>1. taskFile = Staged!Task
            BY Zenon DEF StageInv, Staged!FileIsCurrent
        <3>2. current' = 1
            BY <2>1, Zenon
        <3> QED BY <2>3, <3>1, <3>2, Zenon DEF Staged!Task
    <2> QED BY <2>5, <2>6, <2>7, <2>8, <2>9 DEF StageInv
<1> QED BY <1>3, <1>4, <1>5, <1>6, <1>7, TurnHolds, HandHolds, Zenon DEF Staged!Next

LEMMA StageInductive == Spec => []StageInv
<1>1. Staged!StagesAssumption
    BY DialogsConstants DEF DialogsAssumption
<1>2. Init => StageInv
    <2>1. Init => Staged!Init
        BY Zenon DEF Init
    <2> QED BY <1>1, <2>1, StageInit
<1>3. [Next]_vars => [Staged!Next]_(Staged!vars)
    BY Zenon DEF Next, Only, vars, Staged!vars, taskVars
<1>4. StageInv /\ UNCHANGED Staged!vars => StageInv'
    <2> SUFFICES ASSUME StageInv, UNCHANGED Staged!vars
                 PROVE  StageInv'
        OBVIOUS
    <2>1. /\ objects' = objects /\ current' = current /\ taskFile' = taskFile
          /\ taskRequest' = taskRequest /\ taskFailed' = taskFailed
          /\ overwritten' = overwritten /\ forced' = forced
        BY Zenon DEF Staged!vars
    <2>2. Staged!TypeOK' /\ OnlyReferenced'
        BY <2>1, Zenon DEF StageInv, Staged!TypeOK, Staged!Made, OnlyReferenced
    <2>3. AllOrderly' /\ Staged!FileIsCurrent'
        BY <2>1, Zenon DEF StageInv, AllOrderly, Staged!FileIsCurrent, Staged!Task
    <2> QED BY <2>2, <2>3 DEF StageInv
<1>5. StageInv /\ [Next]_vars => StageInv'
    BY <1>1, <1>3, <1>4, StageStep
<1> QED BY <1>2, <1>5, PTL DEF Spec

\* Whatever turns overlap with pauses, transitions, resets and restarts: the file has
\* the current task unless writing failed, a task nobody moved by hand does its steps
\* in order, and a current task moves as the table says.
THEOREM StagesAreKept == Spec => StagesHold
<1>1. Staged!StagesAssumption
    BY DialogsConstants DEF DialogsAssumption
<1>2. StageInv => Staged!FileIsCurrent /\ Staged!StepsInOrder
    <2> SUFFICES ASSUME StageInv, NEW oo \in Staged!Made
                 PROVE  LET task == objects[oo]
                        IN  task.task \in forced
                            \/ CASE task.stage = "planning"  -> task.completed = {}
                                 [] task.stage = "execution" ->
                                        task.completed \in {1 .. (task.step - 1), 1 .. task.plan}
                                 [] OTHER -> task.plan > 0 /\ task.completed = 1 .. task.plan
        BY Zenon DEF StageInv, Staged!StepsInOrder
    <2> DEFINE task == objects[oo]
    <2>1. Orderly(task, forced) /\ task \in Staged!TaskState
        BY Zenon DEF StageInv, AllOrderly, Staged!Made, Staged!TypeOK
    <2> HIDE DEF task
    <2>2. task.stage \in {"planning", "execution", "validation", "done"}
        BY <2>1, TaskWith DEF Staged!STAGES
    <2>3. task.task \in forced
          \/ CASE task.stage = "planning"  -> task.completed = {}
               [] task.stage = "execution" ->
                      task.completed \in {1 .. (task.step - 1), 1 .. task.plan}
               [] OTHER -> task.plan > 0 /\ task.completed = 1 .. task.plan
        BY <2>1, <2>2 DEF Orderly
    <2> QED BY <2>3 DEF task
<1>3. StageInv /\ [Next]_vars => [TableMove]_(Staged!vars)
    <2>1. [Next]_vars => [Staged!Next]_(Staged!vars)
        BY Zenon DEF Next, Only, vars, Staged!vars, taskVars
    <2>2. StageInv /\ Staged!Next => TableMove
        BY <1>1, StageStep
    <2> QED BY <2>1, <2>2, Zenon
<1>4. Spec => [][TableMove]_(Staged!vars)
    <2>1. Spec => [][Next]_vars
        BY PTL DEF Spec
    <2> QED BY <1>3, <2>1, StageInductive, PTL
<1>5. Spec => Staged!OnlyTableMoves
    BY <1>4 DEF Staged!OnlyTableMoves, TableMove
<1>6. Spec => []Staged!FileIsCurrent /\ []Staged!StepsInOrder
    BY <1>2, StageInductive, PTL
<1> QED BY <1>5, <1>6 DEF StagesHold

----------------------------------------------------------------------------
(* The branches of Day 10.                                                 *)

\* What holds of a number when it holds of the smaller ones holds of all.
LEMMA EveryNumber ==
    ASSUME NEW D, D \subseteq Nat, NEW T,
           \A n \in D : (\A m \in D : m < n => m \in T) => n \in T
    PROVE  D \subseteq T
<1> DEFINE R == {ss \in Nat \X Nat : ss[1] < ss[2]}
           E == D \ T
<1>1. IsWellFoundedOn(R, Nat)
    BY NatLessThanWellFounded DEF OpToRel
<1>2. \A x, y \in Nat : x < y => <<x, y>> \in R
    OBVIOUS
<1> HIDE DEF R
<1>3. CASE E = {}
    BY <1>3
<1>4. CASE E # {}
    <2>1. E \subseteq Nat
        OBVIOUS
    <2>2. PICK n \in E : \A m \in E : ~(<<m, n>> \in R)
        BY <1>1, <1>4, <2>1, WFMin
    <2>3. \A m \in D : m < n => m \in T
        BY <1>2, <2>2
    <2> QED BY <2>2, <2>3
<1> QED BY <1>3, <1>4

\* The messages of a branch among the first k.
OwnSteps(list, b, own, k) ==
    own = [i \in 0 .. k |->
              IF i = 0 THEN <<>>
              ELSE IF list[i].branch = b THEN Append(own[i - 1], list[i]) ELSE own[i - 1]]

OwnTaken(list, b, own, k) ==
    /\ own[0] = <<>>
    /\ \A i \in 1 .. k :
          own[i] = IF list[i].branch = b THEN Append(own[i - 1], list[i]) ELSE own[i - 1]

LEMMA OwnStep ==
    ASSUME NEW list, NEW b, NEW k \in Nat, NEW own, OwnSteps(list, b, own, k)
    PROVE  OwnTaken(list, b, own, k)
<1>1. own = [i \in 0 .. k |->
              IF i = 0 THEN <<>>
              ELSE IF list[i].branch = b THEN Append(own[i - 1], list[i]) ELSE own[i - 1]]
    BY Zenon DEF OwnSteps
<1>2. 0 \in 0 .. k /\ \A i \in 1 .. k : i \in 0 .. k /\ i # 0
    OBVIOUS
<1> DEFINE Next_(i) == IF list[i].branch = b THEN Append(own[i - 1], list[i]) ELSE own[i - 1]
<1>3. own = [i \in 0 .. k |-> IF i = 0 THEN <<>> ELSE Next_(i)]
    BY <1>1, Zenon
<1>4. own[0] = <<>> /\ \A i \in 1 .. k : own[i] = Next_(i)
    <2> HIDE DEF Next_
    <2>1. \A i \in 0 .. k : own[i] = IF i = 0 THEN <<>> ELSE Next_(i)
        BY <1>3, Zenon
    <2> QED BY <1>2, <2>1, Zenon
<1> QED BY <1>4, Zenon DEF OwnTaken

LEMMA OwnExists ==
    ASSUME NEW n \in Nat, NEW list, NEW b
    PROVE  \E own : OwnSteps(list, b, own, n)
<1> DEFINE T == {k \in Nat : \E own : OwnSteps(list, b, own, k)}
<1>1. ASSUME NEW k \in Nat, \A m \in Nat : m < k => m \in T
      PROVE  k \in T
    <2>1. CASE k = 0
        <3> DEFINE own == [i \in 0 .. 0 |-> <<>>]
        <3>1. 0 .. 0 = {0}
            OBVIOUS
        <3>2. own = [i \in 0 .. 0 |->
                        IF i = 0 THEN <<>>
                        ELSE IF list[i].branch = b THEN Append(own[i - 1], list[i]) ELSE own[i - 1]]
            BY <3>1, Zenon
        <3>3. OwnSteps(list, b, own, 0)
            BY <3>2, Zenon DEF OwnSteps
        <3> QED BY <2>1, <3>3
    <2>2. CASE k # 0
        <3>1. k - 1 \in Nat /\ k - 1 < k
            BY <2>2
        <3>2. PICK old : OwnSteps(list, b, old, k - 1)
            BY <1>1, <3>1
        <3> DEFINE new == IF list[k].branch = b THEN Append(old[k - 1], list[k]) ELSE old[k - 1]
                   own == [i \in 0 .. k |-> IF i = k THEN new ELSE old[i]]
        <3>3. /\ old[0] = <<>>
              /\ \A i \in 1 .. k - 1 :
                    old[i] = IF list[i].branch = b THEN Append(old[i - 1], list[i]) ELSE old[i - 1]
            <4>1. OwnTaken(list, b, old, k - 1)
                BY <3>1, <3>2, OwnStep
            <4> QED BY <4>1, Zenon DEF OwnTaken
        <3>4. /\ \A i \in 0 .. k : i # 0 => i - 1 \in 0 .. k /\ i - 1 # k
              /\ \A i \in 0 .. k : i # 0 /\ i # k => i \in 1 .. k - 1
              /\ k \in 0 .. k /\ 0 \in 0 .. k
            BY <3>1
        <3> HIDE DEF new
        <3>5. \A i \in 0 .. k : own[i] = IF i = k THEN new ELSE old[i]
            BY Zenon
        <3>6. \A i \in 0 .. k :
                 own[i] = IF i = 0 THEN <<>>
                          ELSE IF list[i].branch = b THEN Append(own[i - 1], list[i]) ELSE own[i - 1]
            <4> TAKE i \in 0 .. k
            <4>1. CASE i = 0
                BY <2>2, <3>3, <3>5, <4>1, Zenon
            <4>2. CASE i # 0
                <5>1. own[i - 1] = old[i - 1]
                    BY <3>4, <3>5, <4>2, Zenon
                <5>2. own[i] = IF list[i].branch = b THEN Append(old[i - 1], list[i]) ELSE old[i - 1]
                    <6>1. CASE i = k
                        BY <3>5, <6>1, Zenon DEF new
                    <6>2. CASE i # k
                        BY <3>3, <3>4, <3>5, <4>2, <6>2, Zenon
                    <6> QED BY <6>1, <6>2
                <5> QED BY <4>2, <5>1, <5>2, Zenon
            <4> QED BY <4>1, <4>2
        <3>7. own = [i \in 0 .. k |->
                        IF i = 0 THEN <<>>
                        ELSE IF list[i].branch = b THEN Append(own[i - 1], list[i]) ELSE own[i - 1]]
            <4> HIDE DEF own
            <4>1. own = [i \in 0 .. k |-> own[i]]
                BY Zenon DEF own
            <4> QED BY <3>6, <4>1, Zenon
        <3>8. OwnSteps(list, b, own, k)
            BY <3>7, Zenon DEF OwnSteps
        <3> QED BY <3>8
    <2> QED BY <2>1, <2>2
<1>2. Nat \subseteq T
    <2> HIDE DEF T
    <2> QED BY <1>1, EveryNumber
<1> QED BY <1>2

LEMMA OwnIs ==
    ASSUME NEW list, Len(list) \in Nat, NEW b
    PROVE  \E own : OwnTaken(list, b, own, Len(list)) /\ Branched!Own(list, b) = own[Len(list)]
<1> DEFINE own[i \in 0 .. Len(list)] ==
            IF i = 0 THEN <<>>
            ELSE IF list[i].branch = b THEN Append(own[i - 1], list[i]) ELSE own[i - 1]
<1>1. PICK s : OwnSteps(list, b, s, Len(list))
    BY OwnExists
<1>2. s = [i \in 0 .. Len(list) |->
              IF i = 0 THEN <<>>
              ELSE IF list[i].branch = b THEN Append(s[i - 1], list[i]) ELSE s[i - 1]]
    BY <1>1, Zenon DEF OwnSteps
<1>3. own = [i \in 0 .. Len(list) |->
              IF i = 0 THEN <<>>
              ELSE IF list[i].branch = b THEN Append(own[i - 1], list[i]) ELSE own[i - 1]]
    BY <1>2, Zenon DEF own
<1>4. Branched!Own(list, b) = own[Len(list)]
    BY Zenon DEF Branched!Own, own
<1> HIDE DEF own
<1>5. OwnTaken(list, b, own, Len(list))
    <2>1. OwnSteps(list, b, own, Len(list))
        BY <1>3, Zenon DEF OwnSteps
    <2> QED BY <2>1, OwnStep
<1> QED BY <1>4, <1>5

\* The messages of the first k are messages of the branch, each once.
Chosen(list, b, k, own) ==
    /\ own \in Seq(Branched!BranchMessage)
    /\ \A i \in 1 .. Len(own) :
          own[i].branch = b /\ \E j \in 1 .. k : own[i] = list[j]
    /\ \A i, j \in 1 .. Len(own) : own[i].id = own[j].id => i = j

\* A conversation: its messages have ids of their own.
Log(list) ==
    /\ list \in Seq(Branched!BranchMessage)
    /\ \A i, j \in 1 .. Len(list) : list[i].id = list[j].id => i = j

LEMMA OwnIsChosen ==
    ASSUME NEW list, Log(list), NEW b
    PROVE  Chosen(list, b, Len(list), Branched!Own(list, b))
<1> DEFINE n == Len(list)
<1>1. /\ list \in Seq(Branched!BranchMessage) /\ n \in Nat
      /\ \A i \in 1 .. n : list[i] \in Branched!BranchMessage
      /\ \A i, j \in 1 .. n : list[i].id = list[j].id => i = j
    BY DEF Log
<1>2. PICK own : OwnTaken(list, b, own, n) /\ Branched!Own(list, b) = own[n]
    BY <1>1, OwnIs
<1>3. /\ own[0] = <<>>
      /\ \A i \in 1 .. n :
            own[i] = IF list[i].branch = b THEN Append(own[i - 1], list[i]) ELSE own[i - 1]
    BY <1>2, Zenon DEF OwnTaken
<1> DEFINE T == {k \in 0 .. n : Chosen(list, b, k, own[k])}
<1> HIDE DEF n
<1>4. ASSUME NEW k \in 0 .. n, \A m \in 0 .. n : m < k => m \in T
      PROVE  Chosen(list, b, k, own[k])
    <2>1. CASE k = 0
        <3>1. Chosen(list, b, 0, <<>>)
            BY DEF Chosen
        <3> QED BY <1>3, <2>1, <3>1, Zenon
    <2>2. CASE k # 0
        <3>1. k \in 1 .. n /\ k - 1 \in 0 .. n /\ k - 1 < k /\ k \in Nat
            BY <1>1, <2>2
        <3> DEFINE old == own[k - 1]
                   new == own[k]
                   x == list[k]
        <3>2. Chosen(list, b, k - 1, old)
            BY <1>4, <3>1
        <3>3. new = IF x.branch = b THEN Append(old, x) ELSE old
            BY <1>3, <3>1, Zenon
        <3>4. x \in Branched!BranchMessage
            BY <1>1, <3>1
        <3>5. /\ old \in Seq(Branched!BranchMessage)
              /\ \A i \in 1 .. Len(old) :
                    old[i].branch = b /\ \E j \in 1 .. k - 1 : old[i] = list[j]
              /\ \A i, j \in 1 .. Len(old) : old[i].id = old[j].id => i = j
            BY <3>2, Zenon DEF Chosen
        <3>6. \A j \in 1 .. k - 1 : j \in 1 .. k /\ j \in 1 .. n /\ j # k
            BY <1>1, <3>1
        <3>7. \A i \in 1 .. Len(old) : \E j \in 1 .. k : old[i] = list[j]
            BY <3>5, <3>6, Zenon
        <3>8. \A i \in 1 .. Len(old) : old[i].id # x.id
            BY <1>1, <3>1, <3>5, <3>6, Zenon
        <3>9. k \in 1 .. k
            BY <3>1
        <3>10. CASE x.branch = b
            <4>1. new = Append(old, x)
                BY <3>3, <3>10, Zenon
            <4> HIDE DEF old, new, x
            <4>2. /\ new \in Seq(Branched!BranchMessage) /\ Len(new) = Len(old) + 1
                  /\ \A i \in 1 .. Len(old) : new[i] = old[i]
                  /\ new[Len(old) + 1] = x
                  /\ \A i \in 1 .. Len(new) : i \in 1 .. Len(old) \/ i = Len(old) + 1
                BY <3>4, <3>5, <4>1
            <4>3. \A i \in 1 .. Len(new) : new[i].branch = b /\ \E j \in 1 .. k : new[i] = list[j]
                <5> SUFFICES ASSUME NEW i \in 1 .. Len(new)
                             PROVE  new[i].branch = b /\ \E j \in 1 .. k : new[i] = list[j]
                    OBVIOUS
                <5>1. CASE i \in 1 .. Len(old)
                    <6>1. new[i] = old[i]
                        BY <4>2, <5>1, Zenon
                    <6>2. old[i].branch = b
                        BY <3>5, <5>1, Zenon
                    <6>3. \E j \in 1 .. k : old[i] = list[j]
                        BY <3>7, <5>1, Zenon
                    <6> QED BY <6>1, <6>2, <6>3, Zenon
                <5>2. CASE i = Len(old) + 1
                    <6>1. new[i] = x
                        BY <4>2, <5>2, Zenon
                    <6> QED BY <3>9, <3>10, <6>1, Zenon DEF x
                <5> QED BY <4>2, <5>1, <5>2, Zenon
            <4>4. \A i, j \in 1 .. Len(new) : new[i].id = new[j].id => i = j
                BY <3>5, <3>8, <4>2, Zenon
            <4> QED BY <4>2, <4>3, <4>4, Zenon DEF Chosen, new
        <3>11. CASE x.branch # b
            <4>1. new = old
                BY <3>3, <3>11, Zenon
            <4> QED BY <3>5, <3>7, <4>1, Zenon DEF Chosen
        <3> QED BY <3>10, <3>11
    <2> QED BY <2>1, <2>2
<1>5. 0 .. n \subseteq T
    <2>1. 0 .. n \subseteq Nat
        OBVIOUS
    <2>2. \A k \in 0 .. n : (\A m \in 0 .. n : m < k => m \in T) => k \in T
        BY <1>4
    <2> HIDE DEF T
    <2> QED BY <2>1, <2>2, EveryNumber
<1>6. n \in 0 .. n
    BY <1>1
<1>7. Chosen(list, b, n, own[n])
    BY <1>5, <1>6, Zenon
<1> QED BY <1>2, <1>7 DEF n

\* One more message is the branch's last, if it is of it.
LEMMA OwnAppends ==
    ASSUME NEW list \in Seq(Branched!BranchMessage), NEW x \in Branched!BranchMessage, NEW b
    PROVE  Branched!Own(Append(list, x), b)
             = IF x.branch = b THEN Append(Branched!Own(list, b), x) ELSE Branched!Own(list, b)
<1> DEFINE n == Len(list)
           longer == Append(list, x)
<1>1. /\ n \in Nat /\ Len(longer) = n + 1 /\ longer[n + 1] = x
      /\ \A i \in 1 .. n : longer[i] = list[i]
    OBVIOUS
<1>2. PICK old : OwnTaken(list, b, old, n) /\ Branched!Own(list, b) = old[n]
    BY <1>1, OwnIs
<1> HIDE DEF n, longer
<1>3. PICK own : OwnTaken(longer, b, own, n + 1) /\ Branched!Own(longer, b) = own[n + 1]
    <2>1. Len(longer) \in Nat
        BY <1>1
    <2>2. \E own : OwnTaken(longer, b, own, Len(longer)) /\ Branched!Own(longer, b) = own[Len(longer)]
        BY <2>1, OwnIs
    <2> QED BY <1>1, <2>2, Zenon
<1>4. /\ old[0] = <<>>
      /\ \A i \in 1 .. n :
            old[i] = IF list[i].branch = b THEN Append(old[i - 1], list[i]) ELSE old[i - 1]
    BY <1>2, Zenon DEF OwnTaken
<1>5. /\ own[0] = <<>>
      /\ \A i \in 1 .. n + 1 :
            own[i] = IF longer[i].branch = b THEN Append(own[i - 1], longer[i]) ELSE own[i - 1]
    BY <1>3, Zenon DEF OwnTaken
<1> DEFINE T == {i \in 0 .. n : own[i] = old[i]}
<1>6. \A i \in 0 .. n : (\A m \in 0 .. n : m < i => m \in T) => i \in T
    <2> SUFFICES ASSUME NEW i \in 0 .. n, \A m \in 0 .. n : m < i => m \in T PROVE own[i] = old[i]
        OBVIOUS
    <2>1. CASE i = 0
        BY <1>4, <1>5, <2>1, Zenon
    <2>2. CASE i # 0
        <3>1. i \in 1 .. n /\ i \in 1 .. n + 1 /\ i - 1 \in 0 .. n /\ i - 1 < i
            BY <1>1, <2>2
        <3>2. own[i - 1] = old[i - 1]
            BY <3>1
        <3> QED BY <1>1, <1>4, <1>5, <3>1, <3>2, Zenon
    <2> QED BY <2>1, <2>2
<1>7. 0 .. n \subseteq T
    <2>1. 0 .. n \subseteq Nat
        OBVIOUS
    <2>2. \A i \in 0 .. n : (\A m \in 0 .. n : m < i => m \in T) => i \in T
        BY <1>6, Zenon
    <2> HIDE DEF T
    <2> QED BY <2>1, <2>2, EveryNumber
<1>8. n \in 0 .. n /\ n + 1 \in 1 .. n + 1 /\ (n + 1) - 1 = n
    BY <1>1
<1>9. own[n] = old[n]
    BY <1>7, <1>8, Zenon
<1>10. own[n + 1] = IF x.branch = b THEN Append(own[n], x) ELSE own[n]
    <2>1. own[n + 1] = IF longer[n + 1].branch = b THEN Append(own[(n + 1) - 1], longer[n + 1])
                       ELSE own[(n + 1) - 1]
        BY <1>5, <1>8, Zenon
    <2> QED BY <1>1, <1>8, <2>1, Zenon
<1> QED BY <1>2, <1>3, <1>9, <1>10, Zenon DEF n, longer

\* A parent is older than its children.
IsTree(tree) ==
    /\ DOMAIN tree \subseteq Branched!BranchIds
    /\ \A b \in DOMAIN tree :
          tree[b].parent = NoBranch \/ (tree[b].parent \in DOMAIN tree /\ tree[b].parent < b)

\* What a branch shows when the older ones show h.
Shown(tree, list, h, b) ==
    IF tree[b].parent = NoBranch THEN Branched!Own(list, b)
    ELSE Branched!UpTo(h[tree[b].parent], tree[b].checkpoint) \o Branched!Own(list, b)

LEMMA HistoriesExist ==
    ASSUME Branched!BranchingAssumption, NEW tree, NEW list, IsTree(tree)
    PROVE  \E h : h = [b \in DOMAIN tree |-> Shown(tree, list, h, b)]
<1> DEFINE D == DOMAIN tree
           E(n) == {b \in D : b <= n}
           Solves(h, n) == h = [b \in E(n) |-> Shown(tree, list, h, b)]
           T == {n \in Nat : \E h : Solves(h, n)}
<1>1. /\ D \subseteq Branched!BranchIds /\ D \subseteq Nat
      /\ \A b \in D : tree[b].parent = NoBranch \/ (tree[b].parent \in D /\ tree[b].parent < b)
    <2>1. Branched!BranchIds \subseteq Nat
        BY DEF Branched!BranchIds
    <2> QED BY <2>1, Zenon DEF IsTree
<1> HIDE DEF D
<1>2. ASSUME NEW h, NEW g, NEW b \in D,
             tree[b].parent = NoBranch \/ h[tree[b].parent] = g[tree[b].parent]
      PROVE  Shown(tree, list, h, b) = Shown(tree, list, g, b)
    BY <1>2, Zenon DEF Shown
<1>3. ASSUME NEW n \in Nat, \A m \in Nat : m < n => m \in T
      PROVE  n \in T
    <2>1. PICK g : \A b \in D : b < n => g[b] = Shown(tree, list, g, b)
        <3>1. CASE n = 0
            <4>1. \A b \in D : ~(b < n)
                BY <1>1, <3>1
            <4> QED BY <4>1
        <3>2. CASE n # 0
            <4>1. n - 1 \in Nat /\ n - 1 < n
                BY <3>2
            <4>2. PICK g : Solves(g, n - 1)
                BY <1>3, <4>1
            <4>3. \A b \in D : b < n => b \in E(n - 1)
                BY <1>1
            <4>4. \A b \in E(n - 1) : g[b] = Shown(tree, list, g, b)
                BY <4>2, Zenon
            <4> QED BY <4>3, <4>4, Zenon
        <3> QED BY <3>1, <3>2
    <2> DEFINE h == [b \in E(n) |-> Shown(tree, list, g, b)]
    <2>2. \A b \in E(n) : h[b] = Shown(tree, list, g, b)
        BY Zenon
    <2>3. \A b \in E(n) : tree[b].parent = NoBranch \/ h[tree[b].parent] = g[tree[b].parent]
        <3> TAKE b \in E(n)
        <3>1. b \in D /\ b <= n /\ b \in Nat
            BY <1>1
        <3> DEFINE p == tree[b].parent
        <3>2. CASE p # NoBranch
            <4>1. p \in D /\ p < b
                BY <1>1, <3>1, <3>2, Zenon
            <4> HIDE DEF p
            <4>2. p < n /\ p \in E(n)
                BY <1>1, <3>1, <4>1
            <4>3. h[p] = Shown(tree, list, g, p)
                BY <2>2, <4>2, Zenon
            <4>4. g[p] = Shown(tree, list, g, p)
                BY <2>1, <4>1, <4>2, Zenon
            <4> QED BY <4>3, <4>4, Zenon DEF p
        <3> QED BY <3>2, Zenon
    <2>4. \A b \in E(n) : b \in D
        OBVIOUS
    <2>5. \A b \in E(n) : Shown(tree, list, g, b) = Shown(tree, list, h, b)
        <3> HIDE DEF h
        <3> QED BY <1>2, <2>3, <2>4, Zenon
    <2>6. Solves(h, n)
        <3>1. h = [b \in E(n) |-> h[b]]
            BY Zenon
        <3> HIDE DEF h
        <3> QED BY <2>2, <2>5, <3>1, Zenon
    <2> QED BY <2>6
<1>4. Nat \subseteq T
    <2> HIDE DEF T
    <2> QED BY <1>3, EveryNumber
<1>5. MaxBranches \in Nat /\ E(MaxBranches) = D
    <2>1. MaxBranches \in Nat
        BY DEF Branched!BranchingAssumption
    <2>2. \A b \in Branched!BranchIds : b <= MaxBranches
        BY <2>1 DEF Branched!BranchIds
    <2>3. \A b \in D : b <= MaxBranches
        BY <1>1, <2>2, Zenon
    <2> QED BY <2>1, <2>3
<1>6. PICK h : Solves(h, MaxBranches)
    BY <1>4, <1>5
<1>7. h = [b \in D |-> Shown(tree, list, h, b)]
    BY <1>5, <1>6, Zenon
<1> QED BY <1>7 DEF D

LEMMA HistoriesAre ==
    ASSUME Branched!BranchingAssumption, NEW tree, NEW list, IsTree(tree)
    PROVE  \A b \in DOMAIN tree :
              Branched!Histories(tree, list)[b]
                = Shown(tree, list, Branched!Histories(tree, list), b)
<1> DEFINE h[b \in DOMAIN tree] ==
            IF tree[b].parent = NoBranch THEN Branched!Own(list, b)
            ELSE Branched!UpTo(h[tree[b].parent], tree[b].checkpoint) \o Branched!Own(list, b)
<1>1. PICK s : s = [b \in DOMAIN tree |-> Shown(tree, list, s, b)]
    BY HistoriesExist
<1>2. s = [b \in DOMAIN tree |->
            IF tree[b].parent = NoBranch THEN Branched!Own(list, b)
            ELSE Branched!UpTo(s[tree[b].parent], tree[b].checkpoint) \o Branched!Own(list, b)]
    BY <1>1, Zenon DEF Shown
<1>3. h = [b \in DOMAIN tree |->
            IF tree[b].parent = NoBranch THEN Branched!Own(list, b)
            ELSE Branched!UpTo(h[tree[b].parent], tree[b].checkpoint) \o Branched!Own(list, b)]
    BY <1>2, Zenon DEF h
<1>4. Branched!Histories(tree, list) = h
    BY Zenon DEF Branched!Histories, h
<1> HIDE DEF h
<1>5. h = [b \in DOMAIN tree |-> Shown(tree, list, h, b)]
    BY <1>3, Zenon DEF Shown
<1>6. \A b \in DOMAIN tree : h[b] = Shown(tree, list, h, b)
    BY <1>5, Zenon
<1> QED BY <1>4, <1>6, Zenon

\* A history up to a checkpoint begins the history and ends with the checkpoint, or
\* is all of it.
CutAt(h, id, u, k) ==
    /\ k \in 0 .. Len(h) /\ u \in Seq(Branched!BranchMessage) /\ Len(u) = k
    /\ \A i \in 1 .. k : u[i] = h[i]
    /\ Branched!HasMessage(h, id) => k \in 1 .. Len(h) /\ h[k].id = id
    /\ ~Branched!HasMessage(h, id) => k = Len(h) /\ u = h

LEMMA UpToIsCut ==
    ASSUME NEW h \in Seq(Branched!BranchMessage), NEW id
    PROVE  \E k : CutAt(h, id, Branched!UpTo(h, id), k)
<1>1. CASE Branched!HasMessage(h, id)
    <2> DEFINE k == Branched!PositionOf(h, id)
    <2>1. k \in 1 .. Len(h) /\ h[k].id = id
        BY <1>1, Zenon DEF Branched!HasMessage, Branched!PositionOf
    <2>2. Branched!UpTo(h, id) = SubSeq(h, 1, k)
        BY <1>1, Zenon DEF Branched!UpTo
    <2> HIDE DEF k
    <2>3. /\ k \in 0 .. Len(h) /\ SubSeq(h, 1, k) \in Seq(Branched!BranchMessage)
          /\ Len(SubSeq(h, 1, k)) = k
          /\ \A i \in 1 .. k : SubSeq(h, 1, k)[i] = h[i]
        BY <2>1
    <2> QED BY <1>1, <2>1, <2>2, <2>3, Zenon DEF CutAt
<1>2. CASE ~Branched!HasMessage(h, id)
    <2>1. Branched!UpTo(h, id) = h
        BY <1>2, Zenon DEF Branched!UpTo
    <2>2. Len(h) \in 0 .. Len(h)
        OBVIOUS
    <2>3. CutAt(h, id, h, Len(h))
        BY <1>2, <2>2, Zenon DEF CutAt
    <2> QED BY <2>1, <2>3, Zenon
<1> QED BY <1>1, <1>2

LEMMA Joined ==
    ASSUME NEW S, NEW u \in Seq(S), NEW v \in Seq(S)
    PROVE  /\ u \o v \in Seq(S) /\ Len(u \o v) = Len(u) + Len(v)
           /\ Len(u) \in Nat /\ Len(v) \in Nat
           /\ \A i \in 1 .. Len(u) : i \in 1 .. Len(u \o v) /\ (u \o v)[i] = u[i]
           /\ \A i \in 1 .. Len(v) :
                 Len(u) + i \in 1 .. Len(u \o v) /\ (u \o v)[Len(u) + i] = v[i]
           /\ \A i \in 1 .. Len(u \o v) :
                 i \in 1 .. Len(u) \/ \E j \in 1 .. Len(v) : i = Len(u) + j
<1>1. /\ u \o v \in Seq(S) /\ Len(u \o v) = Len(u) + Len(v)
      /\ Len(u) \in Nat /\ Len(v) \in Nat
      /\ \A i \in 1 .. Len(u) : i \in 1 .. Len(u \o v) /\ (u \o v)[i] = u[i]
      /\ \A i \in 1 .. Len(v) :
            Len(u) + i \in 1 .. Len(u \o v) /\ (u \o v)[Len(u) + i] = v[i]
    OBVIOUS
<1>2. ASSUME NEW i \in 1 .. Len(u \o v), i \notin 1 .. Len(u)
      PROVE  \E j \in 1 .. Len(v) : i = Len(u) + j
    <2>1. i - Len(u) \in 1 .. Len(v) /\ i = Len(u) + (i - Len(u))
        BY <1>1, <1>2
    <2> QED BY <2>1, Zenon
<1> QED BY <1>1, <1>2, Zenon

\* What a branch may show: messages of it and of older branches, each once.
Listed(list, b, h) ==
    /\ h \in Seq(Branched!BranchMessage)
    /\ \A i \in 1 .. Len(h) : h[i].branch <= b
    /\ \A i \in 1 .. Len(h) : \E j \in 1 .. Len(list) : h[i] = list[j]
    /\ \A i, j \in 1 .. Len(h) : h[i].id = h[j].id => i = j

LEMMA GluedIsListed ==
    ASSUME Branched!BranchingAssumption, NEW list, Log(list), NEW b \in Nat,
           NEW u \in Seq(Branched!BranchMessage), \A i \in 1 .. Len(u) : u[i].branch < b,
           \A i \in 1 .. Len(u) : \E j \in 1 .. Len(list) : u[i] = list[j],
           \A i, j \in 1 .. Len(u) : u[i].id = u[j].id => i = j
    PROVE  Listed(list, b, u \o Branched!Own(list, b))
<1> DEFINE own == Branched!Own(list, b)
           h == u \o own
<1>1. Chosen(list, b, Len(list), own)
    BY OwnIsChosen
<1> HIDE DEF own
<1>2. /\ own \in Seq(Branched!BranchMessage)
      /\ \A i \in 1 .. Len(own) : own[i].branch = b
      /\ \A i \in 1 .. Len(own) : \E j \in 1 .. Len(list) : own[i] = list[j]
      /\ \A i, j \in 1 .. Len(own) : own[i].id = own[j].id => i = j
    BY <1>1, Zenon DEF Chosen
<1>3. /\ h \in Seq(Branched!BranchMessage)
      /\ Len(u) \in Nat /\ Len(own) \in Nat
      /\ \A i \in 1 .. Len(u) : h[i] = u[i]
      /\ \A i \in 1 .. Len(own) : h[Len(u) + i] = own[i]
      /\ \A i \in 1 .. Len(h) :
            i \in 1 .. Len(u) \/ \E j \in 1 .. Len(own) : i = Len(u) + j
    BY <1>2, Joined
<1> HIDE DEF h
<1>4. ASSUME NEW i \in 1 .. Len(u), NEW j \in 1 .. Len(own) PROVE u[i].id # own[j].id
    <2>1. PICK m \in 1 .. Len(list) : u[i] = list[m]
        BY Zenon
    <2>2. PICK n \in 1 .. Len(list) : own[j] = list[n]
        BY <1>2, Zenon
    <2>3. u[i].id = own[j].id => u[i] = own[j]
        BY <2>1, <2>2, Zenon DEF Log
    <2>4. u[i].branch < b /\ own[j].branch = b /\ u[i].branch # own[j].branch
        <3>1. u[i] \in Branched!BranchMessage
            OBVIOUS
        <3>2. u[i].branch \in Nat
            BY <3>1 DEF Branched!BranchMessage, Branched!BranchIds, Branched!BranchingAssumption
        <3> QED BY <1>2, <3>2
    <2> QED BY <2>3, <2>4, Zenon
<1>5. \A i \in 1 .. Len(h) : h[i].branch <= b
    <2> TAKE i \in 1 .. Len(h)
    <2>1. CASE i \in 1 .. Len(u)
        <3>1. u[i] \in Branched!BranchMessage
            BY <2>1
        <3>2. u[i].branch \in Nat
            BY <3>1 DEF Branched!BranchMessage, Branched!BranchIds, Branched!BranchingAssumption
        <3> QED BY <1>3, <2>1, <3>2
    <2>2. ASSUME NEW j \in 1 .. Len(own), i = Len(u) + j PROVE h[i].branch <= b
        <3>1. h[i].branch = b
            BY <1>2, <1>3, <2>2, Zenon
        <3> QED BY <3>1
    <2> QED BY <1>3, <2>1, <2>2, Zenon
<1>6. \A i \in 1 .. Len(h) : \E j \in 1 .. Len(list) : h[i] = list[j]
    <2> TAKE i \in 1 .. Len(h)
    <2>1. CASE i \in 1 .. Len(u)
        BY <1>3, <2>1, Zenon
    <2>2. ASSUME NEW j \in 1 .. Len(own), i = Len(u) + j PROVE \E n \in 1 .. Len(list) : h[i] = list[n]
        <3>1. h[i] = own[j]
            BY <1>3, <2>2, Zenon
        <3>2. \E n \in 1 .. Len(list) : own[j] = list[n]
            BY <1>2, Zenon
        <3> QED BY <3>1, <3>2, Zenon
    <2> QED BY <1>3, <2>1, <2>2, Zenon
<1>7. \A i, j \in 1 .. Len(h) : h[i].id = h[j].id => i = j
    <2> SUFFICES ASSUME NEW i \in 1 .. Len(h), NEW j \in 1 .. Len(h), h[i].id = h[j].id PROVE i = j
        BY Zenon
    <2>1. CASE i \in 1 .. Len(u) /\ j \in 1 .. Len(u)
        BY <1>3, <2>1, Zenon
    <2>2. ASSUME NEW m \in 1 .. Len(own), j = Len(u) + m PROVE i = j
        <3>1. ASSUME i \in 1 .. Len(u) PROVE FALSE
            <4>1. h[i] = u[i] /\ h[j] = own[m]
                BY <1>3, <2>2, <3>1, Zenon
            <4>2. u[i].id # own[m].id
                BY <1>4, <3>1
            <4> QED BY <4>1, <4>2, Zenon
        <3>2. PICK n \in 1 .. Len(own) : i = Len(u) + n
            BY <1>3, <3>1, Zenon
        <3>3. own[n].id = own[m].id
            BY <1>3, <2>2, <3>2, Zenon
        <3>4. n = m
            BY <1>2, <3>3, Zenon
        <3> QED BY <2>2, <3>2, <3>4, Zenon
    <2>3. ASSUME NEW m \in 1 .. Len(own), i = Len(u) + m PROVE i = j
        <3>1. ASSUME j \in 1 .. Len(u) PROVE FALSE
            <4>1. h[j] = u[j] /\ h[i] = own[m]
                BY <1>3, <2>3, <3>1, Zenon
            <4>2. u[j].id # own[m].id
                BY <1>4, <3>1
            <4> QED BY <4>1, <4>2, Zenon
        <3>2. PICK n \in 1 .. Len(own) : j = Len(u) + n
            BY <1>3, <3>1, Zenon
        <3> QED BY <2>2, <3>2
    <2> QED BY <1>3, <2>1, <2>2, <2>3, Zenon
<1> QED BY <1>3, <1>5, <1>6, <1>7, Zenon DEF Listed, h, own

\* Every branch shows what it may show.
LEMMA HistoryIsListed ==
    ASSUME Branched!BranchingAssumption, NEW tree, NEW list, IsTree(tree), Log(list)
    PROVE  \A b \in DOMAIN tree : Listed(list, b, Branched!Histories(tree, list)[b])
<1> DEFINE D == DOMAIN tree
           H == Branched!Histories(tree, list)
           T == {b \in D : Listed(list, b, H[b])}
<1>1. /\ D \subseteq Nat
      /\ \A b \in D : tree[b].parent = NoBranch \/ (tree[b].parent \in D /\ tree[b].parent < b)
    <2>1. Branched!BranchIds \subseteq Nat
        BY DEF Branched!BranchIds
    <2> QED BY <2>1, Zenon DEF IsTree
<1>2. \A b \in D : H[b] = Shown(tree, list, H, b)
    BY HistoriesAre, Zenon
<1> HIDE DEF D, H
<1>3. ASSUME NEW b \in D, \A m \in D : m < b => m \in T PROVE Listed(list, b, H[b])
    <2>0. b \in Nat
        BY <1>1
    <2> DEFINE p == tree[b].parent
               own == Branched!Own(list, b)
    <2>1. CASE p = NoBranch
        <3>1. H[b] = own
            BY <1>2, <2>1, Zenon DEF Shown
        <3>2. Chosen(list, b, Len(list), own)
            BY OwnIsChosen
        <3> HIDE DEF own
        <3>3. \A i \in 1 .. Len(own) : own[i].branch <= b
            <4>1. \A i \in 1 .. Len(own) : own[i].branch = b
                BY <3>2, Zenon DEF Chosen
            <4> QED BY <2>0, <4>1
        <3> QED BY <3>1, <3>2, <3>3, Zenon DEF Chosen, Listed
    <2>2. CASE p # NoBranch
        <3>1. p \in D /\ p < b
            BY <1>1, <2>2, Zenon
        <3> DEFINE u == Branched!UpTo(H[p], tree[b].checkpoint)
        <3>2. H[b] = u \o own
            BY <1>2, <2>2, Zenon DEF Shown
        <3> HIDE DEF p, u, own
        <3>3. Listed(list, p, H[p]) /\ p \in Nat
            BY <1>1, <1>3, <3>1
        <3>4. /\ H[p] \in Seq(Branched!BranchMessage)
              /\ \A i \in 1 .. Len(H[p]) : H[p][i].branch <= p
              /\ \A i \in 1 .. Len(H[p]) : \E j \in 1 .. Len(list) : H[p][i] = list[j]
              /\ \A i, j \in 1 .. Len(H[p]) : H[p][i].id = H[p][j].id => i = j
            BY <3>3, Zenon DEF Listed
        <3>5. PICK k : CutAt(H[p], tree[b].checkpoint, u, k)
            BY <3>4, UpToIsCut DEF u
        <3>6. /\ k \in 0 .. Len(H[p]) /\ u \in Seq(Branched!BranchMessage) /\ Len(u) = k
              /\ \A i \in 1 .. k : u[i] = H[p][i]
            BY <3>5, Zenon DEF CutAt
        <3>7. \A i \in 1 .. k : i \in 1 .. Len(H[p])
            BY <3>4, <3>6
        <3>8. \A i \in 1 .. Len(u) : u[i].branch < b
            <4> TAKE i \in 1 .. Len(u)
            <4>1. u[i] \in Branched!BranchMessage
                BY <3>6
            <4>2. u[i].branch \in Nat
                BY <4>1 DEF Branched!BranchMessage, Branched!BranchIds, Branched!BranchingAssumption
            <4>3. u[i].branch <= p
                BY <3>4, <3>6, <3>7, Zenon
            <4> QED BY <2>0, <3>1, <3>3, <4>2, <4>3
        <3>9. \A i \in 1 .. Len(u) : \E j \in 1 .. Len(list) : u[i] = list[j]
            BY <3>4, <3>6, <3>7, Zenon
        <3>10. \A i, j \in 1 .. Len(u) : u[i].id = u[j].id => i = j
            BY <3>4, <3>6, <3>7, Zenon
        <3>11. Listed(list, b, u \o Branched!Own(list, b))
            BY <2>0, <3>6, <3>8, <3>9, <3>10, GluedIsListed
        <3> QED BY <3>2, <3>11, Zenon DEF own
    <2> QED BY <2>1, <2>2
<1>4. D \subseteq T
    <2>1. \A b \in D : (\A m \in D : m < b => m \in T) => b \in T
        BY <1>3
    <2> HIDE DEF T
    <2> QED BY <1>1, <2>1, EveryNumber
<1> QED BY <1>4, Zenon DEF D, H

\* Branches that are added change nothing of what the others show.
LEMMA HistoriesStay ==
    ASSUME Branched!BranchingAssumption, NEW tree, NEW more, NEW list, IsTree(tree), IsTree(more),
           DOMAIN tree \subseteq DOMAIN more, \A b \in DOMAIN tree : more[b] = tree[b]
    PROVE  \A b \in DOMAIN tree :
              Branched!Histories(more, list)[b] = Branched!Histories(tree, list)[b]
<1> DEFINE D == DOMAIN tree
           E == DOMAIN more
           H == Branched!Histories(tree, list)
           G == Branched!Histories(more, list)
           T == {b \in D : G[b] = H[b]}
<1>1. /\ D \subseteq Nat
      /\ \A b \in D : tree[b].parent = NoBranch \/ (tree[b].parent \in D /\ tree[b].parent < b)
    <2>1. Branched!BranchIds \subseteq Nat
        BY DEF Branched!BranchIds
    <2> QED BY <2>1, Zenon DEF IsTree
<1>2. /\ \A b \in D : H[b] = Shown(tree, list, H, b)
      /\ \A b \in E : G[b] = Shown(more, list, G, b)
    BY HistoriesAre, Zenon
<1>3. \A b \in D : b \in E /\ more[b] = tree[b]
    OBVIOUS
<1> HIDE DEF D, E, H, G
<1>4. ASSUME NEW b \in D, \A m \in D : m < b => m \in T PROVE G[b] = H[b]
    <2>1. tree[b].parent = NoBranch \/ G[tree[b].parent] = H[tree[b].parent]
        BY <1>1, <1>4, Zenon
    <2>2. Shown(more, list, G, b) = Shown(tree, list, H, b)
        BY <1>3, <2>1, Zenon DEF Shown
    <2> QED BY <1>2, <1>3, <2>2, Zenon
<1>5. D \subseteq T
    <2>1. \A b \in D : (\A m \in D : m < b => m \in T) => b \in T
        BY <1>4
    <2> HIDE DEF T
    <2> QED BY <1>1, <2>1, EveryNumber
<1> QED BY <1>5, Zenon DEF D, H, G

\* The entries of h are in g, in the same order.
Within(h, g) ==
    \A i, j \in 1 .. Len(h) :
       i <= j => \E m, n \in 1 .. Len(g) : m <= n /\ g[m] = h[i] /\ g[n] = h[j]

LEMMA WithinJoined ==
    ASSUME NEW S, NEW u \in Seq(S), NEW v \in Seq(S), NEW u2 \in Seq(S), NEW v2 \in Seq(S),
           Within(u, u2), Within(v, v2)
    PROVE  Within(u \o v, u2 \o v2)
<1> DEFINE h == u \o v
           g == u2 \o v2
<1>1. /\ Len(u) \in Nat
      /\ \A i \in 1 .. Len(u) : h[i] = u[i]
      /\ \A i \in 1 .. Len(v) : h[Len(u) + i] = v[i]
      /\ \A i \in 1 .. Len(h) :
            i \in 1 .. Len(u) \/ \E j \in 1 .. Len(v) : i = Len(u) + j
    BY Joined
<1>2. /\ Len(u2) \in Nat
      /\ \A i \in 1 .. Len(u2) : i \in 1 .. Len(g) /\ g[i] = u2[i]
      /\ \A i \in 1 .. Len(v2) : Len(u2) + i \in 1 .. Len(g) /\ g[Len(u2) + i] = v2[i]
    BY Joined
<1> HIDE DEF h, g
<1> SUFFICES ASSUME NEW i \in 1 .. Len(h), NEW j \in 1 .. Len(h), i <= j
             PROVE  \E m, n \in 1 .. Len(g) : m <= n /\ g[m] = h[i] /\ g[n] = h[j]
    BY Zenon DEF Within, h, g
<1>3. CASE i \in 1 .. Len(u) /\ j \in 1 .. Len(u)
    <2>1. PICK m \in 1 .. Len(u2), n \in 1 .. Len(u2) : m <= n /\ u2[m] = u[i] /\ u2[n] = u[j]
        BY <1>3, Zenon DEF Within
    <2> QED BY <1>1, <1>2, <1>3, <2>1, Zenon
<1>4. ASSUME i \in 1 .. Len(u), NEW y \in 1 .. Len(v), j = Len(u) + y
      PROVE  \E m, n \in 1 .. Len(g) : m <= n /\ g[m] = h[i] /\ g[n] = h[j]
    <2>0. i <= i /\ y <= y
        BY <1>4
    <2>1. PICK m \in 1 .. Len(u2), m2 \in 1 .. Len(u2) : m <= m2 /\ u2[m] = u[i] /\ u2[m2] = u[i]
        BY <1>4, <2>0, Zenon DEF Within
    <2>2. PICK n \in 1 .. Len(v2), n2 \in 1 .. Len(v2) : n <= n2 /\ v2[n] = v[y] /\ v2[n2] = v[y]
        BY <1>4, <2>0, Zenon DEF Within
    <2>3. m <= Len(u2) + n
        BY <1>2
    <2>4. m \in 1 .. Len(g) /\ g[m] = h[i]
        BY <1>1, <1>2, <1>4, <2>1, Zenon
    <2>5. Len(u2) + n \in 1 .. Len(g) /\ g[Len(u2) + n] = h[j]
        BY <1>1, <1>2, <1>4, <2>2, Zenon
    <2> QED BY <2>3, <2>4, <2>5, Zenon
<1>5. ASSUME NEW x \in 1 .. Len(v), i = Len(u) + x, j \in 1 .. Len(u)
      PROVE  FALSE
    BY <1>1, <1>5
<1>6. ASSUME NEW x \in 1 .. Len(v), i = Len(u) + x, NEW y \in 1 .. Len(v), j = Len(u) + y
      PROVE  \E m, n \in 1 .. Len(g) : m <= n /\ g[m] = h[i] /\ g[n] = h[j]
    <2>0. x <= y
        BY <1>1, <1>6
    <2>1. PICK m \in 1 .. Len(v2), n \in 1 .. Len(v2) : m <= n /\ v2[m] = v[x] /\ v2[n] = v[y]
        BY <1>6, <2>0, Zenon DEF Within
    <2>2. Len(u2) + m <= Len(u2) + n
        BY <1>2, <2>1
    <2>3. Len(u2) + m \in 1 .. Len(g) /\ g[Len(u2) + m] = h[i]
        BY <1>1, <1>2, <1>6, <2>1, Zenon
    <2>4. Len(u2) + n \in 1 .. Len(g) /\ g[Len(u2) + n] = h[j]
        BY <1>1, <1>2, <1>6, <2>1, Zenon
    <2> QED BY <2>2, <2>3, <2>4, Zenon
<1> QED BY <1>1, <1>3, <1>4, <1>5, <1>6, Zenon

\* With entries of their own, what comes before a checkpoint still does.
LEMMA WithinCut ==
    ASSUME NEW h \in Seq(Branched!BranchMessage), NEW g \in Seq(Branched!BranchMessage),
           Within(h, g), \A i, j \in 1 .. Len(g) : g[i].id = g[j].id => i = j,
           NEW id, Branched!HasMessage(h, id)
    PROVE  Within(Branched!UpTo(h, id), Branched!UpTo(g, id))
<1> DEFINE u == Branched!UpTo(h, id)
           v == Branched!UpTo(g, id)
<1>1. PICK k : CutAt(h, id, u, k)
    BY UpToIsCut
<1>2. PICK l : CutAt(g, id, v, l)
    BY UpToIsCut
<1> HIDE DEF u, v
<1>3. /\ k \in 1 .. Len(h) /\ h[k].id = id /\ Len(u) = k /\ \A i \in 1 .. k : u[i] = h[i]
    BY <1>1, Zenon DEF CutAt
<1>4. Branched!HasMessage(g, id)
    <2>1. k <= k
        BY <1>3
    <2>2. PICK m \in 1 .. Len(g), n \in 1 .. Len(g) : m <= n /\ g[m] = h[k] /\ g[n] = h[k]
        BY <1>3, <2>1, Zenon DEF Within
    <2> QED BY <1>3, <2>2, Zenon DEF Branched!HasMessage
<1>5. /\ l \in 1 .. Len(g) /\ g[l].id = id /\ Len(v) = l /\ \A i \in 1 .. l : v[i] = g[i]
    BY <1>2, <1>4, Zenon DEF CutAt
<1>6. \A i \in 1 .. k : i \in 1 .. Len(h) /\ i <= k
    BY <1>3
<1>7. ASSUME NEW i \in 1 .. k, NEW j \in 1 .. k, i <= j
      PROVE  \E m, n \in 1 .. l : m <= n /\ v[m] = u[i] /\ v[n] = u[j]
    <2>1. i \in 1 .. Len(h) /\ j \in 1 .. Len(h) /\ i <= j /\ j <= k
        BY <1>6, <1>7
    <2>2. PICK m \in 1 .. Len(g), n \in 1 .. Len(g) : m <= n /\ g[m] = h[i] /\ g[n] = h[j]
        BY <2>1, Zenon DEF Within
    <2>3. PICK n2 \in 1 .. Len(g), k2 \in 1 .. Len(g) : n2 <= k2 /\ g[n2] = h[j] /\ g[k2] = h[k]
        BY <1>3, <2>1, Zenon DEF Within
    <2>4. n2 = n /\ k2 = l
        <3>1. g[n2].id = g[n].id
            BY <2>2, <2>3, Zenon
        <3>2. g[k2].id = g[l].id
            BY <1>3, <1>5, <2>3, Zenon
        <3> QED BY <1>5, <3>1, <3>2, Zenon
    <2>5. m \in 1 .. l /\ n \in 1 .. l
        BY <2>2, <2>3, <2>4
    <2>6. v[m] = u[i] /\ v[n] = u[j]
        BY <1>3, <1>5, <1>7, <2>2, <2>5, Zenon
    <2> QED BY <2>2, <2>5, <2>6, Zenon
<1>8. Within(u, v)
    <2>1. \A i, j \in 1 .. k :
             i <= j => \E m, n \in 1 .. l : m <= n /\ v[m] = u[i] /\ v[n] = u[j]
        BY <1>7
    <2>2. Len(u) = k /\ Len(v) = l
        BY <1>3, <1>5
    <2>3. \A i, j \in 1 .. Len(u) :
             i <= j => \E m, n \in 1 .. Len(v) : m <= n /\ v[m] = u[i] /\ v[n] = u[j]
        BY <2>1, <2>2, SMT
    <2> QED BY <2>3, Zenon DEF Within
<1> QED BY <1>8, Zenon DEF u, v

LEMMA WithinLonger ==
    ASSUME NEW S, NEW u \in Seq(S), NEW v \in Seq(S)
    PROVE  Within(u, u \o v)
<1>1. \A i \in 1 .. Len(u) : i \in 1 .. Len(u \o v) /\ (u \o v)[i] = u[i]
    BY Joined
<1> QED BY <1>1, Zenon DEF Within

\* A turn is kept at the end of what its branch has, and nothing else changes.
TurnTaken(list, x, y, b) ==
    Branched!Own(list \o <<x, y>>, b)
      = IF b = x.branch THEN Branched!Own(list, b) \o <<x, y>> ELSE Branched!Own(list, b)

LEMMA OwnTakesTurn ==
    ASSUME NEW list \in Seq(Branched!BranchMessage),
           NEW x \in Branched!BranchMessage, NEW y \in Branched!BranchMessage,
           x.branch = y.branch, NEW b, Branched!Own(list, b) \in Seq(Branched!BranchMessage)
    PROVE  TurnTaken(list, x, y, b)
<1> DEFINE M == Branched!BranchMessage
           own == Branched!Own(list, b)
           one == Append(list, x)
<1> HIDE DEF M
<1>1. list \in Seq(M) /\ x \in M /\ y \in M /\ own \in Seq(M)
    BY DEF M
<1>2. list \o <<x, y>> = Append(one, y) /\ one \in Seq(M)
    BY <1>1
<1>3. Branched!Own(one, b) = IF x.branch = b THEN Append(own, x) ELSE own
    BY OwnAppends
<1> HIDE DEF one
<1>4. Branched!Own(Append(one, y), b)
        = IF y.branch = b THEN Append(Branched!Own(one, b), y) ELSE Branched!Own(one, b)
    BY <1>2, OwnAppends DEF M
<1> HIDE DEF own
<1>5. Append(Append(own, x), y) = own \o <<x, y>>
    BY <1>1
<1>6. CASE b = x.branch
    <2>1. Branched!Own(Append(one, y), b) = Append(Append(own, x), y)
        BY <1>3, <1>4, <1>6, Zenon
    <2> QED BY <1>2, <1>5, <1>6, <2>1, Zenon DEF own, TurnTaken
<1>7. CASE b # x.branch
    <2>1. Branched!Own(Append(one, y), b) = own
        BY <1>3, <1>4, <1>7, Zenon
    <2> QED BY <1>2, <1>7, <2>1, Zenon DEF own, TurnTaken
<1> QED BY <1>6, <1>7

\* Longer: each branch has what it had, and more after it.
Longer(tree, list, more) ==
    \A b \in DOMAIN tree : \E w \in Seq(Branched!BranchMessage) :
        Branched!Own(more, b) = Branched!Own(list, b) \o w

\* A checkpoint is what the parent shows.
Forked(tree, H) ==
    \A b \in DOMAIN tree :
        tree[b].parent # NoBranch =>
            IF tree[b].checkpoint = NoMessage
            THEN ~Branched!HasMessage(H[tree[b].parent], NoMessage)
            ELSE Branched!HasMessage(H[tree[b].parent], tree[b].checkpoint)

\* No message is without an id.
LEMMA NoMessageShown ==
    ASSUME Branched!BranchingAssumption, NEW h \in Seq(Branched!BranchMessage)
    PROVE  ~Branched!HasMessage(h, NoMessage)
<1> SUFFICES ASSUME NEW i \in 1 .. Len(h), h[i].id = NoMessage PROVE FALSE
    BY Zenon DEF Branched!HasMessage
<1>1. h[i] \in Branched!BranchMessage
    OBVIOUS
<1>2. h[i].id \in Branched!Id
    BY <1>1 DEF Branched!BranchMessage
<1> QED BY <1>2 DEF Branched!BranchingAssumption, Branched!Id

\* What a branch shows when the conversation goes on: all it did, in that order.
LEMMA HistoriesGrow ==
    ASSUME Branched!BranchingAssumption, NEW tree, NEW list, NEW more, IsTree(tree),
           Log(list), Log(more), Longer(tree, list, more),
           Forked(tree, Branched!Histories(tree, list))
    PROVE  \A b \in DOMAIN tree :
              Within(Branched!Histories(tree, list)[b], Branched!Histories(tree, more)[b])
<1> DEFINE D == DOMAIN tree
           H == Branched!Histories(tree, list)
           G == Branched!Histories(tree, more)
           M == Branched!BranchMessage
           T == {b \in D : Within(H[b], G[b])}
<1>1. /\ D \subseteq Nat
      /\ \A b \in D : tree[b].parent = NoBranch \/ (tree[b].parent \in D /\ tree[b].parent < b)
    <2>1. Branched!BranchIds \subseteq Nat
        BY DEF Branched!BranchIds
    <2> QED BY <2>1, Zenon DEF IsTree
<1>2. /\ \A b \in D : H[b] = Shown(tree, list, H, b)
      /\ \A b \in D : G[b] = Shown(tree, more, G, b)
    BY HistoriesAre, Zenon
<1>3. /\ \A b \in D : Listed(list, b, H[b])
      /\ \A b \in D : Listed(more, b, G[b])
    BY HistoryIsListed, Zenon
<1>4. Forked(tree, H)
    OBVIOUS
<1>5. \A b \in D : \E w \in Seq(M) : Branched!Own(more, b) = Branched!Own(list, b) \o w
    BY Zenon DEF Longer
<1> HIDE DEF D, H, G
<1>6. ASSUME NEW b \in D, \A m \in D : m < b => m \in T PROVE Within(H[b], G[b])
    <2> DEFINE p == tree[b].parent
               own == Branched!Own(list, b)
               own2 == Branched!Own(more, b)
    <2>1. PICK w \in Seq(M) : own2 = own \o w
        BY <1>5, Zenon
    <2>2. own \in Seq(M) /\ own2 \in Seq(M)
        <3>1. Chosen(list, b, Len(list), own) /\ Chosen(more, b, Len(more), own2)
            BY OwnIsChosen
        <3> QED BY <3>1, Zenon DEF Chosen
    <2>3. Within(own, own2)
        <3> HIDE DEF own, own2
        <3> QED BY <2>1, <2>2, WithinLonger
    <2>4. CASE p = NoBranch
        <3>1. H[b] = own /\ G[b] = own2
            BY <1>2, <2>4, Zenon DEF Shown
        <3> QED BY <2>3, <3>1, Zenon
    <2>5. CASE p # NoBranch
        <3> DEFINE c == tree[b].checkpoint
                   u == Branched!UpTo(H[p], c)
                   v == Branched!UpTo(G[p], c)
        <3>1. H[b] = u \o own /\ G[b] = v \o own2
            BY <1>2, <2>5, Zenon DEF Shown
        <3>2. p \in D /\ p < b
            BY <1>1, <2>5, Zenon
        <3>3. Within(H[p], G[p])
            BY <1>6, <3>2, Zenon
        <3>4. /\ H[p] \in Seq(M) /\ G[p] \in Seq(M)
              /\ \A i, j \in 1 .. Len(G[p]) : G[p][i].id = G[p][j].id => i = j
            BY <1>3, <3>2, Zenon DEF Listed
        <3>5. IF c = NoMessage THEN ~Branched!HasMessage(H[p], NoMessage)
              ELSE Branched!HasMessage(H[p], c)
            BY <1>4, <2>5, Zenon DEF Forked, D
        <3> HIDE DEF p, c
        <3>6. Within(u, v)
            <4>1. CASE c = NoMessage
                <5>1. ~Branched!HasMessage(H[p], c) /\ ~Branched!HasMessage(G[p], c)
                    BY <3>4, <4>1, NoMessageShown
                <5>2. u = H[p] /\ v = G[p]
                    BY <5>1, Zenon DEF Branched!UpTo
                <5> QED BY <3>3, <5>2, Zenon
            <4>2. CASE c # NoMessage
                <5>1. Branched!HasMessage(H[p], c)
                    BY <3>5, <4>2, Zenon
                <5> QED BY <3>3, <3>4, <5>1, WithinCut
            <4> QED BY <4>1, <4>2
        <3>7. u \in Seq(M) /\ v \in Seq(M)
            <4>1. \E k : CutAt(H[p], c, u, k)
                BY <3>4, UpToIsCut
            <4>2. \E k : CutAt(G[p], c, v, k)
                BY <3>4, UpToIsCut
            <4> QED BY <4>1, <4>2, Zenon DEF CutAt
        <3> HIDE DEF u, v, own, own2, M
        <3>8. Within(u \o own, v \o own2)
            BY <2>2, <2>3, <3>6, <3>7, WithinJoined
        <3> QED BY <3>1, <3>8, Zenon
    <2> QED BY <2>4, <2>5
<1>7. D \subseteq T
    <2>1. \A b \in D : (\A m \in D : m < b => m \in T) => b \in T
        BY <1>6
    <2> HIDE DEF T
    <2> QED BY <1>1, <2>1, EveryNumber
<1> QED BY <1>7, Zenon DEF D, H, G

LEMMA WithinHas ==
    ASSUME NEW h \in Seq(Branched!BranchMessage), NEW g, Within(h, g), NEW id,
           Branched!HasMessage(h, id)
    PROVE  Branched!HasMessage(g, id)
<1>1. PICK i \in 1 .. Len(h) : h[i].id = id
    BY Zenon DEF Branched!HasMessage
<1>2. i <= i
    BY <1>1
<1>3. PICK m \in 1 .. Len(g), n \in 1 .. Len(g) : m <= n /\ g[m] = h[i] /\ g[n] = h[i]
    BY <1>2, Zenon DEF Within
<1> QED BY <1>1, <1>3, Zenon DEF Branched!HasMessage

\* Up to a message that is already there, more messages change nothing.
LEMMA UpToStays ==
    ASSUME NEW h \in Seq(Branched!BranchMessage), NEW w \in Seq(Branched!BranchMessage),
           \A i, j \in 1 .. Len(h \o w) : (h \o w)[i].id = (h \o w)[j].id => i = j,
           NEW id, Branched!HasMessage(h, id)
    PROVE  Branched!UpTo(h \o w, id) = Branched!UpTo(h, id)
<1> DEFINE M == Branched!BranchMessage
           g == h \o w
           k == Branched!PositionOf(h, id)
           l == Branched!PositionOf(g, id)
<1>0. h \in Seq(M) /\ w \in Seq(M)
    OBVIOUS
<1>1. k \in 1 .. Len(h) /\ h[k].id = id
    BY Zenon DEF Branched!HasMessage, Branched!PositionOf
<1>2. \A i \in 1 .. Len(h) : i \in 1 .. Len(g) /\ g[i] = h[i]
    BY Joined
<1> HIDE DEF k, M
<1>3. k \in 1 .. Len(g) /\ g[k].id = id
    BY <1>1, <1>2, Zenon
<1>4. Branched!HasMessage(g, id)
    BY <1>3, Zenon DEF Branched!HasMessage
<1>5. l \in 1 .. Len(g) /\ g[l].id = id
    BY <1>4, Zenon DEF Branched!HasMessage, Branched!PositionOf
<1>6. l = k
    <2> HIDE DEF l
    <2> QED BY <1>3, <1>5, Zenon
<1>7. SubSeq(h \o w, 1, k) = SubSeq(h, 1, k)
    <2>1. /\ SubSeq(h \o w, 1, k) \in Seq(M) /\ SubSeq(h, 1, k) \in Seq(M)
          /\ Len(SubSeq(h \o w, 1, k)) = k /\ Len(SubSeq(h, 1, k)) = k
          /\ \A i \in 1 .. k : SubSeq(h \o w, 1, k)[i] = SubSeq(h, 1, k)[i]
        BY <1>0, <1>1
    <2> QED BY <2>1, SeqEqual
<1>8. Branched!UpTo(g, id) = SubSeq(g, 1, l) /\ Branched!UpTo(h, id) = SubSeq(h, 1, k)
    BY <1>4, Zenon DEF Branched!UpTo, k
<1> QED BY <1>6, <1>7, <1>8, Zenon

\* What an anchored branch inherits does not change when the conversation goes on.
LEMMA AnchoredStays ==
    ASSUME Branched!BranchingAssumption, NEW tree, NEW list, NEW more, IsTree(tree),
           Log(list), Log(more), Longer(tree, list, more),
           Forked(tree, Branched!Histories(tree, list)),
           NEW b \in DOMAIN tree, Branched!Anchored(tree, b)
    PROVE  Branched!Inherited(tree, more, b) = Branched!Inherited(tree, list, b)
<1> DEFINE D == DOMAIN tree
           H == Branched!Histories(tree, list)
           G == Branched!Histories(tree, more)
           M == Branched!BranchMessage
<1>1. /\ D \subseteq Nat
      /\ \A a \in D : tree[a].parent = NoBranch \/ (tree[a].parent \in D /\ tree[a].parent < a)
    <2>1. Branched!BranchIds \subseteq Nat
        BY DEF Branched!BranchIds
    <2> QED BY <2>1, Zenon DEF IsTree
<1>2. /\ \A a \in D : H[a] = Shown(tree, list, H, a)
      /\ \A a \in D : G[a] = Shown(tree, more, G, a)
    BY HistoriesAre, Zenon
<1>3. /\ \A a \in D : Listed(list, a, H[a])
      /\ \A a \in D : Listed(more, a, G[a])
    BY HistoryIsListed, Zenon
<1>4. Forked(tree, H)
    OBVIOUS
<1>5. \A a \in D : \E w \in Seq(M) : Branched!Own(more, a) = Branched!Own(list, a) \o w
    BY Zenon DEF Longer
<1>6. PICK line \in SUBSET D :
         /\ b \in line
         /\ \A c \in line : \/ tree[c].parent = NoBranch
                            \/ tree[c].checkpoint # NoMessage /\ tree[c].parent \in line
    BY Zenon DEF Branched!Anchored
<1>7. b \in D
    OBVIOUS
<1>8. /\ Branched!Inherited(tree, list, b)
            = IF tree[b].parent = NoBranch THEN <<>>
              ELSE Branched!UpTo(H[tree[b].parent], tree[b].checkpoint)
      /\ Branched!Inherited(tree, more, b)
            = IF tree[b].parent = NoBranch THEN <<>>
              ELSE Branched!UpTo(G[tree[b].parent], tree[b].checkpoint)
    BY Zenon DEF Branched!Inherited
<1> DEFINE T == {c \in line : \E w \in Seq(M) : G[c] = H[c] \o w}
<1>9. line \subseteq Nat /\ line \subseteq D
    BY <1>1
<1> HIDE DEF D, H, G
\* Up to the checkpoint of a branch of the line, its parent shows what it did.
<1>10. ASSUME NEW c \in line, tree[c].parent # NoBranch, NEW w \in Seq(M),
              G[tree[c].parent] = H[tree[c].parent] \o w
       PROVE  Branched!UpTo(G[tree[c].parent], tree[c].checkpoint)
                = Branched!UpTo(H[tree[c].parent], tree[c].checkpoint)
    <2> DEFINE p == tree[c].parent
               k == tree[c].checkpoint
    <2>1. c \in D /\ p \in D /\ k # NoMessage
        BY <1>6, <1>9, <1>10, Zenon
    <2>2. /\ H[p] \in Seq(M)
          /\ \A i, j \in 1 .. Len(G[p]) : G[p][i].id = G[p][j].id => i = j
        BY <1>3, <2>1, Zenon DEF Listed
    <2>3. Branched!HasMessage(H[p], k)
        BY <1>4, <1>10, <2>1, Zenon DEF Forked, D
    <2>4. G[p] = H[p] \o w
        BY <1>10
    <2> HIDE DEF p, k
    <2>5. \A i, j \in 1 .. Len(H[p] \o w) : (H[p] \o w)[i].id = (H[p] \o w)[j].id => i = j
        BY <2>2, <2>4, Zenon
    <2>6. Branched!UpTo(H[p] \o w, k) = Branched!UpTo(H[p], k)
        BY <2>2, <2>3, <2>5, UpToStays
    <2> QED BY <2>4, <2>6, Zenon DEF p, k
<1>11. ASSUME NEW c \in line, \A m \in line : m < c => m \in T
       PROVE  \E w \in Seq(M) : G[c] = H[c] \o w
    <2> DEFINE p == tree[c].parent
               own == Branched!Own(list, c)
               own2 == Branched!Own(more, c)
    <2>0. c \in D
        BY <1>9
    <2>1. PICK w \in Seq(M) : own2 = own \o w
        BY <1>5, <2>0, Zenon
    <2>2. own \in Seq(M)
        <3>1. Chosen(list, c, Len(list), own)
            BY OwnIsChosen
        <3> QED BY <3>1, Zenon DEF Chosen
    <2>3. CASE p = NoBranch
        <3>1. H[c] = own /\ G[c] = own2
            BY <1>2, <2>0, <2>3, Zenon DEF Shown
        <3> QED BY <2>1, <3>1, Zenon
    <2>4. CASE p # NoBranch
        <3> DEFINE u == Branched!UpTo(H[p], tree[c].checkpoint)
        <3>1. p \in line /\ p < c /\ p \in D
            BY <1>1, <1>6, <1>9, <2>0, <2>4, Zenon
        <3>2. PICK v \in Seq(M) : G[p] = H[p] \o v
            BY <1>11, <3>1, Zenon
        <3>3. Branched!UpTo(G[p], tree[c].checkpoint) = u
            BY <1>10, <2>4, <3>2
        <3>4. H[c] = u \o own /\ G[c] = u \o own2
            BY <1>2, <2>0, <2>4, <3>3, Zenon DEF Shown
        <3>5. u \in Seq(M)
            <4>1. H[p] \in Seq(M)
                BY <1>3, <3>1, Zenon DEF Listed
            <4>2. \E k : CutAt(H[p], tree[c].checkpoint, u, k)
                BY <4>1, UpToIsCut
            <4> QED BY <4>2, Zenon DEF CutAt
        <3> HIDE DEF u, own, own2, M
        <3>6. u \o (own \o w) = (u \o own) \o w
            BY <2>2, <3>5, ConcatAssociative
        <3> QED BY <2>1, <3>4, <3>6, Zenon
    <2> QED BY <2>3, <2>4
<1>12. line \subseteq T
    <2>1. \A c \in line : (\A m \in line : m < c => m \in T) => c \in T
        BY <1>11
    <2> HIDE DEF T
    <2> QED BY <1>9, <2>1, EveryNumber
<1>13. CASE tree[b].parent # NoBranch
    <2>1. b \in line /\ tree[b].parent \in line
        BY <1>6, <1>13, Zenon
    <2>2. PICK w \in Seq(M) : G[tree[b].parent] = H[tree[b].parent] \o w
        BY <1>12, <2>1, Zenon
    <2>3. Branched!UpTo(G[tree[b].parent], tree[b].checkpoint)
            = Branched!UpTo(H[tree[b].parent], tree[b].checkpoint)
        BY <1>10, <1>13, <2>1, <2>2
    <2> QED BY <1>8, <1>13, <2>3, Zenon
<1> QED BY <1>8, <1>13, Zenon

\* A turn is kept whole among the messages of a branch.
WholeTurns(own) ==
    /\ Len(own) % 2 = 0 \/ own[1].id.by = "seed"
    /\ \A i \in 1 .. Len(own) :
          own[i].id.by # "seed" /\ own[i].id.number = 1 =>
              i < Len(own) /\ own[i + 1].id = [own[i].id EXCEPT !.number = 2]

AllWhole(list) == \A b \in Branched!BranchIds : WholeTurns(Branched!Own(list, b))

\* The branches made so far: one root, the oldest of them.
Rooted(tree, m) ==
    /\ IsTree(tree) /\ \A b \in DOMAIN tree : tree[b] \in Branched!Branch
    /\ DOMAIN tree \subseteq 1 .. m
    /\ \A b \in DOMAIN tree : tree[b].parent = NoBranch => \A c \in DOMAIN tree : b <= c

\* The messages are on branches, and those of a request are there when it is done.
Placed(tree, list) == \A i \in 1 .. Len(list) : list[i].branch \in DOMAIN tree

Turns == [phase : {"idle", "asking", "done", "failed"}, branch : Branched!BranchIds]

Recorded(list, turns) ==
    \A i \in 1 .. Len(list) : list[i].id.by = "seed" \/ turns[list[i].id.by].phase = "done"

BranchState(tree, list, a, m, turns) ==
    /\ m \in Branched!BranchIds /\ a \in DOMAIN tree
    /\ turns \in [Requests -> Turns]
    /\ Rooted(tree, m)
    /\ Log(list) /\ Placed(tree, list) /\ Recorded(list, turns)
    /\ Forked(tree, Branched!Histories(tree, list))
    /\ AllWhole(list)

BranchInv == BranchState(branches, messages, activeBranch, madeBranches, branchRequest)

\* What an anchored branch that stays inherits stays.
PastKept(tree, list, tree2, list2) ==
    \A b \in DOMAIN tree \cap DOMAIN tree2 :
       Branched!Anchored(tree, b) =>
           Branched!Inherited(tree2, list2, b) = Branched!Inherited(tree, list, b)

LEMMA BranchNumbers ==
    ASSUME Branched!BranchingAssumption
    PROVE  /\ Branched!BranchIds \subseteq Nat /\ 1 \in Branched!BranchIds
           /\ NoBranch \notin Branched!BranchIds /\ NoMessage \notin Branched!Id
    BY DEF Branched!BranchingAssumption, Branched!BranchIds, Branched!Id

\* No messages: whole turns.
LEMMA NothingIsWhole == Log(<<>>) /\ AllWhole(<<>>)
<1>1. Log(<<>>)
    BY DEF Log
<1>2. ASSUME NEW b PROVE WholeTurns(Branched!Own(<<>>, b))
    <2> DEFINE own == Branched!Own(<<>>, b)
    <2>1. Chosen(<<>>, b, Len(<<>>), own)
        BY <1>1, OwnIsChosen
    <2>2. Len(<<>>) = 0
        OBVIOUS
    <2> HIDE DEF own
    <2>3. own \in Seq(Branched!BranchMessage)
        BY <2>1, Zenon DEF Chosen
    <2>4. \A i \in 1 .. Len(own) : \E j \in 1 .. 0 : TRUE
        BY <2>1, <2>2, Zenon DEF Chosen
    <2>5. Len(own) = 0
        BY <2>3, <2>4
    <2>6. WholeTurns(own)
        BY <2>5 DEF WholeTurns
    <2> QED BY <2>6 DEF own
<1> QED BY <1>1, <1>2, Zenon DEF AllWhole

\* Only the messages of the demo: whole turns.
LEMMA SeedIsWhole ==
    ASSUME NEW list, Log(list), \A i \in 1 .. Len(list) : list[i].id.by = "seed"
    PROVE  AllWhole(list)
<1>1. ASSUME NEW b PROVE WholeTurns(Branched!Own(list, b))
    <2> DEFINE own == Branched!Own(list, b)
    <2>1. Chosen(list, b, Len(list), own)
        BY OwnIsChosen
    <2> HIDE DEF own
    <2>2. /\ own \in Seq(Branched!BranchMessage)
          /\ \A i \in 1 .. Len(own) : \E j \in 1 .. Len(list) : own[i] = list[j]
        BY <2>1, Zenon DEF Chosen
    <2>3. \A i \in 1 .. Len(own) : own[i].id.by = "seed"
        BY <2>2, Zenon
    <2>4. Len(own) % 2 = 0 \/ 1 \in 1 .. Len(own)
        BY <2>2
    <2>5. WholeTurns(own)
        BY <2>3, <2>4, Zenon DEF WholeTurns
    <2> QED BY <2>5 DEF own
<1> QED BY <1>1, Zenon DEF AllWhole


LEMMA TurnIs ==
    ASSUME NEW r \in Requests, NEW a \in Branched!BranchIds
    PROVE  \E x, y \in Branched!BranchMessage :
              /\ Branched!TurnOf(r, a) = <<x, y>>
              /\ x.branch = a /\ y.branch = a /\ x.id.by = r /\ y.id.by = r
              /\ x.id.number = 1 /\ y.id = [x.id EXCEPT !.number = 2]
              /\ y.id.number = 2
<1> DEFINE x == [id |-> [by |-> r, number |-> 1], branch |-> a]
           y == [id |-> [by |-> r, number |-> 2], branch |-> a]
<1>1. x \in Branched!BranchMessage /\ y \in Branched!BranchMessage
    BY DEF Branched!BranchMessage, Branched!Id
<1>2. /\ Branched!TurnOf(r, a) = <<x, y>>
      /\ x.branch = a /\ y.branch = a /\ x.id.by = r /\ y.id.by = r
      /\ x.id.number = 1 /\ y.id = [x.id EXCEPT !.number = 2]
      /\ y.id.number = 2
    BY DEF Branched!TurnOf
<1> QED BY <1>1, <1>2, Zenon

\* With a turn after them the turns of a branch are whole.
LEMMA WholeGoesOn ==
    ASSUME Branched!BranchingAssumption,
           NEW own \in Seq(Branched!BranchMessage), WholeTurns(own),
           NEW x \in Branched!BranchMessage, NEW y \in Branched!BranchMessage,
           x.id.number = 1, y.id = [x.id EXCEPT !.number = 2], y.id.number = 2
    PROVE  WholeTurns(own \o <<x, y>>)
<1> DEFINE M == Branched!BranchMessage
           more == own \o <<x, y>>
           n == Len(own)
<1> HIDE DEF M
<1>0. own \in Seq(M) /\ x \in M /\ y \in M
    BY DEF M
<1>1. /\ n \in Nat /\ Len(more) = n + 2
      /\ \A i \in 1 .. n : more[i] = own[i]
      /\ more[n + 1] = x /\ more[n + 2] = y
    BY <1>0
<1> HIDE DEF more, n
<1>2. /\ n % 2 = 0 \/ own[1].id.by = "seed"
      /\ \A i \in 1 .. n :
            own[i].id.by # "seed" /\ own[i].id.number = 1 =>
                i < n /\ own[i + 1].id = [own[i].id EXCEPT !.number = 2]
    BY Zenon DEF WholeTurns, n
<1>3. Len(more) % 2 = 0 \/ more[1].id.by = "seed"
    <2>1. CASE n % 2 = 0
        BY <1>1, <2>1
    <2>2. CASE n % 2 # 0
        <3>1. 1 \in 1 .. n
            BY <1>1, <2>2
        <3> QED BY <1>1, <1>2, <2>2, <3>1, Zenon
    <2> QED BY <2>1, <2>2
<1>4. ASSUME NEW i \in 1 .. Len(more), more[i].id.by # "seed", more[i].id.number = 1
      PROVE  i < Len(more) /\ more[i + 1].id = [more[i].id EXCEPT !.number = 2]
    <2>1. CASE i \in 1 .. n
        <3>1. i < n /\ own[i + 1].id = [own[i].id EXCEPT !.number = 2]
            BY <1>1, <1>2, <1>4, <2>1, Zenon
        <3>2. i + 1 \in 1 .. n /\ i < Len(more)
            BY <1>1, <2>1, <3>1
        <3> QED BY <1>1, <2>1, <3>1, <3>2, Zenon
    <2>2. CASE i = n + 1
        <3>1. i < Len(more) /\ i + 1 = n + 2
            BY <1>1, <2>2
        <3> QED BY <1>1, <2>2, <3>1, Zenon
    <2>3. CASE i = n + 2
        <3>1. more[i].id.number = 2
            BY <1>1, <2>3, Zenon
        <3> QED BY <1>4, <3>1
    <2> QED BY <1>1, <2>1, <2>2, <2>3
<1>5. WholeTurns(more)
    BY <1>3, <1>4, Zenon DEF WholeTurns
<1> QED BY <1>5 DEF more

\* What a conversation is after a turn.
GoneOn(list, more, r, a) ==
    /\ Log(more) /\ AllWhole(more)
    /\ \A b : \E w \in Seq(Branched!BranchMessage) :
          Branched!Own(more, b) = Branched!Own(list, b) \o w
    /\ \A i \in 1 .. Len(more) :
          \/ i \in 1 .. Len(list) /\ more[i] = list[i]
          \/ more[i].id.by = r /\ more[i].branch = a

\* A turn that is recorded: the conversation is one still, and has it whole.
LEMMA LogGoesOn ==
    ASSUME Branched!BranchingAssumption, NEW list, Log(list), AllWhole(list),
           NEW r \in Requests, NEW a \in Branched!BranchIds,
           \A i \in 1 .. Len(list) : list[i].id.by # r
    PROVE  GoneOn(list, list \o Branched!TurnOf(r, a), r, a)
<1> DEFINE M == Branched!BranchMessage
<1>1. PICK x \in M, y \in M :
              /\ Branched!TurnOf(r, a) = <<x, y>>
              /\ x.branch = a /\ y.branch = a /\ x.id.by = r /\ y.id.by = r
              /\ x.id.number = 1 /\ y.id = [x.id EXCEPT !.number = 2]
              /\ y.id.number = 2
    BY TurnIs, Zenon
<1> DEFINE more == list \o <<x, y>>
<1>2. list \in Seq(M) /\ \A i, j \in 1 .. Len(list) : list[i].id = list[j].id => i = j
    BY Zenon DEF Log
<1>3. /\ more \in Seq(M) /\ Len(more) = Len(list) + 2 /\ Len(list) \in Nat
      /\ \A i \in 1 .. Len(list) : more[i] = list[i]
      /\ more[Len(list) + 1] = x /\ more[Len(list) + 2] = y
    <2> HIDE DEF M
    <2> QED BY <1>2
<1> DEFINE n == Len(list)
<1> HIDE DEF more, n
<1>4. \A i \in 1 .. Len(more) : i \in 1 .. n \/ i = n + 1 \/ i = n + 2
    BY <1>3 DEF n
<1>5. Log(more)
    <2>1. x.id # y.id
        <3>1. x.id.number # y.id.number
            BY <1>1
        <3> QED BY <3>1
    <2> SUFFICES ASSUME NEW i \in 1 .. Len(more), NEW j \in 1 .. Len(more), more[i].id = more[j].id
                 PROVE  i = j
        BY <1>3, Zenon DEF Log
    <2>2. \A k \in 1 .. n : more[k].id.by # r /\ more[k] = list[k]
        BY <1>3, Zenon DEF n
    <2>3. more[n + 1] = x /\ more[n + 2] = y
        BY <1>3 DEF n
    <2>4. CASE i \in 1 .. n
        <3>1. j \in 1 .. n
            <4>1. more[j].id.by # r
                BY <2>2, <2>4, Zenon
            <4> QED BY <1>1, <1>4, <2>3, <4>1, Zenon
        <3> QED BY <1>2, <2>2, <2>4, <3>1, Zenon DEF n
    <2>5. CASE j \in 1 .. n
        <3>1. i \in 1 .. n
            <4>1. more[i].id.by # r
                BY <2>2, <2>5, Zenon
            <4> QED BY <1>1, <1>4, <2>3, <4>1, Zenon
        <3> QED BY <1>2, <2>2, <2>5, <3>1, Zenon DEF n
    <2> QED BY <1>4, <2>1, <2>3, <2>4, <2>5, Zenon
<1>6. ASSUME NEW b
      PROVE  Branched!Own(list, b) \in Seq(M)
    <2>1. Chosen(list, b, Len(list), Branched!Own(list, b))
        BY OwnIsChosen
    <2> QED BY <2>1, Zenon DEF Chosen
<1>7. ASSUME NEW b
      PROVE  Branched!Own(more, b)
               = IF b = a THEN Branched!Own(list, b) \o <<x, y>> ELSE Branched!Own(list, b)
    <2>1. Branched!Own(list, b) \in Seq(M) /\ x.branch = y.branch
        BY <1>1, <1>6, Zenon
    <2>2. TurnTaken(list, x, y, b)
        BY <1>2, <2>1, OwnTakesTurn
    <2> QED BY <1>1, <2>2, Zenon DEF TurnTaken, more
<1>8. ASSUME NEW b
      PROVE  \E w \in Seq(M) : Branched!Own(more, b) = Branched!Own(list, b) \o w
    <2> DEFINE own == Branched!Own(list, b)
    <2>1. own \in Seq(M)
        BY <1>6
    <2> HIDE DEF own, M
    <2>2. <<x, y>> \in Seq(M) /\ <<>> \in Seq(M) /\ own \o <<>> = own
        BY <2>1
    <2>3. \E w \in Seq(M) : Branched!Own(more, b) = own \o w
        BY <1>7, <2>2, Zenon DEF own
    <2> QED BY <2>3, Zenon DEF own
<1>9. AllWhole(more)
    <2> SUFFICES ASSUME NEW b \in Branched!BranchIds PROVE WholeTurns(Branched!Own(more, b))
        BY Zenon DEF AllWhole
    <2> DEFINE own == Branched!Own(list, b)
    <2>1. WholeTurns(own) /\ own \in Seq(M)
        BY <1>6, Zenon DEF AllWhole
    <2>2. Branched!Own(more, b) = IF b = a THEN own \o <<x, y>> ELSE own
        BY <1>7
    <2> HIDE DEF own
    <2>3. CASE b = a
        <3>1. WholeTurns(own \o <<x, y>>)
            BY <1>1, <2>1, WholeGoesOn
        <3> QED BY <2>2, <2>3, <3>1, Zenon
    <2>4. CASE b # a
        BY <2>1, <2>2, <2>4, Zenon
    <2> QED BY <2>3, <2>4
<1>10. \A i \in 1 .. Len(more) :
          \/ i \in 1 .. Len(list) /\ more[i] = list[i]
          \/ more[i].id.by = r /\ more[i].branch = a
    <2> TAKE i \in 1 .. Len(more)
    <2>1. i \in 1 .. Len(list) \/ i = Len(list) + 1 \/ i = Len(list) + 2
        BY <1>4 DEF n
    <2> QED BY <1>1, <1>3, <2>1, Zenon
<1>11. list \o Branched!TurnOf(r, a) = more
    BY <1>1, Zenon DEF more
<1> QED BY <1>5, <1>8, <1>9, <1>10, <1>11, Zenon DEF GoneOn

\* A turn that is recorded, on the branch that is active by then.
LEMMA TurnKeepsBranches ==
    ASSUME Branched!BranchingAssumption, NEW tree, NEW list, NEW a, NEW m, NEW turns,
           BranchState(tree, list, a, m, turns), NEW r \in Requests, turns[r].phase = "asking"
    PROVE  /\ BranchState(tree, list \o Branched!TurnOf(r, a), a, m,
                          [turns EXCEPT ![r].phase = "done"])
           /\ PastKept(tree, list, tree, list \o Branched!TurnOf(r, a))
<1> DEFINE more == list \o Branched!TurnOf(r, a)
           turns2 == [turns EXCEPT ![r].phase = "done"]
           H == Branched!Histories(tree, list)
           G == Branched!Histories(tree, more)
<1>1. /\ m \in Branched!BranchIds /\ a \in DOMAIN tree
      /\ turns \in [Requests -> Turns]
      /\ Rooted(tree, m) /\ IsTree(tree)
      /\ Log(list) /\ Placed(tree, list) /\ Recorded(list, turns)
      /\ Forked(tree, H)
      /\ AllWhole(list)
    BY Zenon DEF BranchState, Rooted
<1>2. a \in Branched!BranchIds
    BY <1>1, Zenon DEF IsTree
<1>3. \A i \in 1 .. Len(list) : list[i].id.by # r
    <2>1. r # "seed"
        BY Zenon DEF Branched!BranchingAssumption
    <2>2. turns[r].phase # "done"
        OBVIOUS
    <2> QED BY <1>1, <2>1, <2>2, Zenon DEF Recorded
<1>4. /\ Log(more) /\ AllWhole(more)
      /\ \A b : \E w \in Seq(Branched!BranchMessage) :
            Branched!Own(more, b) = Branched!Own(list, b) \o w
      /\ \A i \in 1 .. Len(more) :
            \/ i \in 1 .. Len(list) /\ more[i] = list[i]
            \/ more[i].id.by = r /\ more[i].branch = a
    <2>1. GoneOn(list, more, r, a)
        BY <1>1, <1>2, <1>3, LogGoesOn
    <2> QED BY <2>1, Zenon DEF GoneOn
<1>5. Longer(tree, list, more)
    BY <1>4, Zenon DEF Longer
<1>6. turns2 \in [Requests -> Turns] /\ turns2[r].phase = "done"
      /\ \A q \in Requests : turns[q].phase = "done" => turns2[q].phase = "done"
    BY <1>1, SMT DEF Turns
<1> HIDE DEF more, turns2
<1>7. Placed(tree, more)
    BY <1>1, <1>4, Zenon DEF Placed
<1>8. Recorded(more, turns2)
    <2> SUFFICES ASSUME NEW i \in 1 .. Len(more), more[i].id.by # "seed"
                 PROVE  turns2[more[i].id.by].phase = "done"
        BY Zenon DEF Recorded
    <2>1. CASE more[i].id.by = r
        BY <1>6, <2>1, Zenon
    <2>2. CASE i \in 1 .. Len(list) /\ more[i] = list[i]
        <3>1. turns[list[i].id.by].phase = "done"
            BY <1>1, <2>2, Zenon DEF Recorded
        <3>2. list[i] \in Branched!BranchMessage
            BY <1>1, <2>2 DEF Log
        <3>3. list[i].id.by \in Requests \cup {"seed"}
            BY <3>2 DEF Branched!BranchMessage, Branched!Id
        <3> QED BY <1>6, <2>2, <3>1, <3>3, Zenon
    <2> QED BY <1>4, <2>1, <2>2, Zenon
<1>9. /\ \A b \in DOMAIN tree : Within(H[b], G[b])
      /\ \A b \in DOMAIN tree : Listed(list, b, H[b])
      /\ \A b \in DOMAIN tree : Listed(more, b, G[b])
    BY <1>1, <1>4, <1>5, HistoriesGrow, HistoryIsListed
<1>10. Forked(tree, G)
    <2> HIDE DEF H, G
    <2> SUFFICES ASSUME NEW b \in DOMAIN tree, tree[b].parent # NoBranch
                 PROVE  IF tree[b].checkpoint = NoMessage
                        THEN ~Branched!HasMessage(G[tree[b].parent], NoMessage)
                        ELSE Branched!HasMessage(G[tree[b].parent], tree[b].checkpoint)
        BY Zenon DEF Forked
    <2> DEFINE p == tree[b].parent
    <2>1. p \in DOMAIN tree
        BY <1>1, Zenon DEF IsTree
    <2>2. Within(H[p], G[p]) /\ H[p] \in Seq(Branched!BranchMessage) /\ G[p] \in Seq(Branched!BranchMessage)
        BY <1>9, <2>1, Zenon DEF Listed
    <2>3. CASE tree[b].checkpoint = NoMessage
        <3>1. ~Branched!HasMessage(G[p], NoMessage)
            BY <2>2, NoMessageShown
        <3> QED BY <2>3, <3>1, Zenon
    <2>4. CASE tree[b].checkpoint # NoMessage
        <3>1. Branched!HasMessage(H[p], tree[b].checkpoint)
            BY <1>1, <2>4, Zenon DEF Forked
        <3>2. Branched!HasMessage(G[p], tree[b].checkpoint)
            BY <2>2, <3>1, WithinHas
        <3> QED BY <2>4, <3>2, Zenon
    <2> QED BY <2>3, <2>4
<1>11. PastKept(tree, list, tree, more)
    <2> SUFFICES ASSUME NEW b \in DOMAIN tree, Branched!Anchored(tree, b)
                 PROVE  Branched!Inherited(tree, more, b) = Branched!Inherited(tree, list, b)
        BY Zenon DEF PastKept
    <2> QED BY <1>1, <1>4, <1>5, AnchoredStays
<1>12. BranchState(tree, more, a, m, turns2)
    BY <1>1, <1>4, <1>6, <1>7, <1>8, <1>10, Zenon DEF BranchState
<1> QED BY <1>11, <1>12, Zenon DEF more, turns2

WithBranch(tree, n, p, c) ==
    [b \in DOMAIN tree \cup {n} |-> IF b = n THEN [parent |-> p, checkpoint |-> c] ELSE tree[b]]

\* A branch that is created.
LEMMA BranchKeepsBranches ==
    ASSUME Branched!BranchingAssumption, NEW tree, NEW list, NEW a, NEW m, NEW turns,
           BranchState(tree, list, a, m, turns), m < MaxBranches,
           NEW p \in DOMAIN tree, NEW c \in Branched!Id \cup {NoMessage},
           c # NoMessage => Branched!HasMessage(Branched!Histories(tree, list)[p], c),
           NEW tree2, tree2 = WithBranch(tree, m + 1, p, c)
    PROVE  BranchState(tree2, list, m + 1, m + 1, turns) /\ PastKept(tree, list, tree2, list)
<1> DEFINE H == Branched!Histories(tree, list)
           G == Branched!Histories(tree2, list)
           D == DOMAIN tree
           n == m + 1
<1>1. /\ m \in Branched!BranchIds
      /\ turns \in [Requests -> Turns]
      /\ Rooted(tree, m) /\ IsTree(tree)
      /\ Log(list) /\ Placed(tree, list) /\ Recorded(list, turns)
      /\ Forked(tree, H)
      /\ AllWhole(list)
    BY Zenon DEF BranchState, Rooted
<1>2. /\ D \subseteq Branched!BranchIds
      /\ \A b \in D : tree[b].parent = NoBranch \/ (tree[b].parent \in D /\ tree[b].parent < b)
      /\ \A b \in D : tree[b] \in Branched!Branch
      /\ D \subseteq 1 .. m
      /\ \A b \in D : tree[b].parent = NoBranch => \A x \in D : b <= x
    BY <1>1, Zenon DEF Rooted, IsTree
<1>3. n \in Branched!BranchIds /\ 1 .. m \subseteq 1 .. n /\ n \in 1 .. n /\ n \notin 1 .. m
      /\ \A b \in 1 .. m : b < n
    BY <1>1 DEF Branched!BranchIds, Branched!BranchingAssumption
<1>4. NoBranch \notin Branched!BranchIds
    BY BranchNumbers
<1> DEFINE new == [parent |-> p, checkpoint |-> c]
<1>5. /\ DOMAIN tree2 = D \cup {n}
      /\ tree2[n] = new
      /\ \A b \in D : tree2[b] = tree[b]
    <2>1. n \notin D
        BY <1>2, <1>3
    <2> HIDE DEF n, new, D
    <2>2. tree2 = [b \in D \cup {n} |-> IF b = n THEN new ELSE tree[b]]
        BY Zenon DEF n, new, D, WithBranch
    <2> QED BY <2>1, <2>2, Zenon
<1>6. new \in Branched!Branch /\ new.parent = p /\ new.checkpoint = c
    BY <1>2 DEF Branched!Branch
<1> HIDE DEF n, new, D
<1>7. p \in D /\ p # NoBranch /\ p < n
    BY <1>2, <1>3, <1>4, Zenon DEF D
<1>8. IsTree(tree2)
    <2>1. DOMAIN tree2 \subseteq Branched!BranchIds
        BY <1>2, <1>3, <1>5
    <2>2. \A b \in DOMAIN tree2 :
             tree2[b].parent = NoBranch
             \/ (tree2[b].parent \in DOMAIN tree2 /\ tree2[b].parent < b)
        <3> TAKE b \in DOMAIN tree2
        <3>1. CASE b \in D
            BY <1>2, <1>5, <3>1, Zenon
        <3>2. CASE b = n
            BY <1>5, <1>6, <1>7, <3>2, Zenon
        <3> QED BY <1>5, <3>1, <3>2
    <2> QED BY <2>1, <2>2, Zenon DEF IsTree
<1>9. Rooted(tree2, n)
    <2>1. \A b \in DOMAIN tree2 : tree2[b] \in Branched!Branch
        BY <1>2, <1>5, <1>6, Zenon
    <2>2. DOMAIN tree2 \subseteq 1 .. n
        BY <1>2, <1>3, <1>5
    <2>3. \A b \in DOMAIN tree2 : tree2[b].parent = NoBranch => \A x \in DOMAIN tree2 : b <= x
        <3> SUFFICES ASSUME NEW b \in DOMAIN tree2, tree2[b].parent = NoBranch, NEW x \in DOMAIN tree2
                     PROVE  b <= x
            BY Zenon
        <3>1. b \in D
            BY <1>5, <1>6, <1>7, Zenon
        <3>2. CASE x \in D
            BY <1>2, <1>5, <3>1, <3>2, Zenon
        <3>3. CASE x = n
            <4>1. b < n /\ b \in Nat /\ n \in Nat
                BY <1>2, <1>3, <3>1, BranchNumbers
            <4> QED BY <3>3, <4>1
        <3> QED BY <1>5, <3>2, <3>3
    <2> QED BY <1>8, <2>1, <2>2, <2>3, Zenon DEF Rooted
<1>10. \A b \in D : G[b] = H[b]
    <2>1. DOMAIN tree \subseteq DOMAIN tree2 /\ \A b \in DOMAIN tree : tree2[b] = tree[b]
        BY <1>5 DEF D
    <2>2. \A b \in DOMAIN tree :
              Branched!Histories(tree2, list)[b] = Branched!Histories(tree, list)[b]
        BY <1>1, <1>8, <2>1, HistoriesStay
    <2> QED BY <2>2 DEF D
<1>11. \A b \in D : H[b] \in Seq(Branched!BranchMessage)
    <2>1. \A b \in DOMAIN tree : Listed(list, b, H[b])
        BY <1>1, HistoryIsListed
    <2> QED BY <2>1, Zenon DEF Listed, D
<1>12. c # NoMessage => Branched!HasMessage(H[p], c)
    OBVIOUS
<1>13. Forked(tree, H)
    BY <1>1
<1> HIDE DEF H, G
<1>14. Forked(tree2, G)
    <2> SUFFICES ASSUME NEW b \in DOMAIN tree2, tree2[b].parent # NoBranch
                 PROVE  IF tree2[b].checkpoint = NoMessage
                        THEN ~Branched!HasMessage(G[tree2[b].parent], NoMessage)
                        ELSE Branched!HasMessage(G[tree2[b].parent], tree2[b].checkpoint)
        BY Zenon DEF Forked
    <2>1. CASE b = n
        <3>1. tree2[b].parent = p /\ tree2[b].checkpoint = c /\ G[p] = H[p]
            BY <1>5, <1>6, <1>7, <1>10, <2>1, Zenon
        <3>2. ~Branched!HasMessage(H[p], NoMessage)
            BY <1>7, <1>11, NoMessageShown
        <3> QED BY <1>12, <3>1, <3>2, Zenon
    <2>2. CASE b \in D
        <3>1. tree2[b] = tree[b] /\ tree[b].parent \in D
            BY <1>2, <1>5, <2>2, Zenon
        <3>2. G[tree[b].parent] = H[tree[b].parent]
            BY <1>10, <3>1, Zenon
        <3> QED BY <1>13, <2>2, <3>1, <3>2, Zenon DEF Forked, D
    <2> QED BY <1>5, <2>1, <2>2
<1>15. PastKept(tree, list, tree2, list)
    <2> SUFFICES ASSUME NEW b \in D
                 PROVE  Branched!Inherited(tree2, list, b) = Branched!Inherited(tree, list, b)
        BY Zenon DEF PastKept, D
    <2>1. tree2[b] = tree[b] /\ (tree[b].parent # NoBranch => G[tree[b].parent] = H[tree[b].parent])
        BY <1>2, <1>5, <1>10, Zenon
    <2>2. CASE tree[b].parent = NoBranch
        BY <2>1, <2>2, Zenon DEF Branched!Inherited
    <2>3. CASE tree[b].parent # NoBranch
        <3>1. Branched!Inherited(tree2, list, b) = Branched!UpTo(G[tree2[b].parent], tree2[b].checkpoint)
            BY <2>1, <2>3, Zenon DEF Branched!Inherited, G
        <3>2. Branched!Inherited(tree, list, b) = Branched!UpTo(H[tree[b].parent], tree[b].checkpoint)
            BY <2>3, Zenon DEF Branched!Inherited, H
        <3> QED BY <2>1, <2>3, <3>1, <3>2, Zenon
    <2> QED BY <2>2, <2>3
<1>16. Placed(tree2, list) /\ n \in DOMAIN tree2
    BY <1>1, <1>5, Zenon DEF Placed, D
<1>17. BranchState(tree2, list, n, n, turns)
    BY <1>1, <1>3, <1>9, <1>14, <1>16, Zenon DEF BranchState, G
<1> QED BY <1>15, <1>17, Zenon DEF n

\* A conversation of one branch without messages.
LEMMA RootIsBranches ==
    ASSUME Branched!BranchingAssumption, NEW n \in Branched!BranchIds,
           NEW turns \in [Requests -> Turns]
    PROVE  BranchState([b \in {n} |-> Branched!Root], <<>>, n, n, turns)
<1> DEFINE tree == [b \in {n} |-> Branched!Root]
           root == Branched!Root
<1>1. root.parent = NoBranch /\ root \in Branched!Branch
    BY DEF Branched!Root, Branched!Branch
<1> HIDE DEF root
<1>2. DOMAIN tree = {n} /\ \A b \in DOMAIN tree : tree[b] = root
    BY Zenon DEF root
<1> HIDE DEF tree
<1>3. n \in Nat /\ n \in 1 .. n /\ n <= n
    BY DEF Branched!BranchIds
<1>4. IsTree(tree)
    <2>1. DOMAIN tree \subseteq Branched!BranchIds
        BY <1>2
    <2> QED BY <1>1, <1>2, <2>1, Zenon DEF IsTree
<1>5. Rooted(tree, n)
    <2>1. DOMAIN tree \subseteq 1 .. n /\ \A b, c \in DOMAIN tree : b <= c
        BY <1>2, <1>3
    <2> QED BY <1>1, <1>2, <1>4, <2>1, Zenon DEF Rooted
<1>6. Placed(tree, <<>>) /\ Recorded(<<>>, turns)
    <2>1. \A i \in 1 .. Len(<<>>) : FALSE
        OBVIOUS
    <2> QED BY <2>1, Zenon DEF Placed, Recorded
<1>7. Forked(tree, Branched!Histories(tree, <<>>))
    BY <1>1, <1>2, Zenon DEF Forked
<1>8. n \in DOMAIN tree
    BY <1>2
<1>9. BranchState(tree, <<>>, n, n, turns)
    BY <1>5, <1>6, <1>7, <1>8, NothingIsWhole, Zenon DEF BranchState
<1> QED BY <1>9 DEF tree, root

\* The messages of the demo: on one branch, which ends with the last of them.
SeedMessages(n, root) ==
    [i \in 1 .. n |-> [id |-> [by |-> "seed", number |-> i], branch |-> root]]

LEMMA SeedIsLog ==
    ASSUME Branched!BranchingAssumption, NEW n \in Nat, NEW root \in Branched!BranchIds
    PROVE  /\ Log(SeedMessages(n, root)) /\ Len(SeedMessages(n, root)) = n
           /\ \A i \in 1 .. n :
                 /\ SeedMessages(n, root)[i].branch = root
                 /\ SeedMessages(n, root)[i].id.by = "seed"
                 /\ SeedMessages(n, root)[i].id = [by |-> "seed", number |-> i]
<1> DEFINE list == SeedMessages(n, root)
           Seeded(i) == [id |-> [by |-> "seed", number |-> i], branch |-> root]
<1>1. \A i \in 1 .. n :
         /\ Seeded(i) \in Branched!BranchMessage
         /\ Seeded(i).branch = root /\ Seeded(i).id.by = "seed" /\ Seeded(i).id.number = i
         /\ Seeded(i).id = [by |-> "seed", number |-> i]
    BY DEF Branched!BranchMessage, Branched!Id
<1>2. list = [i \in 1 .. n |-> Seeded(i)]
    BY Zenon DEF SeedMessages
<1> HIDE DEF Seeded, list
<1>3. /\ list \in Seq(Branched!BranchMessage) /\ Len(list) = n
      /\ \A i \in 1 .. n : list[i] = Seeded(i)
    <2> DEFINE M == Branched!BranchMessage
    <2>1. list \in [1 .. n -> M] /\ \A i \in 1 .. n : list[i] = Seeded(i)
        BY <1>1, <1>2, Zenon
    <2> HIDE DEF M
    <2>2. list \in Seq(M) /\ Len(list) = n
        BY <2>1
    <2> QED BY <2>1, <2>2 DEF M
<1>4. ASSUME NEW i \in 1 .. n, NEW j \in 1 .. n, list[i].id = list[j].id PROVE i = j
    <2>1. Seeded(i).id.number = Seeded(j).id.number
        BY <1>3, <1>4, Zenon
    <2>2. Seeded(i).id.number = i /\ Seeded(j).id.number = j
        BY <1>1
    <2> QED BY <2>1, <2>2, Zenon
<1>5. Log(list)
    BY <1>3, <1>4, Zenon DEF Log
<1>6. \A i \in 1 .. n :
         /\ list[i].branch = root /\ list[i].id.by = "seed"
         /\ list[i].id = [by |-> "seed", number |-> i]
    <2> TAKE i \in 1 .. n
    <2>1. list[i] = Seeded(i)
        BY <1>3, Zenon
    <2>2. /\ Seeded(i).branch = root /\ Seeded(i).id.by = "seed"
          /\ Seeded(i).id = [by |-> "seed", number |-> i]
        BY <1>1, Zenon
    <2> QED BY <2>1, <2>2, Zenon
<1> QED BY <1>3, <1>5, <1>6, Zenon DEF list

\* The last message of a branch is its own, if it is of the branch.
LEMMA LastIsOwn ==
    ASSUME NEW list, Log(list), NEW n \in Nat, Len(list) = n + 1
    PROVE  Branched!HasMessage(Branched!Own(list, list[n + 1].branch), list[n + 1].id)
<1> DEFINE M == Branched!BranchMessage
           front == SubSeq(list, 1, n)
           x == list[n + 1]
<1>1. list \in Seq(M) /\ \A i, j \in 1 .. Len(list) : list[i].id = list[j].id => i = j
    BY Zenon DEF Log
<1>2. /\ front \in Seq(M) /\ Len(front) = n /\ x \in M
      /\ \A i \in 1 .. n : front[i] = list[i] /\ i \in 1 .. Len(list)
    <2> HIDE DEF M
    <2> QED BY <1>1
<1> HIDE DEF front
<1>3. Append(front, x) = list
    <2>1. x = list[n + 1]
        OBVIOUS
    <2> HIDE DEF x, M
    <2>2. /\ Append(front, x) \in Seq(M) /\ Len(Append(front, x)) = n + 1
          /\ \A i \in 1 .. n + 1 : Append(front, x)[i] = list[i]
        BY <1>2, <2>1
    <2> QED BY <1>1, <2>2, SeqEqual
<1> HIDE DEF x
<1>4. Log(front)
    BY <1>1, <1>2, Zenon DEF Log
<1> DEFINE own == Branched!Own(front, x.branch)
<1>5. own \in Seq(M)
    <2>1. Chosen(front, x.branch, Len(front), own)
        BY <1>4, OwnIsChosen
    <2> QED BY <2>1, Zenon DEF Chosen
<1>6. Branched!Own(Append(front, x), x.branch)
        = IF x.branch = x.branch THEN Append(own, x) ELSE own
    BY <1>2, OwnAppends
<1> HIDE DEF own, M
<1>7. Len(own) + 1 \in 1 .. Len(Append(own, x)) /\ Append(own, x)[Len(own) + 1] = x
    BY <1>2, <1>5
<1>8. Branched!Own(list, x.branch) = Append(own, x)
    BY <1>3, <1>6, Zenon
<1> QED BY <1>7, <1>8, Zenon DEF Branched!HasMessage, x

\* The demo.
LEMMA SeedIsBranches ==
    ASSUME Branched!BranchingAssumption, NEW m \in Branched!BranchIds, m + 3 <= MaxBranches,
           NEW turns \in [Requests -> Turns], NEW end,
           end = IF SeedLength = 0 THEN NoMessage ELSE [by |-> "seed", number |-> SeedLength],
           NEW tree, tree = [b \in m + 1 .. m + 3 |->
                               IF b = m + 1 THEN Branched!Root
                               ELSE [parent |-> m + 1, checkpoint |-> end]]
    PROVE  BranchState(tree, SeedMessages(SeedLength, m + 1), m + 2, m + 3, turns)
<1> DEFINE list == SeedMessages(SeedLength, m + 1)
           first == m + 1
           D == m + 1 .. m + 3
           fork == [parent |-> m + 1, checkpoint |-> end]
           root == Branched!Root
           H == Branched!Histories(tree, list)
<1>1. SeedLength \in Nat /\ MaxBranches \in Nat /\ NoBranch \notin Nat
    BY DEF Branched!BranchingAssumption
<1>2. /\ first \in Branched!BranchIds /\ first \in Nat /\ D \subseteq Branched!BranchIds
      /\ first \in D /\ m + 2 \in D /\ m + 3 \in Branched!BranchIds
      /\ D \subseteq 1 .. m + 3 /\ \A b \in D : first <= b /\ (b # first => first < b)
    BY <1>1 DEF Branched!BranchIds
<1>3. end \in Branched!Id \cup {NoMessage}
    BY <1>1 DEF Branched!Id
<1>4. /\ root.parent = NoBranch /\ root \in Branched!Branch
      /\ fork.parent = first /\ fork.checkpoint = end /\ fork \in Branched!Branch
    BY <1>2, <1>3 DEF Branched!Root, Branched!Branch
<1>5. tree = [b \in D |-> IF b = first THEN root ELSE fork]
    BY Zenon
<1> HIDE DEF root, fork, D, first
<1>6. DOMAIN tree = D /\ tree[first] = root /\ \A b \in D : b # first => tree[b] = fork
    BY <1>2, <1>5, Zenon
<1>7. first # NoBranch
    BY <1>1, <1>2
<1>8. IsTree(tree)
    BY <1>2, <1>4, <1>6, Zenon DEF IsTree
<1>9. Rooted(tree, m + 3)
    BY <1>2, <1>4, <1>6, <1>7, <1>8, Zenon DEF Rooted
<1>10. /\ Log(list) /\ Len(list) = SeedLength
       /\ \A i \in 1 .. SeedLength :
             /\ list[i].branch = first /\ list[i].id.by = "seed"
             /\ list[i].id = [by |-> "seed", number |-> i]
    BY <1>1, <1>2, SeedIsLog DEF first
<1> HIDE DEF list
<1>11. Placed(tree, list) /\ Recorded(list, turns)
    BY <1>2, <1>6, <1>10, Zenon DEF Placed, Recorded
<1>12. AllWhole(list)
    BY <1>10, SeedIsWhole
<1>13. /\ \A b \in DOMAIN tree : Listed(list, b, H[b])
       /\ \A b \in DOMAIN tree : H[b] = Shown(tree, list, H, b)
    <2>1. Log(list)
        BY <1>10
    <2>2. \A b \in DOMAIN tree : Listed(list, b, Branched!Histories(tree, list)[b])
        BY <1>8, <2>1, HistoryIsListed
    <2>3. \A b \in DOMAIN tree :
              Branched!Histories(tree, list)[b]
                = Shown(tree, list, Branched!Histories(tree, list), b)
        BY <1>8, HistoriesAre
    <2> QED BY <2>2, <2>3, Zenon
<1> HIDE DEF H
<1>14. IF end = NoMessage THEN ~Branched!HasMessage(H[first], NoMessage)
       ELSE Branched!HasMessage(H[first], end)
    <2>1. CASE end = NoMessage
        <3>1. H[first] \in Seq(Branched!BranchMessage)
            BY <1>2, <1>6, <1>13, Zenon DEF Listed
        <3>2. ~Branched!HasMessage(H[first], NoMessage)
            BY <3>1, NoMessageShown
        <3> QED BY <2>1, <3>2, Zenon
    <2>2. CASE end # NoMessage
        <3>1. SeedLength # 0 /\ end = [by |-> "seed", number |-> SeedLength]
            BY <2>2
        <3>2. SeedLength - 1 \in Nat /\ SeedLength = (SeedLength - 1) + 1 /\ SeedLength \in 1 .. SeedLength
            BY <1>1, <3>1
        <3>3. Branched!HasMessage(Branched!Own(list, list[SeedLength].branch), list[SeedLength].id)
            <4> DEFINE n == SeedLength - 1
            <4>1. n \in Nat /\ Len(list) = n + 1 /\ n + 1 = SeedLength
                BY <1>10, <3>2
            <4> HIDE DEF n
            <4>2. Branched!HasMessage(Branched!Own(list, list[n + 1].branch), list[n + 1].id)
                BY <1>10, <4>1, LastIsOwn
            <4> QED BY <4>1, <4>2
        <3>4. H[first] = Branched!Own(list, first)
            BY <1>2, <1>4, <1>6, <1>13, Zenon DEF Shown
        <3>5. list[SeedLength].branch = first /\ list[SeedLength].id = end
            BY <1>10, <3>1, <3>2, Zenon
        <3> QED BY <2>2, <3>3, <3>4, <3>5, Zenon
    <2> QED BY <2>1, <2>2
<1>15. Forked(tree, H)
    <2> SUFFICES ASSUME NEW b \in DOMAIN tree, tree[b].parent # NoBranch
                 PROVE  IF tree[b].checkpoint = NoMessage
                        THEN ~Branched!HasMessage(H[tree[b].parent], NoMessage)
                        ELSE Branched!HasMessage(H[tree[b].parent], tree[b].checkpoint)
        BY Zenon DEF Forked
    <2>1. tree[b].parent = first /\ tree[b].checkpoint = end
        BY <1>4, <1>6, Zenon
    <2> QED BY <1>14, <2>1, Zenon
<1>16. BranchState(tree, list, m + 2, m + 3, turns)
    BY <1>2, <1>6, <1>9, <1>10, <1>11, <1>12, <1>15, Zenon DEF BranchState, H
<1> QED BY <1>16 DEF list, first

LEMMA BranchStep ==
    ASSUME Branched!BranchingAssumption, BranchInv, Branched!Next
    PROVE  BranchInv' /\ PastKept(branches, messages, branches', messages')
<1> DEFINE H == Branched!Histories(branches, messages)
<1>1. /\ madeBranches \in Branched!BranchIds /\ activeBranch \in DOMAIN branches
      /\ branchRequest \in [Requests -> Turns]
      /\ IsTree(branches) /\ DOMAIN branches \subseteq 1 .. madeBranches
      /\ Log(messages) /\ Placed(branches, messages) /\ Recorded(messages, branchRequest)
      /\ AllWhole(messages)
    BY Zenon DEF BranchInv, BranchState, Rooted
<1>2. \A b \in DOMAIN branches : H[b] \in Seq(Branched!BranchMessage)
    <2>1. \A b \in DOMAIN branches : Listed(messages, b, H[b])
        BY <1>1, HistoryIsListed
    <2> QED BY <2>1, Zenon DEF Listed
<1>3. ASSUME NEW tree, NEW list, NEW a, NEW m, NEW turns, BranchState(tree, list, a, m, turns),
             PastKept(branches, messages, tree, list),
             branches' = tree, messages' = list, activeBranch' = a, madeBranches' = m,
             branchRequest' = turns
      PROVE  BranchInv' /\ PastKept(branches, messages, branches', messages')
    BY <1>3, Zenon DEF BranchInv
\* What another active branch, or another state of a request, leaves alone.
<1>4. ASSUME NEW a \in DOMAIN branches, NEW turns \in [Requests -> Turns],
             \A r \in Requests : branchRequest[r].phase = "done" => turns[r].phase = "done"
      PROVE  /\ BranchState(branches, messages, a, madeBranches, turns)
             /\ PastKept(branches, messages, branches, messages)
    <2>1. Recorded(messages, turns)
        <3> SUFFICES ASSUME NEW i \in 1 .. Len(messages), messages[i].id.by # "seed"
                     PROVE  turns[messages[i].id.by].phase = "done"
            BY Zenon DEF Recorded
        <3>1. messages[i] \in Branched!BranchMessage
            BY <1>1 DEF Log
        <3>2. messages[i].id.by \in Requests \cup {"seed"}
            BY <3>1 DEF Branched!BranchMessage, Branched!Id
        <3>3. branchRequest[messages[i].id.by].phase = "done"
            BY <1>1, Zenon DEF Recorded
        <3> QED BY <1>4, <3>2, <3>3, Zenon
    <2>2. PastKept(branches, messages, branches, messages)
        BY Zenon DEF PastKept
    <2> QED BY <2>1, <2>2, Zenon DEF BranchInv, BranchState
\* A conversation that starts anew has other branches.
<1>5. ASSUME NEW tree, NEW list, DOMAIN tree \cap 1 .. madeBranches = {}
      PROVE  PastKept(branches, messages, tree, list)
    <2>1. DOMAIN branches \cap DOMAIN tree = {}
        BY <1>1, <1>5
    <2> QED BY <2>1, Zenon DEF PastKept
<1>6. ASSUME NEW p \in Branched!BranchIds, NEW c \in Branched!Checkpoints,
             Branched!CreateBranch(p, c)
      PROVE  BranchInv' /\ PastKept(branches, messages, branches', messages')
    <2> DEFINE c2 == Branched!CheckpointOr(p, c)
    <2>1. /\ madeBranches < MaxBranches /\ p \in DOMAIN branches
          /\ Branched!CheckpointAllowed(p, c) /\ madeBranches' = madeBranches + 1
          /\ branches' = WithBranch(branches, madeBranches + 1, p, c2)
          /\ activeBranch' = madeBranches + 1
          /\ messages' = messages /\ branchRequest' = branchRequest
        BY <1>6, Zenon DEF Branched!CreateBranch, WithBranch
    <2>2. H[p] \in Seq(Branched!BranchMessage)
        BY <1>2, <2>1, Zenon
    <2>3. /\ c = NoMessage \/ Branched!HasMessage(H[p], c)
          /\ c2 = IF c = NoMessage /\ H[p] # <<>> THEN H[p][Len(H[p])].id ELSE c
        BY <2>1, Zenon DEF Branched!CheckpointAllowed, Branched!CheckpointOr, Branched!HistoryOf
    <2>4. c \in Branched!Id \cup {NoMessage}
        <3>1. CASE c # NoMessage
            <4>1. PICK i \in 1 .. Len(messages) : c = messages[i].id
                BY <3>1, Zenon DEF Branched!Checkpoints
            <4>2. messages[i] \in Branched!BranchMessage
                BY <1>1 DEF Log
            <4> QED BY <4>1, <4>2 DEF Branched!BranchMessage
        <3> QED BY <3>1
    <2> DEFINE h == H[p]
    <2> HIDE DEF c2, h
    <2>5. c2 \in Branched!Id \cup {NoMessage} /\ (c2 # NoMessage => Branched!HasMessage(h, c2))
        <3>1. CASE c = NoMessage /\ h # <<>>
            <4>1. Len(h) \in 1 .. Len(h) /\ h[Len(h)] \in Branched!BranchMessage
                BY <2>2, <3>1 DEF h
            <4>2. c2 = h[Len(h)].id
                BY <2>3, <3>1, Zenon DEF h
            <4>3. c2 \in Branched!Id
                BY <4>1, <4>2 DEF Branched!BranchMessage
            <4> QED BY <4>1, <4>2, <4>3, Zenon DEF Branched!HasMessage
        <3>2. CASE ~(c = NoMessage /\ h # <<>>)
            <4>1. c2 = c
                BY <2>3, <3>2, Zenon DEF h
            <4> QED BY <2>3, <2>4, <4>1, Zenon DEF h
        <3> QED BY <3>1, <3>2
    <2>6. BranchState(branches, messages, activeBranch, madeBranches, branchRequest)
        BY DEF BranchInv
    <2>7. PICK tree : tree = branches'
        OBVIOUS
    <2>8. /\ BranchState(tree, messages, madeBranches + 1, madeBranches + 1, branchRequest)
          /\ PastKept(branches, messages, tree, messages)
        BY <2>1, <2>5, <2>6, <2>7, BranchKeepsBranches DEF h
    <2> QED BY <1>3, <2>1, <2>7, <2>8, Zenon
<1>7. ASSUME NEW b, Branched!Activate(b)
      PROVE  BranchInv' /\ PastKept(branches, messages, branches', messages')
    <2>1. /\ b \in DOMAIN branches /\ activeBranch' = b /\ branches' = branches
          /\ messages' = messages /\ madeBranches' = madeBranches
          /\ branchRequest' = branchRequest
        BY <1>7, Zenon DEF Branched!Activate
    <2>2. /\ BranchState(branches, messages, b, madeBranches, branchRequest)
          /\ PastKept(branches, messages, branches, messages)
        BY <1>1, <1>4, <2>1
    <2> QED BY <1>3, <2>1, <2>2, Zenon
<1>8. CASE Branched!Reset
    <2> DEFINE n == madeBranches + 1
    <2>1. /\ madeBranches < MaxBranches /\ madeBranches' = n
          /\ branches' = [b \in {n} |-> Branched!Root] /\ messages' = <<>>
          /\ activeBranch' = n /\ branchRequest' = branchRequest
        BY <1>8, Zenon DEF Branched!Reset
    <2>2. n \in Branched!BranchIds /\ {n} \cap 1 .. madeBranches = {}
        BY <1>1, <2>1 DEF Branched!BranchIds, Branched!BranchingAssumption
    <2> HIDE DEF n
    <2> DEFINE tree == [b \in {n} |-> Branched!Root]
    <2>3. BranchState(tree, <<>>, n, n, branchRequest)
        BY <1>1, <2>2, RootIsBranches
    <2>4. DOMAIN tree \cap 1 .. madeBranches = {}
        BY <2>2, Zenon
    <2>5. branches' = tree
        BY <2>1
    <2> HIDE DEF tree
    <2>6. PastKept(branches, messages, tree, <<>>)
        BY <1>5, <2>4
    <2> QED BY <1>3, <2>1, <2>3, <2>5, <2>6, Zenon
<1>9. CASE Branched!SeedDemo
    <2>1. PICK end, list :
             /\ end = IF SeedLength = 0 THEN NoMessage ELSE [by |-> "seed", number |-> SeedLength]
             /\ list = SeedMessages(SeedLength, madeBranches + 1)
        OBVIOUS
    <2>2. /\ madeBranches + 3 <= MaxBranches /\ madeBranches' = madeBranches + 3
          /\ branches' = [b \in madeBranches + 1 .. madeBranches + 3 |->
                            IF b = madeBranches + 1 THEN Branched!Root
                            ELSE [parent |-> madeBranches + 1, checkpoint |-> end]]
          /\ messages' = list /\ activeBranch' = madeBranches + 2
          /\ branchRequest' = branchRequest
        BY <1>9, <2>1, Zenon DEF Branched!SeedDemo, SeedMessages
    <2>3. PICK tree : tree = branches'
        OBVIOUS
    <2>4. BranchState(tree, list, madeBranches + 2, madeBranches + 3, branchRequest)
        <3> DEFINE n == madeBranches
        <3> HIDE DEF n
        <3>1. /\ tree = [b \in n + 1 .. n + 3 |->
                            IF b = n + 1 THEN Branched!Root
                            ELSE [parent |-> n + 1, checkpoint |-> end]]
              /\ n \in Branched!BranchIds /\ n + 3 <= MaxBranches
              /\ list = SeedMessages(SeedLength, n + 1)
            BY <1>1, <2>1, <2>2, <2>3, Zenon DEF n
        <3>2. BranchState(tree, SeedMessages(SeedLength, n + 1), n + 2, n + 3, branchRequest)
            BY <1>1, <2>1, <3>1, SeedIsBranches
        <3> QED BY <3>1, <3>2, Zenon DEF n
    <2>5. DOMAIN tree = madeBranches + 1 .. madeBranches + 3
        BY <2>2, <2>3, Zenon
    <2>6. (madeBranches + 1 .. madeBranches + 3) \cap 1 .. madeBranches = {}
        BY <1>1 DEF Branched!BranchIds
    <2>7. PastKept(branches, messages, tree, list)
        BY <1>5, <2>5, <2>6
    <2> QED BY <1>3, <2>2, <2>3, <2>4, <2>7, Zenon
<1>10. ASSUME NEW r \in Requests, NEW b \in Branched!BranchIds, Branched!Chat(r, b)
       PROVE  BranchInv' /\ PastKept(branches, messages, branches', messages')
    <2>1. PICK turns : turns = [branchRequest EXCEPT ![r] = [phase |-> "asking", branch |-> b]]
        OBVIOUS
    <2>2. /\ branchRequest[r].phase = "idle" /\ b \in DOMAIN branches /\ activeBranch' = b
          /\ branchRequest' = turns
          /\ branches' = branches /\ messages' = messages /\ madeBranches' = madeBranches
        BY <1>10, <2>1, Zenon DEF Branched!Chat
    <2>3. /\ turns \in [Requests -> Turns]
          /\ \A q \in Requests : branchRequest[q].phase = "done" => turns[q].phase = "done"
        BY <1>1, <2>1, <2>2, SMT DEF Turns
    <2>4. /\ BranchState(branches, messages, b, madeBranches, turns)
          /\ PastKept(branches, messages, branches, messages)
        BY <1>4, <2>2, <2>3
    <2> QED BY <1>3, <2>2, <2>4, Zenon
<1>11. ASSUME NEW r \in Requests, Branched!RecordTurn(r)
       PROVE  BranchInv' /\ PastKept(branches, messages, branches', messages')
    <2>1. PICK list, turns :
             /\ list = messages \o Branched!TurnOf(r, activeBranch)
             /\ turns = [branchRequest EXCEPT ![r].phase = "done"]
        OBVIOUS
    <2>2. /\ branchRequest[r].phase = "asking" /\ messages' = list /\ branchRequest' = turns
          /\ branches' = branches /\ activeBranch' = activeBranch /\ madeBranches' = madeBranches
        BY <1>11, <2>1, Zenon DEF Branched!RecordTurn
    <2>3. BranchState(branches, messages, activeBranch, madeBranches, branchRequest)
        BY DEF BranchInv
    <2>4. /\ BranchState(branches, list, activeBranch, madeBranches, turns)
          /\ PastKept(branches, messages, branches, list)
        BY <2>1, <2>2, <2>3, TurnKeepsBranches
    <2> QED BY <1>3, <2>2, <2>4, Zenon
<1>12. ASSUME NEW r \in Requests, Branched!ChatFails(r)
       PROVE  BranchInv' /\ PastKept(branches, messages, branches', messages')
    <2>1. PICK turns : turns = [branchRequest EXCEPT ![r].phase = "failed"]
        OBVIOUS
    <2>2. /\ branchRequest[r].phase = "asking" /\ branchRequest' = turns
          /\ branches' = branches /\ messages' = messages
          /\ activeBranch' = activeBranch /\ madeBranches' = madeBranches
        BY <1>12, <2>1, Zenon DEF Branched!ChatFails
    <2>3. /\ turns \in [Requests -> Turns]
          /\ \A q \in Requests : branchRequest[q].phase = "done" => turns[q].phase = "done"
        BY <1>1, <2>1, <2>2, SMT DEF Turns
    <2>4. /\ BranchState(branches, messages, activeBranch, madeBranches, turns)
          /\ PastKept(branches, messages, branches, messages)
        BY <1>1, <1>4, <2>3
    <2> QED BY <1>3, <2>2, <2>4, Zenon
<1> QED BY <1>6, <1>7, <1>8, <1>9, <1>10, <1>11, <1>12, Zenon DEF Branched!Next

LEMMA BranchInductive ==
    Spec => /\ []BranchInv
            /\ [][PastKept(branches, messages, branches', messages')]_(Branched!vars)
<1>1. Branched!BranchingAssumption
    BY DialogsConstants DEF DialogsAssumption
<1>2. Init => BranchInv
    <2> SUFFICES ASSUME Branched!Init PROVE BranchInv
        BY Zenon DEF Init
    <2>1. PICK turns : turns = [r \in Requests |-> [phase |-> "idle", branch |-> 1]]
        OBVIOUS
    <2>2. /\ branches = [b \in {1} |-> Branched!Root] /\ messages = <<>>
          /\ activeBranch = 1 /\ madeBranches = 1 /\ branchRequest = turns
        BY <2>1, Zenon DEF Branched!Init
    <2>3. turns \in [Requests -> Turns] /\ 1 \in Branched!BranchIds
        BY <1>1, <2>1, BranchNumbers DEF Turns
    <2>4. BranchState([b \in {1} |-> Branched!Root], <<>>, 1, 1, turns)
        BY <1>1, <2>3, RootIsBranches
    <2> QED BY <2>2, <2>4, Zenon DEF BranchInv
<1>3. [Next]_vars => [Branched!Next]_(Branched!vars)
    BY Zenon DEF Next, Only, vars, Branched!vars, branchVars
<1>4. BranchInv /\ UNCHANGED Branched!vars => BranchInv'
    BY Zenon DEF Branched!vars, BranchInv
<1>5. BranchInv /\ [Next]_vars
        => BranchInv' /\ [PastKept(branches, messages, branches', messages')]_(Branched!vars)
    BY <1>1, <1>3, <1>4, BranchStep
<1> QED BY <1>2, <1>5, PTL DEF Spec

\* Whatever is activated, created, reset or seeded while a turn is under way: the
\* branches form a tree and end what they inherit with their checkpoint, turns are
\* recorded whole, and what an anchored branch inherits never changes.
THEOREM BranchesAreKept == Spec => BranchesHold
<1>1. Branched!BranchingAssumption
    BY DialogsConstants DEF DialogsAssumption
<1>2. BranchInv => Branched!ConversationIsTree
    <2> SUFFICES ASSUME BranchInv PROVE Branched!ConversationIsTree
        OBVIOUS
    <2> DEFINE H == Branched!Histories(branches, messages)
    <2>1. /\ Rooted(branches, madeBranches) /\ IsTree(branches)
          /\ Log(messages) /\ Placed(branches, messages) /\ Forked(branches, H)
        BY Zenon DEF BranchInv, BranchState, Rooted
    <2>2. \A b \in DOMAIN branches : Listed(messages, b, H[b])
        BY <1>1, <2>1, HistoryIsListed
    <2>3. ASSUME NEW b \in DOMAIN branches, branches[b].parent # NoBranch
          PROVE  /\ branches[b].parent \in DOMAIN branches /\ branches[b].parent < b
                 /\ branches[b].checkpoint # NoMessage =>
                        /\ Branched!Inherited(branches, messages, b) # <<>>
                        /\ Branched!Inherited(branches, messages, b)
                             [Len(Branched!Inherited(branches, messages, b))].id
                             = branches[b].checkpoint
        <3> DEFINE p == branches[b].parent
                   c == branches[b].checkpoint
                   u == Branched!UpTo(H[p], c)
        <3>1. p \in DOMAIN branches /\ p < b
            BY <2>1, <2>3, Zenon DEF IsTree
        <3>2. Branched!Inherited(branches, messages, b) = u
            BY <2>3, Zenon DEF Branched!Inherited
        <3>3. ASSUME c # NoMessage PROVE u # <<>> /\ u[Len(u)].id = c
            <4>1. Branched!HasMessage(H[p], c)
                BY <2>1, <2>3, <3>3, Zenon DEF Forked
            <4>2. H[p] \in Seq(Branched!BranchMessage)
                BY <2>2, <3>1, Zenon DEF Listed
            <4>3. PICK k : CutAt(H[p], c, u, k)
                BY <4>2, UpToIsCut
            <4> HIDE DEF H, p, c, u
            <4>4. /\ Len(u) = k /\ k \in 1 .. Len(H[p]) /\ H[p][k].id = c
                  /\ \A i \in 1 .. k : u[i] = H[p][i]
                BY <4>1, <4>3, Zenon DEF CutAt
            <4>5. k \in 1 .. k /\ Len(u) # 0
                BY <4>4
            <4>6. u # <<>>
                BY <4>5
            <4>7. u[Len(u)].id = c
                BY <4>4, <4>5, Zenon
            <4> QED BY <4>6, <4>7
        <3> QED BY <3>1, <3>2, <3>3, Zenon
    <2>4. \A b \in DOMAIN branches :
             branches[b].parent = NoBranch => \A c \in DOMAIN branches : b <= c
        BY <2>1, Zenon DEF Rooted
    <2>5. \A i \in 1 .. Len(messages) : messages[i].branch \in DOMAIN branches
        BY <2>1, Zenon DEF Placed
    <2> QED BY <2>3, <2>4, <2>5, Zenon DEF Branched!ConversationIsTree
<1>3. BranchInv => Branched!TurnsStayWhole
    <2> SUFFICES ASSUME BranchInv PROVE Branched!TurnsStayWhole
        OBVIOUS
    <2>1. /\ IsTree(branches) /\ Log(messages) /\ AllWhole(messages)
        BY Zenon DEF BranchInv, BranchState, Rooted
    <2>2. \A b \in DOMAIN branches : Listed(messages, b, Branched!Histories(branches, messages)[b])
        BY <1>1, <2>1, HistoryIsListed
    <2>3. \A b \in DOMAIN branches : \A i, j \in 1 .. Len(Branched!HistoryOf(b)) :
             Branched!HistoryOf(b)[i].id = Branched!HistoryOf(b)[j].id => i = j
        BY <2>2, Zenon DEF Listed, Branched!HistoryOf
    <2>4. \A b \in DOMAIN branches : WholeTurns(Branched!Own(messages, b))
        BY <2>1, Zenon DEF AllWhole, IsTree
    <2> QED BY <2>3, <2>4, Zenon DEF Branched!TurnsStayWhole, WholeTurns
<1>4. PastKept(branches, messages, branches', messages')
        => \A b \in DOMAIN branches \cap DOMAIN branches' :
              Branched!Anchored(branches, b) =>
                 Branched!Inherited(branches', messages', b)
                   = Branched!Inherited(branches, messages, b)
    BY Zenon DEF PastKept
<1> QED BY <1>2, <1>3, <1>4, BranchInductive, PTL DEF BranchesHold, Branched!PastIsFixed

----------------------------------------------------------------------------
(* The lifecycle service of Day 15, here with one request, is the one of   *)
(* LifecycleProofs: what is proved of it there is proved of it here.       *)

LifecycleOf == INSTANCE LifecycleProofs WITH Requests <- OneRequest, MaxTasks <- MaxCycles

\* What LifecycleProofs assumes of its constants.
LEMMA LifecycleAssumed ==
    /\ LifecycleOf!PlansAssumption /\ LifecycleOf!NoTaskAssumption
    /\ LifecycleOf!ServiceAssumption /\ LifecycleOf!OneAtATime
<1>1. /\ Cycled!PlansAssumption /\ Cycled!NoTaskAssumption /\ Cycled!ServiceAssumption
      /\ \A r, q \in OneRequest : r = q
    BY DialogsConstants DEF DialogsAssumption
<1>2. LifecycleOf!PlansAssumption
    BY <1>1 DEF LifecycleOf!PlansAssumption, Cycled!PlansAssumption
<1>3. LifecycleOf!NoTaskAssumption
    BY <1>1 DEF LifecycleOf!NoTaskAssumption, Cycled!NoTaskAssumption,
                LifecycleOf!Task, Cycled!Task, LifecycleOf!STATES, Cycled!STATES,
                LifecycleOf!Verdicts, Cycled!Verdicts
<1>4. LifecycleOf!ServiceAssumption
    BY <1>1 DEF LifecycleOf!ServiceAssumption, Cycled!ServiceAssumption,
                LifecycleOf!IsFiniteSet, Cycled!IsFiniteSet,
                LifecycleOf!Cardinality, Cycled!Cardinality
<1> QED BY <1>1, <1>2, <1>3, <1>4 DEF LifecycleOf!OneAtATime

\* The service starts and steps the same way in both.
LEMMA LifecycleStarts == Cycled!Init => LifecycleOf!Init
    BY Zenon DEF LifecycleOf!Init, Cycled!Init, LifecycleOf!Idle, Cycled!Idle

\* The operations of the machine.
LEMMA OperationsSame ==
    /\ \A t, target : LifecycleOf!Evaluate(t, target) <=> Cycled!Evaluate(t, target)
    /\ \A t, ok : LifecycleOf!Record(t, ok) = Cycled!Record(t, ok)
    /\ \A t, target : LifecycleOf!Apply(t, target) = Cycled!Apply(t, target)
    /\ \A t : LifecycleOf!ApprovePlan(t) = Cycled!ApprovePlan(t)
    /\ \A t, passed, of : LifecycleOf!SetValidation(t, passed, of) = Cycled!SetValidation(t, passed, of)
    /\ \A t : LifecycleOf!Pause(t) = Cycled!Pause(t)
    /\ \A t : LifecycleOf!Resume(t) = Cycled!Resume(t)
    /\ \A t, w : LifecycleOf!Worked(t, w) = Cycled!Worked(t, w)
    /\ \A i : LifecycleOf!Created(i) = Cycled!Created(i)
    /\ \A name, i : LifecycleOf!Seeded(name, i) = Cycled!Seeded(name, i)
    /\ \A e : LifecycleOf!Moved(e) <=> Cycled!Moved(e)
    /\ \A e : LifecycleOf!Final(e) = Cycled!Final(e)
    /\ \A t : LifecycleOf!Untouched(t) = Cycled!Untouched(t)
    /\ \A t : LifecycleOf!InPlace(t) = Cycled!InPlace(t)
<1>1. \A t, target : LifecycleOf!Evaluate(t, target) <=> Cycled!Evaluate(t, target)
    BY Zenon DEF LifecycleOf!Evaluate, Cycled!Evaluate, LifecycleOf!ALLOWED_TRANSITIONS,
        Cycled!ALLOWED_TRANSITIONS, LifecycleOf!Guard, Cycled!Guard,
        LifecycleOf!STATES, Cycled!STATES
<1>2. \A t, ok : LifecycleOf!Record(t, ok) = Cycled!Record(t, ok)
    BY Zenon DEF LifecycleOf!Record, Cycled!Record
<1>3. \A t, target : LifecycleOf!Apply(t, target) = Cycled!Apply(t, target)
    BY Zenon DEF LifecycleOf!Apply, Cycled!Apply, LifecycleOf!ExpectedFor, Cycled!ExpectedFor,
        LifecycleOf!Clamp, Cycled!Clamp
<1>4. \A t : LifecycleOf!ApprovePlan(t) = Cycled!ApprovePlan(t)
    BY Zenon DEF LifecycleOf!ApprovePlan, Cycled!ApprovePlan, LifecycleOf!Record, Cycled!Record
<1>5. \A t, passed, of : LifecycleOf!SetValidation(t, passed, of) = Cycled!SetValidation(t, passed, of)
    BY Zenon DEF LifecycleOf!SetValidation, Cycled!SetValidation, LifecycleOf!Record,
        Cycled!Record
<1>6. \A t : LifecycleOf!Pause(t) = Cycled!Pause(t)
    BY Zenon DEF LifecycleOf!Pause, Cycled!Pause, LifecycleOf!Record, Cycled!Record
<1>7. \A t : LifecycleOf!Resume(t) = Cycled!Resume(t)
    BY Zenon DEF LifecycleOf!Resume, Cycled!Resume, LifecycleOf!Record, Cycled!Record,
        LifecycleOf!ExpectedFor, Cycled!ExpectedFor, LifecycleOf!Clamp, Cycled!Clamp
<1>8. \A t, w : LifecycleOf!Worked(t, w) = Cycled!Worked(t, w)
    BY Zenon DEF LifecycleOf!Worked, Cycled!Worked, LifecycleOf!ExpectedFor,
        Cycled!ExpectedFor, LifecycleOf!Clamp, Cycled!Clamp
<1>9. \A i : LifecycleOf!Created(i) = Cycled!Created(i)
    BY Zenon DEF LifecycleOf!Created, Cycled!Created, LifecycleOf!ExpectedFor,
        Cycled!ExpectedFor, LifecycleOf!Clamp, Cycled!Clamp
<1>10. \A name, i : LifecycleOf!Seeded(name, i) = Cycled!Seeded(name, i)
    <2>1. ASSUME NEW name, NEW i, NEW is, is = LifecycleOf!Seeded(name, i)
          PROVE  is = Cycled!Seeded(name, i)
        BY <2>1, Zenon DEF LifecycleOf!Seeded, Cycled!Seeded, LifecycleOf!Created, Cycled!Created,
            LifecycleOf!ExpectedFor, Cycled!ExpectedFor, LifecycleOf!Clamp,
            Cycled!Clamp
    <2> QED BY <2>1, Zenon
<1>11. \A e : LifecycleOf!Moved(e) <=> Cycled!Moved(e)
    BY Zenon DEF LifecycleOf!Moved, Cycled!Moved
<1>12. \A e : LifecycleOf!Final(e) = Cycled!Final(e)
    BY Zenon DEF LifecycleOf!Final, Cycled!Final, LifecycleOf!Moved, Cycled!Moved
<1>13. \A t : LifecycleOf!Untouched(t) = Cycled!Untouched(t)
    BY Zenon DEF LifecycleOf!Untouched, Cycled!Untouched
<1>14. \A t : LifecycleOf!InPlace(t) = Cycled!InPlace(t)
    BY Zenon DEF LifecycleOf!InPlace, Cycled!InPlace
<1> QED BY <1>1, <1>2, <1>3, <1>4, <1>5, <1>6, <1>7, <1>8, <1>9, <1>10, <1>11, <1>12, <1>13, <1>14, Zenon

\* What a request does to a task.
LEMMA EffectsSame ==
    /\ \A t, target, before : LifecycleOf!Attempt(t, target, before) = Cycled!Attempt(t, target, before)
    /\ \A t, p : LifecycleOf!PlanStored(t, p) = Cycled!PlanStored(t, p)
    /\ \A t, passed, of : LifecycleOf!JudgedBy(t, passed, of) = Cycled!JudgedBy(t, passed, of)
    /\ \A intent, t, e, auto : LifecycleOf!NextAwait(intent, t, e, auto) = Cycled!NextAwait(intent, t, e, auto)
    /\ \A intent, t : LifecycleOf!Intended(intent, t) = Cycled!Intended(intent, t)
<1>1. \A t, target, before : LifecycleOf!Attempt(t, target, before) = Cycled!Attempt(t, target, before)
    <2>1. ASSUME NEW t, NEW target, NEW before, NEW is, is = LifecycleOf!Attempt(t, target, before)
          PROVE  is = Cycled!Attempt(t, target, before)
        BY <2>1, Zenon DEF LifecycleOf!Attempt, Cycled!Attempt, LifecycleOf!Evaluate,
            Cycled!Evaluate, LifecycleOf!Record, Cycled!Record, LifecycleOf!Apply,
            Cycled!Apply, LifecycleOf!ALLOWED_TRANSITIONS, Cycled!ALLOWED_TRANSITIONS,
            LifecycleOf!Guard, Cycled!Guard, LifecycleOf!ExpectedFor,
            Cycled!ExpectedFor, LifecycleOf!STATES, Cycled!STATES, LifecycleOf!Clamp,
            Cycled!Clamp
    <2> QED BY <2>1, Zenon
<1>2. \A t, p : LifecycleOf!PlanStored(t, p) = Cycled!PlanStored(t, p)
    <2>1. ASSUME NEW t, NEW p, NEW is, is = LifecycleOf!PlanStored(t, p)
          PROVE  is = Cycled!PlanStored(t, p)
        BY <2>1, Zenon DEF LifecycleOf!PlanStored, Cycled!PlanStored, LifecycleOf!Attempt,
            Cycled!Attempt, LifecycleOf!Evaluate, Cycled!Evaluate, LifecycleOf!Record,
            Cycled!Record, LifecycleOf!Apply, Cycled!Apply,
            LifecycleOf!ALLOWED_TRANSITIONS, Cycled!ALLOWED_TRANSITIONS,
            LifecycleOf!Guard, Cycled!Guard, LifecycleOf!ExpectedFor,
            Cycled!ExpectedFor, LifecycleOf!STATES, Cycled!STATES, LifecycleOf!Clamp,
            Cycled!Clamp
    <2> QED BY <2>1, Zenon
<1>3. \A t, passed, of : LifecycleOf!JudgedBy(t, passed, of) = Cycled!JudgedBy(t, passed, of)
    <2>1. ASSUME NEW t, NEW passed, NEW of, NEW is, is = LifecycleOf!JudgedBy(t, passed, of)
          PROVE  is = Cycled!JudgedBy(t, passed, of)
        BY <2>1, Zenon DEF LifecycleOf!JudgedBy, Cycled!JudgedBy, LifecycleOf!SetValidation,
            Cycled!SetValidation, LifecycleOf!Attempt, Cycled!Attempt,
            LifecycleOf!Record, Cycled!Record, LifecycleOf!Evaluate, Cycled!Evaluate,
            LifecycleOf!Apply, Cycled!Apply, LifecycleOf!ALLOWED_TRANSITIONS,
            Cycled!ALLOWED_TRANSITIONS, LifecycleOf!Guard, Cycled!Guard,
            LifecycleOf!ExpectedFor, Cycled!ExpectedFor, LifecycleOf!STATES,
            Cycled!STATES, LifecycleOf!Clamp, Cycled!Clamp
    <2> QED BY <2>1, Zenon
<1>4. \A intent, t, e, auto : LifecycleOf!NextAwait(intent, t, e, auto) = Cycled!NextAwait(intent, t, e, auto)
    <2>1. ASSUME NEW intent, NEW t, NEW e, NEW auto, NEW is, is = LifecycleOf!NextAwait(intent, t, e, auto)
          PROVE  is = Cycled!NextAwait(intent, t, e, auto)
        BY <2>1, Zenon DEF LifecycleOf!NextAwait, Cycled!NextAwait, LifecycleOf!Final, Cycled!Final,
            LifecycleOf!Moved, Cycled!Moved
    <2> QED BY <2>1, Zenon
<1>5. \A intent, t : LifecycleOf!Intended(intent, t) = Cycled!Intended(intent, t)
    <2>1. /\ \A t : LifecycleOf!RunApprove(t) = Cycled!RunApprove(t)
          /\ \A t : LifecycleOf!RunStartExecution(t) = Cycled!RunStartExecution(t)
          /\ \A t : LifecycleOf!RunRequestValidation(t) = Cycled!RunRequestValidation(t)
          /\ \A t, passed : LifecycleOf!RunValidationFlag(t, passed) = Cycled!RunValidationFlag(t, passed)
          /\ \A t : LifecycleOf!RunPlanningStage(t) = Cycled!RunPlanningStage(t)
        <3>1. ASSUME NEW t, NEW is, is = LifecycleOf!RunApprove(t)
              PROVE  is = Cycled!RunApprove(t)
            BY <3>1, Zenon DEF LifecycleOf!RunApprove, Cycled!RunApprove,
                LifecycleOf!ApproveAndStart, Cycled!ApproveAndStart,
                LifecycleOf!InPlace, Cycled!InPlace, LifecycleOf!ApprovePlan,
                Cycled!ApprovePlan, LifecycleOf!Attempt, Cycled!Attempt,
                LifecycleOf!Record, Cycled!Record, LifecycleOf!Evaluate,
                Cycled!Evaluate, LifecycleOf!Apply, Cycled!Apply,
                LifecycleOf!ALLOWED_TRANSITIONS, Cycled!ALLOWED_TRANSITIONS,
                LifecycleOf!Guard, Cycled!Guard, LifecycleOf!ExpectedFor,
                Cycled!ExpectedFor, LifecycleOf!STATES, Cycled!STATES,
                LifecycleOf!Clamp, Cycled!Clamp
        <3>2. ASSUME NEW t, NEW is, is = LifecycleOf!RunStartExecution(t)
              PROVE  is = Cycled!RunStartExecution(t)
            BY <3>2, Zenon DEF LifecycleOf!RunStartExecution, Cycled!RunStartExecution,
                LifecycleOf!Untouched, Cycled!Untouched, LifecycleOf!ApproveAndStart,
                Cycled!ApproveAndStart, LifecycleOf!Attempt, Cycled!Attempt,
                LifecycleOf!ApprovePlan, Cycled!ApprovePlan, LifecycleOf!Evaluate,
                Cycled!Evaluate, LifecycleOf!Record, Cycled!Record, LifecycleOf!Apply,
                Cycled!Apply, LifecycleOf!ALLOWED_TRANSITIONS,
                Cycled!ALLOWED_TRANSITIONS, LifecycleOf!Guard, Cycled!Guard,
                LifecycleOf!ExpectedFor, Cycled!ExpectedFor, LifecycleOf!STATES,
                Cycled!STATES, LifecycleOf!Clamp, Cycled!Clamp
        <3>3. ASSUME NEW t, NEW is, is = LifecycleOf!RunRequestValidation(t)
              PROVE  is = Cycled!RunRequestValidation(t)
            BY <3>3, Zenon DEF LifecycleOf!RunRequestValidation, Cycled!RunRequestValidation,
                LifecycleOf!Untouched, Cycled!Untouched, LifecycleOf!Attempt,
                Cycled!Attempt, LifecycleOf!Evaluate, Cycled!Evaluate,
                LifecycleOf!Record, Cycled!Record, LifecycleOf!Apply, Cycled!Apply,
                LifecycleOf!ALLOWED_TRANSITIONS, Cycled!ALLOWED_TRANSITIONS,
                LifecycleOf!Guard, Cycled!Guard, LifecycleOf!ExpectedFor,
                Cycled!ExpectedFor, LifecycleOf!STATES, Cycled!STATES,
                LifecycleOf!Clamp, Cycled!Clamp
        <3>4. ASSUME NEW t, NEW passed, NEW is, is = LifecycleOf!RunValidationFlag(t, passed)
              PROVE  is = Cycled!RunValidationFlag(t, passed)
            BY <3>4, Zenon DEF LifecycleOf!RunValidationFlag, Cycled!RunValidationFlag,
                LifecycleOf!JudgedBy, Cycled!JudgedBy, LifecycleOf!InPlace,
                Cycled!InPlace, LifecycleOf!SetValidation, Cycled!SetValidation,
                LifecycleOf!Attempt, Cycled!Attempt, LifecycleOf!Record,
                Cycled!Record, LifecycleOf!Evaluate, Cycled!Evaluate,
                LifecycleOf!Apply, Cycled!Apply, LifecycleOf!ALLOWED_TRANSITIONS,
                Cycled!ALLOWED_TRANSITIONS, LifecycleOf!Guard, Cycled!Guard,
                LifecycleOf!ExpectedFor, Cycled!ExpectedFor, LifecycleOf!STATES,
                Cycled!STATES, LifecycleOf!Clamp, Cycled!Clamp
        <3>5. ASSUME NEW t, NEW is, is = LifecycleOf!RunPlanningStage(t)
              PROVE  is = Cycled!RunPlanningStage(t)
            BY <3>5, Zenon DEF LifecycleOf!RunPlanningStage, Cycled!RunPlanningStage,
                LifecycleOf!Untouched, Cycled!Untouched, LifecycleOf!InPlace,
                Cycled!InPlace, LifecycleOf!Record, Cycled!Record
        <3> QED BY <3>1, <3>2, <3>3, <3>4, <3>5, Zenon
    <2>2. ASSUME NEW intent, NEW t, NEW is, is = LifecycleOf!Intended(intent, t)
          PROVE  is = Cycled!Intended(intent, t)
        BY <1>1, <2>1, <2>2, OperationsSame, Zenon DEF LifecycleOf!Intended, Cycled!Intended
    <2> QED BY <2>2, Zenon
<1> QED BY <1>1, <1>2, <1>3, <1>4, <1>5, Zenon

\* A chat turn around an operation.
LEMMA TurnsSame == \A said, e, at : LifecycleOf!InTurn(said, e, at) = Cycled!InTurn(said, e, at)
    BY Zenon DEF LifecycleOf!InTurn, Cycled!InTurn, LifecycleOf!Final, Cycled!Final,
        LifecycleOf!Moved, Cycled!Moved

\* How the outcome is stored.
LEMMA StoringSame ==
    /\ \A r : LifecycleOf!Arrives(r) <=> Cycled!Arrives(r)
    /\ \A r, at : LifecycleOf!Gone(r, at) <=> Cycled!Gone(r, at)
    /\ \A n, d : LifecycleOf!Load(n, d) <=> Cycled!Load(n, d)
    /\ \A r, t, at : LifecycleOf!Install(r, t, at) <=> Cycled!Install(r, t, at)
    /\ \A r, o, e, at : LifecycleOf!Settle(r, o, e, at) <=> Cycled!Settle(r, o, e, at)
<1>1. \A r : LifecycleOf!Arrives(r) <=> Cycled!Arrives(r)
    BY Zenon DEF LifecycleOf!Arrives, Cycled!Arrives
<1>2. \A r, at : LifecycleOf!Gone(r, at) <=> Cycled!Gone(r, at)
    BY Zenon DEF LifecycleOf!Gone, Cycled!Gone, LifecycleOf!Idle, Cycled!Idle
<1>3. \A n, d : LifecycleOf!Load(n, d) <=> Cycled!Load(n, d)
    BY Zenon DEF LifecycleOf!Load, Cycled!Load
<1>4. \A r, t, at : LifecycleOf!Install(r, t, at) <=> Cycled!Install(r, t, at)
    BY Zenon DEF LifecycleOf!Install, Cycled!Install, LifecycleOf!Unused, Cycled!Unused,
        LifecycleOf!Place, Cycled!Place, LifecycleOf!Saves, Cycled!Saves,
        LifecycleOf!Refs, Cycled!Refs
<1>5. \A r, o, e, at : LifecycleOf!Settle(r, o, e, at) <=> Cycled!Settle(r, o, e, at)
    <2>1. ASSUME NEW r, NEW o, NEW e, NEW at, Cycled!Settle(r, o, e, at)
          PROVE  LifecycleOf!Settle(r, o, e, at)
        BY <2>1, Zenon DEF LifecycleOf!Settle, Cycled!Settle, LifecycleOf!Unused, Cycled!Unused,
            LifecycleOf!Moved, Cycled!Moved, LifecycleOf!Place, Cycled!Place,
            LifecycleOf!Saves, Cycled!Saves,
            LifecycleOf!Final, Cycled!Final, LifecycleOf!Refs, Cycled!Refs
    <2>2. ASSUME NEW r, NEW o, NEW e, NEW at, LifecycleOf!Settle(r, o, e, at)
          PROVE  Cycled!Settle(r, o, e, at)
        BY <2>2, Zenon DEF LifecycleOf!Settle, Cycled!Settle, LifecycleOf!Unused, Cycled!Unused,
            LifecycleOf!Moved, Cycled!Moved, LifecycleOf!Place, Cycled!Place,
            LifecycleOf!Saves, Cycled!Saves,
            LifecycleOf!Final, Cycled!Final, LifecycleOf!Refs, Cycled!Refs
    <2> QED BY <2>1, <2>2, Zenon
<1> QED BY <1>1, <1>2, <1>3, <1>4, <1>5, Zenon

LEMMA LifecycleSteps == Cycled!Next => LifecycleOf!Next
<1>1. \A r : Cycled!CreateTask(r) => LifecycleOf!CreateTask(r)
    BY OperationsSame, EffectsSame, StoringSame, Zenon DEF LifecycleOf!CreateTask, Cycled!CreateTask
<1>2. \A r : Cycled!StartTask(r) => LifecycleOf!StartTask(r)
    BY OperationsSame, EffectsSame, StoringSame, Zenon DEF LifecycleOf!StartTask, Cycled!StartTask
<1>3. \A r, name : Cycled!SetupScenario(r, name) => LifecycleOf!SetupScenario(r, name)
    BY OperationsSame, EffectsSame, StoringSame, Zenon DEF LifecycleOf!SetupScenario, Cycled!SetupScenario
<1>4. \A r : Cycled!ResetTask(r) => LifecycleOf!ResetTask(r)
    BY OperationsSame, EffectsSame, StoringSame, Zenon DEF LifecycleOf!ResetTask, Cycled!ResetTask, LifecycleOf!Refs, Cycled!Refs
<1>5. \A r : Cycled!PreparePlan(r) => LifecycleOf!PreparePlan(r)
    BY OperationsSame, EffectsSame, StoringSame, Zenon DEF LifecycleOf!PreparePlan, Cycled!PreparePlan
<1>6. \A r : Cycled!Approve(r) => LifecycleOf!Approve(r)
    BY OperationsSame, EffectsSame, StoringSame, Zenon DEF LifecycleOf!Approve, Cycled!Approve
<1>7. \A r, passed : Cycled!Validate(r, passed) => LifecycleOf!Validate(r, passed)
    BY OperationsSame, EffectsSame, StoringSame, Zenon DEF LifecycleOf!Validate, Cycled!Validate
<1>8. \A r, target : Cycled!Transition(r, target) => LifecycleOf!Transition(r, target)
    BY OperationsSame, EffectsSame, StoringSame, Zenon DEF LifecycleOf!Transition, Cycled!Transition
<1>9. \A r : Cycled!PauseTask(r) => LifecycleOf!PauseTask(r)
    BY OperationsSame, EffectsSame, StoringSame, Zenon DEF LifecycleOf!PauseTask, Cycled!PauseTask
<1>10. \A r : Cycled!ResumeTask(r) => LifecycleOf!ResumeTask(r)
    BY OperationsSame, EffectsSame, StoringSame, Zenon DEF LifecycleOf!ResumeTask, Cycled!ResumeTask
<1>11. \A r : Cycled!Converse(r) => LifecycleOf!Converse(r)
    BY OperationsSame, EffectsSame, StoringSame, Zenon DEF LifecycleOf!Converse, Cycled!Converse
<1>12. \A r, intent : Cycled!ForcedIntent(r, intent) => LifecycleOf!ForcedIntent(r, intent)
    BY OperationsSame, EffectsSame, TurnsSame, StoringSame, Zenon DEF LifecycleOf!ForcedIntent, Cycled!ForcedIntent
<1>13. \A r, intent : Cycled!IntentRecognised(r, intent) => LifecycleOf!IntentRecognised(r, intent)
    BY OperationsSame, EffectsSame, TurnsSame, StoringSame, Zenon DEF LifecycleOf!IntentRecognised, Cycled!IntentRecognised
<1>14. \A r, p : Cycled!PlanReady(r, p) => LifecycleOf!PlanReady(r, p)
    BY OperationsSame, EffectsSame, StoringSame, Zenon DEF LifecycleOf!PlanReady, Cycled!PlanReady
<1>15. \A r : Cycled!WorkDone(r) => LifecycleOf!WorkDone(r)
    BY OperationsSame, EffectsSame, StoringSame, Zenon DEF LifecycleOf!WorkDone, Cycled!WorkDone
<1>16. \A r, passed : Cycled!VerdictReady(r, passed) => LifecycleOf!VerdictReady(r, passed)
    BY OperationsSame, EffectsSame, StoringSame, Zenon DEF LifecycleOf!VerdictReady, Cycled!VerdictReady
<1>17. \A r : Cycled!AnswerReady(r) => LifecycleOf!AnswerReady(r)
    BY OperationsSame, EffectsSame, StoringSame, Zenon DEF LifecycleOf!AnswerReady, Cycled!AnswerReady
<1>18. Cycled!Restart => LifecycleOf!Restart
    BY OperationsSame, EffectsSame, StoringSame, Zenon DEF LifecycleOf!Restart, Cycled!Restart, LifecycleOf!Idle, Cycled!Idle
<1> QED BY <1>1, <1>2, <1>3, <1>4, <1>5, <1>6, <1>7, <1>8, <1>9, <1>10, <1>11, <1>12, <1>13, <1>14, <1>15, <1>16, <1>17, <1>18, StoringSame, Zenon
        DEF LifecycleOf!Next, Cycled!Next, LifecycleOf!Scenarios, Cycled!Scenarios,
            LifecycleOf!STATES, Cycled!STATES, LifecycleOf!Intents, Cycled!Intents

LEMMA LifecycleSpec == Spec => LifecycleOf!Spec
<1>1. Init => LifecycleOf!Init
    BY LifecycleStarts, Zenon DEF Init
<1>2. [Next]_vars => [LifecycleOf!Next]_(LifecycleOf!vars)
    <2>1. [Next]_vars => [Cycled!Next]_(Cycled!vars)
        BY Zenon DEF Next, Only, vars, Cycled!vars, lifecycleVars
    <2>2. Cycled!vars = LifecycleOf!vars
        BY DEF Cycled!vars, LifecycleOf!vars
    <2>3. (UNCHANGED Cycled!vars) <=> (UNCHANGED LifecycleOf!vars)
        BY DEF Cycled!vars, LifecycleOf!vars
    <2> QED BY <2>1, <2>3, LifecycleSteps, Zenon
<1> QED BY <1>1, <1>2, PTL DEF Spec, LifecycleOf!Spec

LEMMA LifecycleTyped == Spec => []Cycled!TypeOK
<1>1. LifecycleOf!Spec => []LifecycleOf!TypeOK
    BY LifecycleAssumed, LifecycleOf!TypeCorrect
<1>2. LifecycleOf!TypeOK => Cycled!TypeOK
    BY Zenon DEF LifecycleOf!TypeOK, Cycled!TypeOK, LifecycleOf!Task, Cycled!Task,
        LifecycleOf!Request, Cycled!Request, LifecycleOf!STATES, Cycled!STATES,
        LifecycleOf!Verdicts, Cycled!Verdicts
<1> QED BY <1>1, <1>2, LifecycleSpec, PTL

\* Wherever saves fail and the service restarts: what a restart reads of the task is
\* what it was at its last save (Day15LifecycleService._save and its callers), with
\* one request at a time.
THEOREM FileIsOfTheLastSave == Spec => []FileLagsMemory
<1>1. LifecycleOf!Spec => []LifecycleOf!FileLagsMemory
    BY LifecycleAssumed, LifecycleOf!FileIsBehind
<1>2. LifecycleOf!FileLagsMemory => FileLagsMemory
    BY Zenon DEF FileLagsMemory, Of, LifecycleOf!FileLagsMemory, Cycled!FileLagsMemory, LifecycleOf!SameTask,
        Cycled!SameTask
<1> QED BY <1>1, <1>2, LifecycleSpec, PTL

\* Whichever component is at work, its agents, summaries, branches, facts, sessions,
\* task objects and files have their types (the models and services of Days 6 to 15).
THEOREM DialogsTyped == Spec => []TypeOK
<1>1. DialogInv => Dialog!TypeOK
    BY DEF DialogInv
<1>2. CompressedInv => Compressed!TypeOK
    BY DEF CompressedInv, SummariesTyped, Summarising, Phases, Compressed!TypeOK
<1>3. BranchInv => Branched!TypeOK
    <2> SUFFICES ASSUME BranchInv PROVE Branched!TypeOK
        OBVIOUS
    <2>1. /\ madeBranches \in Branched!BranchIds /\ activeBranch \in DOMAIN branches
          /\ branchRequest \in [Requests -> Turns]
          /\ \A b \in DOMAIN branches : branches[b] \in Branched!Branch
          /\ messages \in Seq(Branched!BranchMessage)
          /\ DOMAIN branches \subseteq 1 .. madeBranches
        BY Zenon DEF BranchInv, BranchState, Rooted, Log
    <2>2. DOMAIN branches \subseteq Branched!BranchIds
        BY <2>1, DialogsConstants
        DEF DialogsAssumption, Branched!BranchingAssumption, Branched!BranchIds
    <2>3. \A r \in Requests : /\ branchRequest[r].phase \in {"idle", "asking", "done", "failed"}
                              /\ branchRequest[r].branch \in Branched!BranchIds
        BY <2>1 DEF Turns
    <2> QED BY <2>1, <2>2, <2>3, Zenon DEF Branched!TypeOK
<1>4. StickyInv => Sticky!TypeOK
    BY Zenon DEF StickyInv
<1>5. LayeredInv => Layered!TypeOK
    BY Zenon DEF LayeredInv
<1>6. StageInv => Staged!TypeOK
    BY Zenon DEF StageInv
<1>7. /\ Dialog!TypeOK /\ Compressed!TypeOK /\ Branched!TypeOK /\ Sticky!TypeOK
      /\ Layered!TypeOK /\ Staged!TypeOK /\ Cycled!TypeOK
      => TypeOK
    BY Zenon DEF TypeOK, Of
<1> QED BY <1>1, <1>2, <1>3, <1>4, <1>5, <1>6, <1>7, DialogInductive, CompressedInductive,
            BranchInductive, StickyInductive, LayeredInductive, StageInductive,
            LifecycleTyped, PTL
=============================================================================
