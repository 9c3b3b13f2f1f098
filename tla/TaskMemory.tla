----------------------------- MODULE TaskMemory -----------------------------
(***************************************************************************)
(* The task memory of one Day 25 chat: the merge of the operations that an *)
(* extractor proposes (src/app/services/day25/task_state.py) and the reset *)
(* at an explicit change of task (chat_service.py, _reset_for_goal_change).*)
(* The extractor is a language model, so any operation may come at any     *)
(* time.                                                                   *)
(*                                                                         *)
(* Texts and keys are compared after folding case and spaces; a text or a  *)
(* key here stands for all that fold to the same.  The lists of notes hold *)
(* a text once each and their order only matters for display, so they are  *)
(* sets.  The facts are searched in their order and stay a sequence.  The  *)
(* active topic and the model of the vehicle are left out: the chat decides *)
(* the topic itself after every update, and the model has no fact.         *)
(***************************************************************************)
EXTENDS Naturals, Sequences, Sublist

CONSTANTS Texts, NoText,   \* what a fact says; the empty text
          Keys, NoKey,     \* keys of facts; no or an empty key
          Fields,          \* the fields of the vehicle apart from its model
          Values, NoValue, \* their values; not known
          VehicleKey,      \* the key of the fact that goes with a field: "vehicle_" + field
          VehicleText,     \* what that fact says of a value
          Lists,           \* the lists of notes a run looks at
          Notes            \* what a note says

AllLists == {"constraints", "terms", "checks", "results", "hypotheses", "questions"}

\* Assumed of the constants by the runs and the theorems.
MemoryAssumption ==
    /\ NoText \notin Texts /\ NoKey \notin Keys /\ NoValue \notin Values
    /\ VehicleKey \in [Fields -> Keys]
    /\ VehicleText \in [Fields \X Values -> Texts]
    /\ Lists \subseteq AllLists

VARIABLES memory,  \* the task state
          begun    \* during an update: whether there was a goal, and the notes, before it

vars == <<memory, begun>>

Fact == [text: Texts, key: Keys \cup {NoKey}]
Memory == [goal: BOOLEAN, facts: Seq(Fact), notes: SUBSET (Lists \X Notes),
           vehicle: [Fields -> Values \cup {NoValue}]]

NotUpdating == [on |-> FALSE, goal |-> FALSE, notes |-> {}]

Init ==
    /\ memory = [goal |-> FALSE, facts |-> <<>>, notes |-> {},
                 vehicle |-> [f \in Fields |-> NoValue]]
    /\ begun = NotUpdating

----------------------------------------------------------------------------
(* Facts.                                                                  *)

First(S) == CHOOSE i \in S : \A j \in S : i <= j

WithKey(facts, key) == {i \in 1 .. Len(facts) : key # NoKey /\ facts[i].key = key}
WithText(facts, text) == {i \in 1 .. Len(facts) : text # NoText /\ facts[i].text = text}

\* Mutant: the text goes first.
FindFactTextFirst(facts, key, text) ==
    IF WithText(facts, text) # {} THEN First(WithText(facts, text))
    ELSE IF WithKey(facts, key) # {} THEN First(WithKey(facts, key))
    ELSE 0

\* By key first, then by text; 0 if there is none.
FindFact(facts, key, text) ==
    IF WithKey(facts, key) # {} THEN First(WithKey(facts, key))
    ELSE IF WithText(facts, text) # {} THEN First(WithText(facts, text))
    ELSE 0

RemoveFactAt(facts, i) == SubSeq(facts, 1, i - 1) \o SubSeq(facts, i + 1, Len(facts))

\* Mutant: an empty text replaces the old one.
ReplacedBlank(facts, i, text, key) ==
    [facts EXCEPT ![i] = [text |-> text, key |-> IF key = NoKey THEN @.key ELSE key]]

\* Fact i gets the text and the key, where there is one.
Replaced(facts, i, text, key) ==
    [facts EXCEPT ![i] = [text |-> IF text = NoText THEN @.text ELSE text,
                          key  |-> IF key = NoKey THEN @.key ELSE key]]

Put(facts, text, key) ==
    LET i == FindFact(facts, key, text)
    IN  IF i # 0 THEN Replaced(facts, i, text, key)
        ELSE IF text = NoText THEN facts
        ELSE Append(facts, [text |-> text, key |-> key])

AddFact(facts, text, key) == IF text = NoText THEN facts ELSE Put(facts, text, key)

SupersedeFact(facts, text, key) ==
    LET i == FindFact(facts, key, text)
    IN  IF i # 0 /\ text = NoText THEN RemoveFactAt(facts, i) ELSE Put(facts, text, key)

RemoveFact(facts, text, key) ==
    LET i == FindFact(facts, key, text)
    IN  IF i = 0 THEN facts ELSE RemoveFactAt(facts, i)

\* The fact of a field is looked for by its key only.
PutVehicleFact(facts, f, v) ==
    LET i == FindFact(facts, VehicleKey[f], NoText)
        new == [text |-> VehicleText[f, v], key |-> VehicleKey[f]]
    IN  IF i # 0 THEN [facts EXCEPT ![i] = new] ELSE Append(facts, new)

----------------------------------------------------------------------------
(* Steps: an update is any number of operations, and then the reset if the *)
(* message changes the task.                                               *)

BeginUpdate ==
    /\ ~begun.on
    /\ begun' = [on |-> TRUE, goal |-> memory.goal, notes |-> memory.notes]
    /\ UNCHANGED memory

SetGoal ==
    /\ begun.on
    /\ memory' = [memory EXCEPT !.goal = TRUE]
    /\ UNCHANGED begun

ChangeFacts(facts) ==
    /\ begun.on
    /\ memory' = [memory EXCEPT !.facts = facts]
    /\ UNCHANGED begun

ChangeNotes(notes) ==
    /\ begun.on
    /\ memory' = [memory EXCEPT !.notes = notes]
    /\ UNCHANGED begun

UpdateVehicle(f, v) ==
    /\ begun.on
    /\ memory' = [memory EXCEPT !.vehicle[f] = v, !.facts = PutVehicleFact(@, f, v)]
    /\ UNCHANGED begun

\* The vehicle stays, also as facts; of the notes the constraints and the terms do.
Reset(m) ==
    [m EXCEPT !.facts = Kept(@, {fact \in Fact : \E f \in Fields : fact.key = VehicleKey[f]}),
              !.notes = @ \cap ({"constraints", "terms"} \X Notes)]

\* switch: the message explicitly changes the task.
EndUpdate(switch) ==
    /\ begun.on
    /\ memory' = IF switch /\ begun.goal THEN Reset(memory) ELSE memory
    /\ begun' = NotUpdating

Next ==
    \/ BeginUpdate \/ SetGoal
    \/ \E text \in Texts \cup {NoText}, key \in Keys \cup {NoKey} :
          \/ ChangeFacts(AddFact(memory.facts, text, key))
          \/ ChangeFacts(Put(memory.facts, text, key))
          \/ ChangeFacts(SupersedeFact(memory.facts, text, key))
          \/ ChangeFacts(RemoveFact(memory.facts, text, key))
    \/ \E note \in Lists \X Notes : ChangeNotes(memory.notes \cup {note})
    \/ \E note \in Notes : ChangeNotes(memory.notes \ {<<"questions", note>>})
    \/ \E f \in Fields, v \in Values : UpdateVehicle(f, v)
    \/ \E switch \in BOOLEAN : EndUpdate(switch)

Spec == Init /\ [][Next]_vars

----------------------------------------------------------------------------
(* Properties.                                                             *)

TypeOK ==
    /\ memory \in Memory
    /\ begun \in [on: BOOLEAN, goal: BOOLEAN, notes: SUBSET (Lists \X Notes)]

\* A correction supersedes: whatever the extractor proposes and in which order, two
\* active facts never have the same key, nor the same text and no key (_find_fact).
Distinguished(facts) ==
    \A i, j \in 1 .. Len(facts) :
        facts[i].key = facts[j].key /\ (facts[i].key # NoKey \/ facts[i].text = facts[j].text)
            => i = j
FactsSupersede == Distinguished(memory.facts)

\* Repeating the operation that adds or corrects a fact, as the extractor does when the
\* user says a thing twice, leaves the facts as the first one made them.
RepeatIsHarmless ==
    \A text \in Texts \cup {NoText}, key \in Keys \cup {NoKey} :
        LET added == AddFact(memory.facts, text, key)
            put == Put(memory.facts, text, key)
            superseded == SupersedeFact(memory.facts, text, key)
        IN  /\ AddFact(added, text, key) = added
            /\ Put(put, text, key) = put
            /\ SupersedeFact(superseded, text, key) = superseded

\* "A recorded vehicle field is also a known fact, kept in sync" (task_state.py:104).
VehicleInSync ==
    \A f \in Fields :
        memory.vehicle[f] # NoValue =>
            \E i \in 1 .. Len(memory.facts) :
                /\ memory.facts[i].key = VehicleKey[f]
                /\ memory.facts[i].text = VehicleText[f, memory.vehicle[f]]
=============================================================================
