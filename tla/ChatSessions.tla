---------------------------- MODULE ChatSessions ----------------------------
(***************************************************************************)
(* The Day 25 chat (src/app/services/day25/chat_service.py, repository.py): *)
(* sessions, their transcript, the evidence of answers and the task memory, *)
(* four SQLite tables that the handler of a message writes in up to five   *)
(* commits around two awaits: of the extractor and of the grounded answer. *)
(*                                                                         *)
(* A turn is one message, of one request.  Of the task memory a turn's     *)
(* lessons are kept: the lasting ones, which survive a change of task (the *)
(* vehicle, constraints, terms), and those of the task.  How operations    *)
(* merge is TaskMemory.  The active topic, which only serves the next      *)
(* query, is left out.  Between two commits that no await separates the    *)
(* process may die, but no other handler runs.                             *)
(***************************************************************************)
EXTENDS Naturals, Sequences, FiniteSets

CONSTANTS Sessions,    \* ids of chats
          Turns,       \* ids of messages sent by users
          None,        \* no title of its own, no memory, no chat
          MaxCrashes   \* bound: crashes of the process

VARIABLES status,     \* of a chat: absent, open or deleted
          title,      \* the message a chat is named after; None for the fallback
          messages,   \* the transcript: who, in which turn
          evidence,   \* turns whose answer has evidence rows, by chat
          memory,     \* the saved task memory of a chat
          turn,       \* what a turn is waiting for and what it knows
          disturbed,  \* history: chats in which turns overlapped or a crash cut one
          crashes     \* crashes so far

vars == <<status, title, messages, evidence, memory, turn, disturbed, crashes>>

Kinds == {"lasting", "task"}
Memory == [goal: BOOLEAN, lessons: SUBSET (Turns \X Kinds)]
Message == [role: {"user", "assistant"}, turn: Turns]

\* Assumed of the constants by the runs and the theorems.
ChatAssumption == None \notin Turns \cup Memory /\ MaxCrashes \in Nat

Stages == {"new", "title", "extract", "ask", "reply", "cite", "save", "done"}
Turn == [at: Stages, chat: Sessions \cup {None}, first: BOOLEAN, mem: Memory,
         gave: SUBSET Kinds, switched: BOOLEAN, cites: BOOLEAN]

EmptyMemory == [goal |-> FALSE, lessons |-> {}]
NewTurn == [at |-> "new", chat |-> None, first |-> FALSE, mem |-> EmptyMemory,
            gave |-> {}, switched |-> FALSE, cites |-> FALSE]

Init ==
    /\ status = [s \in Sessions |-> "absent"]
    /\ title = [s \in Sessions |-> None]
    /\ messages = [s \in Sessions |-> <<>>]
    /\ evidence = [s \in Sessions |-> {}]
    /\ memory = [s \in Sessions |-> None]
    /\ turn = [t \in Turns |-> NewTurn]
    /\ disturbed = {}
    /\ crashes = 0

Entries(s, role) == {i \in 1 .. Len(messages[s]) : messages[s][i].role = role}
Answered(s) == {messages[s][i].turn : i \in Entries(s, "assistant")}
InFlight(s) == {t \in Turns : turn[t].chat = s /\ turn[t].at # "done"}

\* No handler is between two commits: another one may run.
LoopFree == \A t \in Turns : turn[t].at \notin {"title", "reply", "cite", "save"}

At(t, stage) == turn' = [turn EXCEPT ![t].at = stage]

\* A turn that is over only leaves what the properties ask of it.
Over(r) == [r EXCEPT !.at = "done", !.first = FALSE, !.mem = EmptyMemory, !.cites = FALSE]
End(t) == turn' = [turn EXCEPT ![t] = Over(@)]

----------------------------------------------------------------------------
(* Chats.                                                                  *)

\* Without a title of its own.
CreateSession(s) ==
    /\ LoopFree
    /\ status[s] = "absent"
    /\ status' = [status EXCEPT ![s] = "open"]
    /\ memory' = [memory EXCEPT ![s] = EmptyMemory]
    /\ UNCHANGED <<title, messages, evidence, turn, disturbed, crashes>>

\* Mutant: only the tables with a foreign key are cleared.
DeleteKeepingEvidence(s) ==
    /\ LoopFree
    /\ status[s] = "open"
    /\ status' = [status EXCEPT ![s] = "deleted"]
    /\ title' = [title EXCEPT ![s] = None]
    /\ messages' = [messages EXCEPT ![s] = <<>>]
    /\ memory' = [memory EXCEPT ![s] = None]
    /\ UNCHANGED <<evidence, turn, disturbed, crashes>>

DeleteSession(s) ==
    /\ LoopFree
    /\ status[s] = "open"
    /\ status' = [status EXCEPT ![s] = "deleted"]
    /\ title' = [title EXCEPT ![s] = None]
    /\ messages' = [messages EXCEPT ![s] = <<>>]
    /\ evidence' = [evidence EXCEPT ![s] = {}]
    /\ memory' = [memory EXCEPT ![s] = None]
    /\ UNCHANGED <<turn, disturbed, crashes>>

----------------------------------------------------------------------------
(* A turn.                                                                 *)

\* The history and the memory are read, the message is stored.
SendMessage(t, s) ==
    /\ LoopFree
    /\ turn[t].at = "new"
    /\ status[s] = "open"
    /\ messages' = [messages EXCEPT ![s] = Append(@, [role |-> "user", turn |-> t])]
    /\ turn' = [turn EXCEPT ![t] =
                  [@ EXCEPT !.at = "title", !.chat = s, !.mem = memory[s],
                            !.first = title[s] = None /\ Entries(s, "user") = {}]]
    /\ disturbed' = IF InFlight(s) = {} THEN disturbed ELSE disturbed \cup {s}
    /\ UNCHANGED <<status, title, evidence, memory, crashes>>

\* The first message names the chat.
SetTitle(t) ==
    /\ turn[t].at = "title"
    /\ title' = [title EXCEPT ![turn[t].chat] = IF turn[t].first THEN t ELSE @]
    /\ At(t, "extract")
    /\ UNCHANGED <<status, messages, evidence, memory, disturbed, crashes>>

\* Mutant: the old task stays.
ResetNever(had, m) == m

\* A change of task drops the memory of the task, if the turn began with a goal.
Reset(had, m) ==
    IF had THEN [m EXCEPT !.lessons = {x \in @ : x[2] = "lasting"}] ELSE m

\* The memory as the turn will save it: what the extractor proposed (nothing if it
\* failed), and the reset.
Learnt(t, goal, gave, switch) ==
    LET m == [turn[t].mem EXCEPT !.goal = @ \/ goal, !.lessons = @ \cup ({t} \X gave)]
    IN  IF switch THEN Reset(turn[t].mem.goal, m) ELSE m

\* The extractor answers or fails, either way a switch is a switch, and what kind of
\* message this is gets known.  What is no question is acknowledged at once.
Extracted(t, goal, gave, switch, question) ==
    /\ LoopFree
    /\ turn[t].at = "extract"
    /\ switch => question
    /\ turn' = [turn EXCEPT ![t] =
                  [@ EXCEPT !.at = IF question THEN "ask" ELSE "reply",
                            !.mem = Learnt(t, goal, gave, switch),
                            !.gave = gave,
                            !.switched = switch /\ turn[t].mem.goal]]
    /\ UNCHANGED <<status, title, messages, evidence, memory, disturbed, crashes>>

\* Applying what the extractor proposed raises (task_state.py:91).
ExtractionAborted(t) ==
    /\ LoopFree
    /\ turn[t].at = "extract"
    /\ End(t)
    /\ UNCHANGED <<status, title, messages, evidence, memory, disturbed, crashes>>

\* Retrieval and generation end with an answer or a refusal; only an answer cites.
Grounded(t, cites) ==
    /\ LoopFree
    /\ turn[t].at = "ask"
    /\ turn' = [turn EXCEPT ![t].at = "reply", ![t].cites = cites]
    /\ UNCHANGED <<status, title, messages, evidence, memory, disturbed, crashes>>

\* Retrieval or generation fails: the message stays without an answer.
GroundingFailed(t) ==
    /\ LoopFree
    /\ turn[t].at = "ask"
    /\ End(t)
    /\ UNCHANGED <<status, title, messages, evidence, memory, disturbed, crashes>>

\* Storing the answer fails if the chat was deleted in the meantime.
Reply(t) ==
    LET s == turn[t].chat
    IN  /\ turn[t].at = "reply"
        /\ IF status[s] = "open"
           THEN /\ messages' = [messages EXCEPT ![s] = Append(@, [role |-> "assistant", turn |-> t])]
                /\ At(t, "cite")
           ELSE End(t) /\ UNCHANGED messages
        /\ UNCHANGED <<status, title, evidence, memory, disturbed, crashes>>

AddEvidence(t) ==
    /\ turn[t].at = "cite"
    /\ evidence' = [evidence EXCEPT ![turn[t].chat] = IF turn[t].cites THEN @ \cup {t} ELSE @]
    /\ At(t, "save")
    /\ UNCHANGED <<status, title, messages, memory, disturbed, crashes>>

SaveState(t) ==
    /\ turn[t].at = "save"
    /\ memory' = [memory EXCEPT ![turn[t].chat] = turn[t].mem]
    /\ End(t)
    /\ UNCHANGED <<status, title, messages, evidence, disturbed, crashes>>

\* The process dies, also between two commits, and starts again: what waited is lost.
Crash ==
    /\ crashes < MaxCrashes
    /\ crashes' = crashes + 1
    /\ turn' = [t \in Turns |-> IF turn[t].at = "new" THEN turn[t] ELSE Over(turn[t])]
    /\ disturbed' = disturbed \cup {s \in Sessions : InFlight(s) # {}}
    /\ UNCHANGED <<status, title, messages, evidence, memory>>

Next ==
    \/ \E s \in Sessions : CreateSession(s) \/ DeleteSession(s)
    \/ \E t \in Turns :
          \/ \E s \in Sessions : SendMessage(t, s)
          \/ SetTitle(t)
          \/ \E goal, switch, question \in BOOLEAN, gave \in SUBSET Kinds :
                Extracted(t, goal, gave, switch, question)
          \/ ExtractionAborted(t)
          \/ \E cites \in BOOLEAN : Grounded(t, cites)
          \/ GroundingFailed(t) \/ Reply(t) \/ AddEvidence(t) \/ SaveState(t)
    \/ Crash

Spec == Init /\ [][Next]_vars

----------------------------------------------------------------------------
(* Properties.                                                             *)

TypeOK ==
    /\ status \in [Sessions -> {"absent", "open", "deleted"}]
    /\ title \in [Sessions -> Turns \cup {None}]
    /\ messages \in [Sessions -> Seq(Message)]
    /\ evidence \in [Sessions -> SUBSET Turns]
    /\ memory \in [Sessions -> Memory \cup {None}]
    /\ turn \in [Turns -> Turn]
    /\ disturbed \subseteq Sessions
    /\ crashes \in Nat

\* A chat has rows in the other tables only while it exists, although a turn may be
\* waiting when it is deleted and one table has no foreign key (delete_session).
RowsHaveSession ==
    \A s \in Sessions :
        IF status[s] = "open" THEN memory[s] # None
        ELSE memory[s] = None /\ messages[s] = <<>> /\ evidence[s] = {}

\* Evidence belongs to a stored answer of the same chat, whenever the process dies
\* (add_message before add_evidence).
EvidenceHasAnswer == \A s \in Sessions : evidence[s] \subseteq Answered(s)

\* The saved memory comes from answered messages of its chat: neither a turn the user
\* saw fail nor one that is still under way has left a lesson (save_state last).
MemoryOfAnswered ==
    \A s \in Sessions : memory[s] # None => memory[s].lessons \subseteq Answered(s) \X Kinds

\* A chat is named after its first message or not at all, also when two first messages
\* overlap or the process dies before the first one named it (send_message).
TitleIsFirst ==
    \A s \in Sessions : title[s] # None =>
        messages[s] # <<>> /\ Head(messages[s]) = [role |-> "user", turn |-> title[s]]

\* Where turns do not overlap and no crash cut one, a lasting lesson of an answered
\* message is never forgotten, whatever fails and whichever task it is.
NothingForgotten ==
    \A s \in Sessions \ disturbed : status[s] = "open" =>
        \A t \in Answered(s) : turn[t].at = "done" /\ "lasting" \in turn[t].gave
            => <<t, "lasting">> \in memory[s].lessons

\* There, an answered change of task leaves nothing of the tasks before it
\* ("the two tasks are never mixed silently", _reset_for_goal_change).
TasksNotMixed ==
    \A s \in Sessions \ disturbed : status[s] = "open" =>
        \A i, j \in Entries(s, "assistant") :
            LET old == messages[s][i].turn
                new == messages[s][j].turn
            IN  i < j /\ turn[new].at = "done" /\ turn[new].switched
                  => <<old, "task">> \notin memory[s].lessons
=============================================================================
