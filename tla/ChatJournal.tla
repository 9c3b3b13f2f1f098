----------------------------- MODULE ChatJournal -----------------------------
(***************************************************************************)
(* The journal of a Day 15 task (src/app/services/day15/service.py): the   *)
(* last messages people read.  A turn of the conversation remembers how    *)
(* long the journal was when it began, writes while it works, and answers  *)
(* with everything from that place on.  Turns overlap where they wait for  *)
(* the model; the task may be replaced or reset meanwhile.                 *)
(***************************************************************************)
EXTENDS Naturals, Sequences

CONSTANTS Turns,    \* the turns that may be under way
          Keep      \* the messages kept (80 in the code)

\* Assumed by the theorems.
KeepAssumption == Keep \in Nat

VARIABLES exists,   \* there is a task
          journal,  \* its messages, the oldest first
          turn,     \* where each turn is
          reply     \* the reply given in this step, if any

vars == <<exists, journal, turn, reply>>

Kinds == {"user", "work", "debug"}
Message == [of : Turns, kind : Kinds]
Says(t, kind) == [of |-> t, kind |-> kind]

\* since: the length of the journal when the turn began.  intact: the journal
\* has lost nothing since (known to the model only).
Idle == [at |-> "idle", since |-> 0, intact |-> FALSE]
Reply(to, messages, answer, intact, forced) ==
    [to |-> to, messages |-> messages, answer |-> answer, intact |-> intact, forced |-> forced]
NoReply == Reply({}, <<>>, {}, FALSE, FALSE)

TypeOK ==
    /\ exists \in BOOLEAN
    /\ journal \in Seq(Message) /\ Len(journal) <= Keep
    /\ turn \in [Turns -> [at : {"idle", "works", "continues"}, since : 0 .. Keep, intact : BOOLEAN]]
    /\ reply \in [to : SUBSET Turns, messages : Seq(Message), answer : SUBSET Message,
                  intact : BOOLEAN, forced : BOOLEAN]

Init ==
    /\ exists = FALSE
    /\ journal = <<>>
    /\ turn = [t \in Turns |-> Idle]
    /\ reply = NoReply

----------------------------------------------------------------------------
From(messages, since) == SubSeq(messages, since + 1, Len(messages))

Kept(messages) ==
    IF Len(messages) > Keep THEN From(messages, Len(messages) - Keep) ELSE messages

\* Every waiting turn whose messages may have moved or gone.
Disturbed(lost) == [t \in Turns |-> [turn[t] EXCEPT !.intact = @ /\ ~lost]]

Overflows(n) == Len(journal) + n > Keep

\* Mutant: the place is taken after the user's message is written.
StartAfter(t) == [at |-> "works", since |-> Len(journal) + 1, intact |-> ~Overflows(1)]

StartHere(t) == [at |-> "works", since |-> Len(journal), intact |-> ~Overflows(1)]

\* A message of the user to the current task.
Converse(t) ==
    /\ exists /\ turn[t].at = "idle"
    /\ journal' = Kept(Append(journal, Says(t, "user")))
    /\ turn' = [Disturbed(Overflows(1)) EXCEPT ![t] = StartHere(t)]
    /\ reply' = NoReply
    /\ UNCHANGED exists

\* A new task has a journal of its own: the goal and a note are its first messages.
StartTask(t) ==
    /\ turn[t].at = "idle"
    /\ exists' = TRUE
    /\ journal' = Kept(<<Says(t, "user"), Says(t, "work")>>)
    /\ turn' = [Disturbed(TRUE) EXCEPT ![t] = [at |-> "works", since |-> 0, intact |-> Keep > 1]]
    /\ reply' = NoReply

\* A task created by a scenario or by the other endpoint, or none any more.
Replace ==
    /\ exists' \in BOOLEAN
    /\ journal' = <<>>
    /\ turn' = Disturbed(TRUE)
    /\ reply' = NoReply

\* A stage is over and tells what it did; the turn goes on to another one.
Work(t) ==
    /\ exists /\ turn[t].at = "works"
    /\ journal' = Kept(Append(journal, Says(t, "work")))
    /\ turn' = [Disturbed(Overflows(1)) EXCEPT ![t].at = "continues"]
    /\ reply' = NoReply
    /\ UNCHANGED exists

\* What the answer joins: the work told from a place on.
WorkFrom(told, since) == {told[i] : i \in {j \in since + 1 .. Len(told) : told[j].kind = "work"}}

\* The turn has told everything: the trace, and the reply.
Answers(t, told, lost, forced) ==
    LET traced == Kept(Append(told, Says(t, "debug")))
    IN  /\ journal' = traced
        /\ reply' = Reply({t}, From(traced, turn[t].since), WorkFrom(told, turn[t].since),
                          turn[t].intact /\ ~lost, forced)
        /\ turn' = [Disturbed(lost) EXCEPT ![t] = Idle]
        /\ UNCHANGED exists

\* The last stage, and the reply.
Respond(t) ==
    /\ exists /\ turn[t].at # "idle"
    /\ Answers(t, Kept(Append(journal, Says(t, "work"))), Overflows(2), FALSE)

\* A forced intent (a control for demonstrations) may change the state and say nothing.
RespondForced(t) ==
    /\ exists /\ turn[t].at = "works"
    /\ Answers(t, journal, Overflows(1), TRUE)

\* The turn finds no task any more, or an error ends it; what it wrote stays.
Fail(t) ==
    /\ turn[t].at # "idle"
    /\ turn' = [turn EXCEPT ![t] = Idle]
    /\ reply' = NoReply
    /\ UNCHANGED <<exists, journal>>

Next ==
    \/ \E t \in Turns : Converse(t) \/ StartTask(t) \/ Work(t) \/ Respond(t)
                      \/ RespondForced(t) \/ Fail(t)
    \/ Replace

Spec == Init /\ [][Next]_vars

----------------------------------------------------------------------------
(* Properties.                                                             *)

\* A turn under way finds its user's message at the place it remembers, unless
\* the journal has dropped messages or was replaced.
PlaceIsRemembered ==
    \A t \in Turns : turn[t].at # "idle" /\ turn[t].intact =>
        /\ turn[t].since < Len(journal)
        /\ journal[turn[t].since + 1] = Says(t, "user")

\* Unless that happened, a reply holds the turn from the user's message to the
\* trace, and its answer has work of the turn (unless the intent was forced).
TurnIsDelivered ==
    \A t \in reply.to : reply.intact =>
        /\ Head(reply.messages) = Says(t, "user")
        /\ reply.messages[Len(reply.messages)] = Says(t, "debug")
        /\ (\E m \in reply.answer : m.of = t) \/ reply.forced

\* What the schema promises: the messages of a reply are those of the turn.
\* The code breaks it where turns overlap, and once the journal is full.
MessagesAreOfTurn ==
    \A t \in reply.to :
        /\ reply.messages # <<>>
        /\ \A i \in 1 .. Len(reply.messages) : reply.messages[i].of = t
=============================================================================
