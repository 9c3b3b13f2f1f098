---------------------------- MODULE MemoryLayers ----------------------------
(***************************************************************************)
(* The memory layers of Day 11 and the profiles of Day 12                  *)
(* (src/app/services/day11, day12): a short-term dialog and a working      *)
(* memory for each session, one long-term memory for all, kept in a file,  *)
(* and the comparison that asks one question under several profiles in     *)
(* sessions of its own.                                                    *)
(*                                                                         *)
(* A chat may ask the provider twice, to classify the message and to       *)
(* answer it; a comparison asks once for each profile.  What a message     *)
(* adds to a working memory, and the value it gives to a key of the        *)
(* long-term memory, is known by its request.  Which session a request     *)
(* without a session means is decided by the service's active session.     *)
(***************************************************************************)
EXTENDS Naturals, Sequences, FiniteSets

CONSTANTS Requests,          \* chat requests; bounds the number of turns
          Keys,              \* of the long-term memory's entries
          NoRequest,         \* the memory has no entry for a key
          MaxEntries,        \* bound: entries in one decision
          Comparisons,       \* comparison requests
          Profiles,          \* bound: profiles in one comparison
          MaxSessions,       \* bound: sessions since the process started
          NoSession          \* the request names no session

\* Assumed of the constants by the runs and the theorems.
LayersAssumption ==
    /\ Profiles \in Nat \ {0}
    /\ MaxSessions \in Nat \ {0}
    /\ NoSession \notin Nat
    /\ Requests \cap Comparisons = {}
    /\ NoRequest \notin Requests

VARIABLES made,              \* sessions so far; they are never removed
          active,            \* _active_session_id
          shortTerm,         \* the messages of each session
          working,           \* the requests whose delta the session holds
          longTerm, file,    \* whose value each key has, in memory and in the file
          request,           \* what each chat request is doing; history: the keys
                             \* it gave a value that nothing replaced since
          comparison,        \* and each comparison
          temporary,         \* history variable: sessions made for comparisons
          fileFailed,        \* history variable: the file was not written
          overlapped         \* history variable: two comparisons overlapped, or
                             \* a chat got into the session of one

memory == <<shortTerm, working, longTerm, file>>
observed == <<temporary, fileFailed, overlapped>>
vars == <<made, active, memory, request, comparison, observed>>

SessionIds == 1 .. MaxSessions
Sessions == 1 .. made

Entries == [Keys -> Requests \cup {NoRequest}]
NoEntries == [k \in Keys |-> NoRequest]

Message == [role : {"user", "assistant"}, by : Requests \cup Comparisons]

TypeOK ==
    /\ made \in SessionIds
    /\ active \in Sessions
    /\ shortTerm \in [SessionIds -> Seq(Message)]
    /\ working \in [SessionIds -> SUBSET Requests]
    /\ longTerm \in Entries /\ file \in Entries
    /\ request \in [Requests ->
          [phase : {"idle", "classifying", "asking", "done", "failed"},
           session : SessionIds, kept : SUBSET Keys]]
    /\ comparison \in [Comparisons ->
          [phase : {"idle", "next", "asking", "done"}, previous : SessionIds,
           session : SessionIds, left : 0 .. Profiles]]
    /\ temporary \subseteq SessionIds
    /\ fileFailed \in BOOLEAN /\ overlapped \in BOOLEAN

Init ==
    /\ made = 1 /\ active = 1
    /\ shortTerm = [s \in SessionIds |-> <<>>]
    /\ working = [s \in SessionIds |-> {}]
    /\ longTerm = NoEntries /\ file = NoEntries
    /\ request = [r \in Requests |-> [phase |-> "idle", session |-> 1, kept |-> {}]]
    /\ comparison = [c \in Comparisons |->
          [phase |-> "idle", previous |-> 1, session |-> 1, left |-> Profiles]]
    /\ temporary = {} /\ fileFailed = FALSE /\ overlapped = FALSE

----------------------------------------------------------------------------
(* Sessions and resets.                                                    *)

NewSession ==
    /\ made < MaxSessions
    /\ made' = made + 1
    /\ active' = made + 1
    /\ UNCHANGED <<memory, request, comparison, observed>>

ResetShortTerm ==
    /\ shortTerm' = [shortTerm EXCEPT ![active] = <<>>]
    /\ UNCHANGED <<made, active, working, longTerm, file, request, comparison, observed>>

ResetWorking ==
    /\ working' = [working EXCEPT ![active] = {}]
    /\ UNCHANGED <<made, active, shortTerm, longTerm, file, request, comparison, observed>>

\* The store swallows every error: a file that was not written stays as it is.
Written(content) ==
    \/ file' = content /\ UNCHANGED fileFailed
    \/ fileFailed' = TRUE /\ UNCHANGED file

ResetLongTerm ==
    /\ longTerm' = NoEntries
    /\ Written(NoEntries)
    /\ request' = [r \in Requests |-> [request[r] EXCEPT !.kept = {}]]
    /\ UNCHANGED <<made, active, shortTerm, working, comparison, temporary, overlapped>>

----------------------------------------------------------------------------
(* A chat.                                                                 *)

Say(session, role, by) ==
    shortTerm' = [shortTerm EXCEPT ![session] = Append(@, [role |-> role, by |-> by])]

\* _ensure_session, for a session that exists or for none.
Ensured(session) == IF session = NoSession THEN active ELSE session

\* The message is recorded before anything can fail.
StartChat(r, session, classify) ==
    /\ request[r].phase = "idle"
    /\ LET s == Ensured(session)
       IN  /\ active' = s
           /\ Say(s, "user", r)
           /\ request' = [request EXCEPT ![r].session = s,
                 ![r].phase = IF classify THEN "classifying" ELSE "asking"]
           /\ overlapped' = (overlapped \/ s \in temporary)
    /\ UNCHANGED <<made, working, longTerm, file, comparison, temporary, fileFailed>>

\* The keys a decision may give values to, {} for none.
Updates == {keys \in SUBSET Keys : Cardinality(keys) <= MaxEntries}

\* Entries are upserted: a new value replaces the old one.
Upserted(r, keys) == [k \in Keys |-> IF k \in keys THEN r ELSE longTerm[k]]

\* The request's keys are its own from now on, and no other's.
Decided(r, keys) ==
    [q \in Requests |->
        IF q = r THEN [request[r] EXCEPT !.phase = "asking", !.kept = keys]
                 ELSE [request[q] EXCEPT !.kept = @ \ keys]]

\* Mutant: the working memory of the active session is updated.
ClassifiedActive(r, toWorking, keys) ==
    /\ request[r].phase = "classifying"
    /\ working' = IF toWorking THEN [working EXCEPT ![active] = @ \cup {r}] ELSE working
    /\ longTerm' = Upserted(r, keys)
    /\ IF keys = {} THEN UNCHANGED <<file, fileFailed>> ELSE Written(longTerm')
    /\ request' = Decided(r, keys)
    /\ UNCHANGED <<made, active, shortTerm, comparison, temporary, overlapped>>

\* The decision is a delta: it is merged into the memories as they are by
\* now, the working memory being that of the request's own session.  The
\* file is written when the decision has entries.
Classified(r, toWorking, keys) ==
    /\ request[r].phase = "classifying"
    /\ working' = IF toWorking
                  THEN [working EXCEPT ![request[r].session] = @ \cup {r}]
                  ELSE working
    /\ longTerm' = Upserted(r, keys)
    /\ IF keys = {} THEN UNCHANGED <<file, fileFailed>> ELSE Written(longTerm')
    /\ request' = Decided(r, keys)
    /\ UNCHANGED <<made, active, shortTerm, comparison, temporary, overlapped>>

Answer(r) ==
    /\ request[r].phase = "asking"
    /\ Say(request[r].session, "assistant", r)
    /\ request' = [request EXCEPT ![r].phase = "done"]
    /\ UNCHANGED <<made, active, working, longTerm, file, comparison, observed>>

ChatFails(r) ==
    /\ request[r].phase = "asking"
    /\ request' = [request EXCEPT ![r].phase = "failed"]
    /\ UNCHANGED <<made, active, memory, comparison, observed>>

----------------------------------------------------------------------------
(* A comparison.                                                           *)

Running == {c \in Comparisons : comparison[c].phase \in {"next", "asking"}}

StartComparison(c) ==
    /\ comparison[c].phase = "idle"
    /\ comparison' = [comparison EXCEPT ![c].phase = "next", ![c].previous = active]
    /\ overlapped' = (overlapped \/ Running # {})
    /\ UNCHANGED <<made, active, memory, request, temporary, fileFailed>>

\* The next profile, in a session that becomes the active one.
AskProfile(c) ==
    /\ comparison[c].phase = "next" /\ comparison[c].left > 0
    /\ made < MaxSessions
    /\ made' = made + 1
    /\ active' = made + 1
    /\ temporary' = temporary \cup {made + 1}
    /\ Say(made + 1, "user", c)
    /\ comparison' = [comparison EXCEPT ![c].phase = "asking",
                         ![c].session = made + 1, ![c].left = @ - 1]
    /\ UNCHANGED <<working, longTerm, file, request, fileFailed, overlapped>>

ProfileAnswered(c) ==
    /\ comparison[c].phase = "asking"
    /\ Say(comparison[c].session, "assistant", c)
    /\ comparison' = [comparison EXCEPT ![c].phase = "next"]
    /\ UNCHANGED <<made, active, working, longTerm, file, request, observed>>

\* After the last profile, or when the provider fails, the session that was
\* active at the start is active again.
EndComparison(c) ==
    /\ \/ comparison[c].phase = "next" /\ comparison[c].left = 0
       \/ comparison[c].phase = "asking"
    /\ active' = comparison[c].previous
    /\ comparison' = [comparison EXCEPT ![c].phase = "done"]
    /\ UNCHANGED <<made, memory, request, observed>>

----------------------------------------------------------------------------
(* A new process finds the file and nothing else.                          *)

Restart ==
    /\ made' = 1 /\ active' = 1
    /\ shortTerm' = [s \in SessionIds |-> <<>>]
    /\ working' = [s \in SessionIds |-> {}]
    /\ longTerm' = file
    /\ request' = [r \in Requests |->
          [request[r] EXCEPT !.phase = IF @ = "idle" THEN "idle" ELSE "failed",
                             !.kept = {k \in @ : file[k] = r}]]
    /\ comparison' = [c \in Comparisons |->
          [comparison[c] EXCEPT !.phase = IF @ = "idle" THEN "idle" ELSE "done"]]
    /\ temporary' = {}
    /\ fileFailed' = FALSE
    /\ UNCHANGED <<file, overlapped>>

Next ==
    \/ NewSession \/ ResetShortTerm \/ ResetWorking \/ ResetLongTerm
    \/ \E r \in Requests :
          \/ \E session \in Sessions \cup {NoSession}, classify \in BOOLEAN :
                StartChat(r, session, classify)
          \/ \E toWorking \in BOOLEAN, keys \in Updates : Classified(r, toWorking, keys)
          \/ Answer(r) \/ ChatFails(r)
    \/ \E c \in Comparisons :
          \/ StartComparison(c) \/ AskProfile(c)
          \/ ProfileAnswered(c) \/ EndComparison(c)
    \/ Restart

Spec == Init /\ [][Next]_vars

----------------------------------------------------------------------------
(* Properties.                                                             *)

\* Whatever session was made active while the provider was answering, a
\* request's messages and what it adds to the working memory are in the
\* session the request began in.
SessionsApart ==
    \A r \in Requests : \A s \in SessionIds :
        /\ r \in working[s] => request[r].session = s
        /\ \A i \in 1 .. Len(shortTerm[s]) :
              shortTerm[s][i].by = r => request[r].session = s

\* What a request put into the long-term memory stays there until another
\* decision replaces it or the memory is cleared, however many decisions were
\* under way at once; and the file holds the same, unless writing it failed.
LongTermIsKept ==
    /\ \A r \in Requests : \A k \in request[r].kept : longTerm[k] = r
    /\ fileFailed \/ file = longTerm

\* day12/service.py:209: a comparison restores the session of the user: when
\* none is running, no session made for one is active.
UserSessionRestored == Running = {} => active \notin temporary

\* So it is, whatever else happens, until two comparisons overlap or a chat
\* gets into the session of one.
RestoredByOne == overlapped \/ UserSessionRestored
=============================================================================
