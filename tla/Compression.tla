---------------------------- MODULE Compression -----------------------------
(***************************************************************************)
(* The compressed dialog of Day 9 (src/app/services/day9.py and            *)
(* context_compression.py): one dialog for all clients, whose older part   *)
(* is replaced in what the model sees by a summary the model has written.  *)
(*                                                                         *)
(* A turn in compressed mode asks the provider twice, for the summary and  *)
(* for the answer; at both points other requests run.  A summary is known  *)
(* by the set of messages folded into it.  Token accounting, costs and the *)
(* number of cycles are left out.                                          *)
(***************************************************************************)
EXTENDS Naturals, Integers, Sequences, FiniteSetsExt, Functions

CONSTANTS Requests,          \* chat requests; bounds the number of turns
          Limits,            \* recent_messages_limit, the service's or a request's own
          BatchSizes,        \* compression_batch_size, likewise
          DemoLength         \* how many messages seed_demo installs

\* Assumed of the constants by the runs and the theorems.
CompressionAssumption ==
    /\ Limits \subseteq Nat /\ Limits # {}
    /\ BatchSizes \subseteq Nat
    /\ DemoLength \in Nat

VARIABLES history,           \* CompressionState.full_history
          summary,           \* the messages folded into CompressionState.summary
          count,             \* CompressionState.summarized_count
          request,           \* what each chat request is doing, and with what
          crossed            \* history variable: a summary was written over a
                             \* dialog other than the one it was made from

vars == <<history, summary, count, request, crossed>>

Message == [by : Requests \cup {"demo"}, number : Nat]

TypeOK ==
    /\ history \in Seq(Message)
    /\ summary \subseteq Message
    /\ count \in Nat
    /\ \A r \in Requests :
          /\ request[r].phase \in {"idle", "summarising", "asking", "done", "failed"}
          /\ request[r].covered \subseteq Message
          /\ request[r].nextCount \in Nat
          /\ request[r].replaced \in BOOLEAN
    /\ crossed \in BOOLEAN

Idle == [phase |-> "idle", covered |-> {}, nextCount |-> 0, replaced |-> FALSE]

Init ==
    /\ history = <<>>
    /\ summary = {}
    /\ count = 0
    /\ request = [r \in Requests |-> Idle]
    /\ crossed = FALSE

----------------------------------------------------------------------------
(* The policy.                                                             *)

WindowStart(limit) == Max({Len(history) - limit, 0})

\* The messages before the window that the summary does not hold yet.
Pending(limit) == SubSeq(history, count + 1, WindowStart(limit))

ShouldCompress(limit, batch) == Len(Pending(limit)) >= Max({batch, 1})

\* build_working_context: what stands for the dialog in the next request to
\* the model, by the messages it tells of.
WorkingContext(limit) ==
    summary \cup Range(SubSeq(history, WindowStart(limit) + 1, Len(history)))

----------------------------------------------------------------------------
(* A turn.                                                                 *)

\* In full mode, and in compressed mode while too little has gathered, the
\* answer is asked for at once.
StartAsking(r) ==
    /\ request[r].phase = "idle"
    /\ request' = [request EXCEPT ![r].phase = "asking"]
    /\ UNCHANGED <<history, summary, count, crossed>>

StartFull(r) == StartAsking(r)

StartUncompressed(r, limit, batch) ==
    /\ ~ShouldCompress(limit, batch)
    /\ StartAsking(r)

\* _maybe_compress takes the block, the count after it and the summary so
\* far, and only then waits for the provider.
StartSummary(r, limit, batch) ==
    /\ request[r].phase = "idle"
    /\ ShouldCompress(limit, batch)
    /\ request' = [request EXCEPT ![r] =
                    [phase     |-> "summarising",
                     covered   |-> summary \cup Range(Pending(limit)),
                     nextCount |-> WindowStart(limit),
                     replaced  |-> FALSE]]
    /\ UNCHANGED <<history, summary, count, crossed>>

\* Mutant: the count is taken from the dialog as it is after the call.
CommitSummaryCountedLate(r) ==
    /\ request[r].phase = "summarising"
    /\ summary' = request[r].covered
    /\ \E limit \in Limits : count' = WindowStart(limit)
    /\ request' = [request EXCEPT ![r].phase = "asking"]
    /\ crossed' = (crossed \/ request[r].replaced)
    /\ UNCHANGED history

\* The summary and its count go to whatever dialog the service has by now.
CommitSummary(r) ==
    /\ request[r].phase = "summarising"
    /\ summary' = request[r].covered
    /\ count' = request[r].nextCount
    /\ request' = [request EXCEPT ![r].phase = "asking"]
    /\ crossed' = (crossed \/ request[r].replaced)
    /\ UNCHANGED history

\* The provider fails or returns nothing: the turn goes on without.
SummaryFails(r) ==
    /\ request[r].phase = "summarising"
    /\ request' = [request EXCEPT ![r].phase = "asking"]
    /\ UNCHANGED <<history, summary, count, crossed>>

Turn(r) == <<[by |-> r, number |-> 1], [by |-> r, number |-> 2]>>

Answer(r) ==
    /\ request[r].phase = "asking"
    /\ history' = history \o Turn(r)
    /\ request' = [request EXCEPT ![r].phase = "done"]
    /\ UNCHANGED <<summary, count, crossed>>

ChatFails(r) ==
    /\ request[r].phase = "asking"
    /\ request' = [request EXCEPT ![r].phase = "failed"]
    /\ UNCHANGED <<history, summary, count, crossed>>

----------------------------------------------------------------------------
(* A new dialog.                                                           *)

Replace(messages) ==
    /\ history' = messages
    /\ summary' = {}
    /\ count' = 0
    /\ request' = [r \in Requests |->
                    [request[r] EXCEPT !.replaced = request[r].phase = "summarising"]]
    /\ UNCHANGED crossed

\* DELETE /api/day9/history.
Reset == Replace(<<>>)

\* POST /api/day9/seed.
SeedDemo == Replace([i \in 1 .. DemoLength |-> [by |-> "demo", number |-> i]])

Next ==
    \/ \E r \in Requests : StartFull(r)
    \/ \E r \in Requests, limit \in Limits, batch \in BatchSizes :
          StartUncompressed(r, limit, batch) \/ StartSummary(r, limit, batch)
    \/ \E r \in Requests :
          CommitSummary(r) \/ SummaryFails(r) \/ Answer(r) \/ ChatFails(r)
    \/ Reset
    \/ SeedDemo

Spec == Init /\ [][Next]_vars

----------------------------------------------------------------------------
(* Properties.                                                             *)

\* The summary stands for exactly the first `count' messages of the dialog,
\* whatever turns and summaries overlap and whatever limits they use, until a
\* summary outlives the dialog it was made from.  So no message is lost
\* between the summary and what follows the count.
SummaryOfPrefix ==
    crossed \/ (/\ count <= Len(history)
                /\ summary = Range(SubSeq(history, 1, count)))

\* What the model is not told of the dialog are the messages that wait for
\* the next summary, and those only.
OnlyPendingIsLeftOut ==
    crossed \/ \A limit \in Limits :
        Range(history) \ WorkingContext(limit) \subseteq Range(Pending(limit))
=============================================================================
