--------------------------- MODULE GroundedAnswer ---------------------------
(***************************************************************************)
(* One question to the knowledge base (src/app/services/rag): the plain    *)
(* pipeline of Day 22, the improved one of Day 23 and the grounded one of  *)
(* Day 24, with the relaxations the chat of Day 25 asks for.  A query is   *)
(* rewritten, chunks are retrieved, filtered and selected, a gate decides  *)
(* whether the model is asked at all, and what it cites is validated.      *)
(*                                                                         *)
(* A similarity is a number and a chunk's text is the set of quotes found  *)
(* in it; the two queries score the chunks independently.  The character   *)
(* cap of the Day 22 and 23 prompts (ContextBuilder) is left out.          *)
(***************************************************************************)
EXTENDS Integers, Sequences, FiniteSets, FiniteSetsExt, Functions, Sublist

CONSTANTS Chunks,            \* the indexed chunks
          Manual,            \* those of manuals
          Neighbors,         \* Neighbors[c]: the chunks next to c in its document
          Text,              \* Text[c]: the quotes that c has verbatim
          Quotes, NoQuote,   \* what the model may quote, and an empty quote
          Unknown,           \* a chunk_id that is in no index
          Scores,            \* the similarities a chunk may have to a query
          Threshold,         \* the similarity threshold
          ExpansionMin,      \* rag_context_expansion_min_score
          RetrievalTopK, FinalTopK, MaxNeighbors,
          MaxEvidence        \* bound: items in the evidence of an answer

\* Assumed of the constants by the runs and the theorems.
GroundingAssumption ==
    /\ IsFiniteSet(Chunks) /\ Manual \subseteq Chunks /\ Unknown \notin Chunks /\ NoQuote \notin Quotes
    /\ Neighbors \in [Chunks -> Seq(Chunks)] /\ Text \in [Chunks -> SUBSET Quotes]
    /\ Scores \subseteq Nat /\ Threshold \in Nat /\ ExpansionMin \in Nat
    /\ FinalTopK \in Nat \ {0} /\ RetrievalTopK \in Nat /\ RetrievalTopK >= FinalTopK
    /\ MaxNeighbors \in Nat /\ MaxEvidence \in Nat

VARIABLES mode,              \* which pipeline, chosen at the start
          phase,             \* how far it is
          retrieved,         \* the candidates: chunk and similarity, best first
          used,              \* the chunks marked as used
          context,           \* the chunks selected for the model
          citations,         \* what the answer cites, after validation
          status,            \* the result
          asked              \* the model was asked for an answer

vars == <<mode, phase, retrieved, used, context, citations, status, asked>>

Candidate == [chunk : Chunks, score : Scores]
Citation == [chunk : Chunks \cup {Unknown}, quote : Quotes \cup {NoQuote}, valid : BOOLEAN]

TypeOK ==
    /\ mode \in {"plain", "improved", "grounded", "chat"}
    /\ phase \in {"start", "rewritten", "retrieved", "asking", "ended"}
    /\ retrieved \in Seq(Candidate)
    /\ used \subseteq Chunks
    /\ context \in Seq(Chunks)
    /\ citations \in Seq(Citation)
    /\ status \in {"none", "answered", "insufficient_context", "grounding_failed", "error"}
    /\ asked \in BOOLEAN

Init ==
    /\ mode \in {"plain", "improved", "grounded", "chat"}
    /\ phase = "start"
    /\ retrieved = <<>> /\ used = {} /\ context = <<>> /\ citations = <<>>
    /\ status = "none" /\ asked = FALSE

Fails == phase' = "ended" /\ status' = "error"

----------------------------------------------------------------------------
(* Retrieval.                                                              *)

\* The first k of S in an order; what ties may come in any.
Ranked(S, Precedes(_, _), k) ==
    {hits \in [1 .. Min({k, Cardinality(S)}) -> S] :
        /\ \A i, j \in DOMAIN hits : i < j => hits[i] # hits[j] /\ Precedes(hits[i], hits[j])
        /\ \A h \in Range(hits), c \in S \ Range(hits) : Precedes(h, c)}

Search(score, k) ==
    Ranked({[chunk |-> c, score |-> score[c]] : c \in Chunks},
           LAMBDA c, d : c.score >= d.score, k)

\* Each chunk once, with its better score; chunks that tie stay in order.
Merged(primary, secondary) ==
    LET both == primary \o secondary
        best == {c \in Range(both) : \A d \in Range(both) :
                    d.chunk = c.chunk => d.score <= c.score}
        FirstAt(c) == Min({i \in DOMAIN both : both[i].chunk = c.chunk})
    IN  Ranked(best, LAMBDA c, d : \/ c.score > d.score
                                   \/ c.score = d.score /\ FirstAt(c) < FirstAt(d),
               RetrievalTopK)

Accepted(candidates) == Kept(candidates, {c \in Candidate : c.score >= Threshold})

\* A good hit in a manual brings the pages next to it.
Expands(candidate) ==
    mode = "chat" /\ candidate.chunk \in Manual /\ candidate.score >= ExpansionMin

\* A neighbour gets the score of its anchor.
AddNeighbor(selection, anchor, chunk) ==
    IF \/ Len(selection.chosen) >= FinalTopK \/ selection.added >= MaxNeighbors
       \/ chunk \in {c.chunk : c \in Range(selection.chosen)}
    THEN selection
    ELSE [chosen |-> Append(selection.chosen, [chunk |-> chunk, score |-> anchor.score]),
          added  |-> selection.added + 1]

AddNeighbors(selection, anchor) ==
    LET pages == Neighbors[anchor.chunk]
        after[i \in 0 .. Len(pages)] ==
            IF i = 0 THEN selection ELSE AddNeighbor(after[i - 1], anchor, pages[i])
    IN  after[Len(pages)]

AddCandidate(selection, candidate) ==
    IF Len(selection.chosen) >= FinalTopK THEN selection
    ELSE LET own == IF candidate.chunk \in {c.chunk : c \in Range(selection.chosen)}
                    THEN selection
                    ELSE [selection EXCEPT !.chosen = Append(@, candidate)]
         IN  IF Expands(candidate) THEN AddNeighbors(own, candidate) ELSE own

\* _select_context.
Selected(accepted) ==
    LET after[i \in 0 .. Len(accepted)] ==
            IF i = 0 THEN [chosen |-> <<>>, added |-> 0]
            ELSE AddCandidate(after[i - 1], accepted[i])
    IN  after[Len(accepted)].chosen

\* The trace after selection: neighbours that no query found are added to the
\* candidates and to the accepted ones; the context is what of the accepted
\* ones was selected.
Prepared(candidates) ==
    LET chosen == Selected(Accepted(candidates))
        found == {c.chunk : c \in Range(candidates)}
        new == Kept(chosen, {c \in Candidate : c.chunk \notin found})
        marked == {c.chunk : c \in Range(chosen)}
        inContext == Kept(Accepted(candidates) \o new, {c \in Candidate : c.chunk \in marked})
    IN  /\ retrieved' = candidates \o new
        /\ used' = marked
        /\ context' = [i \in DOMAIN inContext |-> inContext[i].chunk]

----------------------------------------------------------------------------
(* The pipelines.                                                          *)

\* A failed or empty rewrite leaves the question as it is.
Rewrite ==
    /\ phase = "start"
    /\ phase' = "rewritten"
    /\ UNCHANGED <<mode, retrieved, used, context, citations, status, asked>>

\* Day 22: the first hits are the context, whatever their similarity.
RetrievePlain ==
    /\ phase = "rewritten" /\ mode = "plain"
    /\ \E score \in [Chunks -> Scores] : \E hits \in Search(score, FinalTopK) :
          /\ retrieved' = hits
          /\ context' = [i \in DOMAIN hits |-> hits[i].chunk]
    /\ used' = Range(context')
    /\ phase' = "retrieved"
    /\ UNCHANGED <<mode, citations, status, asked>>

\* Day 23: only the rewritten query.  Days 24 and 25: the hits of the
\* question are merged in when the rewrite is another text.
RetrieveImproved(merging) ==
    /\ phase = "rewritten" /\ mode # "plain"
    /\ merging => mode # "improved"
    /\ \E score \in [Chunks -> Scores] : \E hits \in Search(score, RetrievalTopK) :
          IF merging
          THEN \E other \in [Chunks -> Scores] : \E more \in Search(other, RetrievalTopK) :
                  \E merged \in Merged(hits, more) : Prepared(merged)
          ELSE Prepared(hits)
    /\ phase' = "retrieved"
    /\ UNCHANGED <<mode, citations, status, asked>>

\* There is no index, or the query cannot be embedded.
RetrievalFails ==
    /\ phase = "rewritten"
    /\ Fails
    /\ UNCHANGED <<mode, retrieved, used, context, citations, asked>>

Grounded == mode \in {"grounded", "chat"}

\* The gate on what was retrieved.
GatePasses == context # <<>> /\ \E c \in Range(retrieved) : c.score >= Threshold

Refuse ==
    /\ phase = "retrieved" /\ Grounded /\ ~GatePasses
    /\ phase' = "ended" /\ status' = "insufficient_context"
    /\ UNCHANGED <<mode, retrieved, used, context, citations, asked>>

\* Days 22 and 23 ask even without any context.
Ask ==
    /\ phase = "retrieved"
    /\ Grounded => GatePasses
    /\ phase' = "asking" /\ asked' = TRUE
    /\ UNCHANGED <<mode, retrieved, used, context, citations, status>>

GenerationFails ==
    /\ phase = "asking"
    /\ Fails
    /\ UNCHANGED <<mode, retrieved, used, context, citations, asked>>

AnswerFreely ==
    /\ phase = "asking" /\ ~Grounded
    /\ phase' = "ended" /\ status' = "answered"
    /\ UNCHANGED <<mode, retrieved, used, context, citations, asked>>

----------------------------------------------------------------------------
(* Citations.                                                              *)

Item == [chunk : Chunks \cup {Unknown}, quote : Quotes \cup {NoQuote}]

\* The chunks of the context that have the quote.
Holders(quote) == {c \in Range(context) : quote \in Text[c]}

\* A quote that exactly one chunk has is moved to it, in the chat.
Resolvable(item) == mode = "chat" /\ Cardinality(Holders(item.quote)) = 1

\* Mutant: the chat takes any quote that is somewhere in the index.
IsValidAnywhere(item) ==
    /\ item.chunk \in Range(context)
    /\ item.quote # NoQuote
    /\ item.quote \in Text[item.chunk]
       \/ (mode = "chat" /\ \E c \in Chunks : item.quote \in Text[c])

IsValid(item) ==
    /\ item.chunk \in Range(context)
    /\ item.quote # NoQuote
    /\ item.quote \in Text[item.chunk] \/ Resolvable(item)

ToCitation(item) ==
    [chunk |-> IF IsValid(item) /\ item.quote \notin Text[item.chunk] /\ Resolvable(item)
               THEN CHOOSE c \in Holders(item.quote) : TRUE
               ELSE item.chunk,
     quote |-> item.quote,
     valid |-> IsValid(item)]

\* The output is no JSON object, or cites nothing at all.
AnswerUnusable ==
    /\ phase = "asking" /\ Grounded
    /\ phase' = "ended" /\ status' = "grounding_failed"
    /\ UNCHANGED <<mode, retrieved, used, context, citations, asked>>

ModelRefuses ==
    /\ phase = "asking" /\ Grounded
    /\ phase' = "ended" /\ status' = "insufficient_context"
    /\ UNCHANGED <<mode, retrieved, used, context, citations, asked>>

\* Everything cited must be proved; the chat keeps what is, if anything is.
\* `malformed': some item of the evidence is no object and is left out.
Validate(evidence, malformed) ==
    /\ phase = "asking" /\ Grounded /\ evidence # <<>>
    /\ LET all == [i \in DOMAIN evidence |-> ToCitation(evidence[i])]
           proved == Kept(all, {c \in Citation : c.valid})
       IN  \/ /\ ~malformed /\ proved = all
              /\ citations' = all /\ status' = "answered"
           \/ /\ malformed \/ proved # all
              /\ mode = "chat" /\ proved # <<>>
              /\ citations' = proved /\ status' = "answered"
           \/ /\ malformed \/ proved # all
              /\ mode # "chat" \/ proved = <<>>
              /\ citations' = all /\ status' = "grounding_failed"
    /\ phase' = "ended"
    /\ UNCHANGED <<mode, retrieved, used, context, asked>>

Next ==
    \/ Rewrite \/ RetrievePlain \/ RetrievalFails
    \/ \E merging \in BOOLEAN : RetrieveImproved(merging)
    \/ Refuse \/ Ask \/ GenerationFails \/ AnswerFreely
    \/ AnswerUnusable \/ ModelRefuses
    \/ \E n \in 1 .. MaxEvidence : \E evidence \in [1 .. n -> Item] :
          \E malformed \in BOOLEAN : Validate(evidence, malformed)

Spec == Init /\ [][Next]_vars

----------------------------------------------------------------------------
(* Properties.                                                             *)

\* A grounded answer cites something, and everything it cites is verbatim in
\* the chunk it names, which the model was shown.
AnsweredIsProved ==
    Grounded /\ status = "answered" =>
        /\ citations # <<>>
        /\ \A c \in Range(citations) :
              c.valid /\ c.chunk \in Range(context) /\ c.quote \in Text[c.chunk]

\* No chunk below the threshold reaches the model unless it is next to a good
\* hit in a manual, and no more chunks than allowed do, all told in the trace;
\* without any the model is not asked.
ContextIsRelevant ==
    mode # "plain" =>
        /\ Len(context) <= FinalTopK /\ Range(context) \subseteq used
        /\ \A c \in Range(context) : \E r \in Range(retrieved) :
              /\ r.score >= Threshold
              /\ \/ r.chunk = c
                 \/ mode = "chat" /\ r.score >= ExpansionMin /\ c \in Range(Neighbors[r.chunk])
        /\ asked /\ Grounded => context # <<>>
=============================================================================
