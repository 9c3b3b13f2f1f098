-------------------------- MODULE StructuralChunker --------------------------
(***************************************************************************)
(* Structural chunking of a document: whole segments are grouped until a   *)
(* section begins or the chunk would be too long; only a segment that is   *)
(* too long itself is cut, at sentences, and a sentence that is too long   *)
(* at blanks.  Blanks come in runs, and a run at a cut is dropped.  The    *)
(* document is made up while it is read.                                   *)
(***************************************************************************)
EXTENDS Integers, Sequences, FiniteSets

CONSTANTS MaxChars, MinChars,
          Separator,        \* length of the blank between two segments of a chunk
          Sizes,            \* lengths of segments and of sentences a run looks at
          Blanks,           \* lengths of a run of blanks, 0 where there is none
          Sections, NoSection,
          MaxSegments,
          MaxSentences      \* bound: sentences of all segments that are too long

\* Assumed of the constants by the runs and the theorems.
StructuralAssumption ==
    /\ MaxChars \in Nat \ {0} /\ MinChars \in Nat /\ Separator \in Nat
    /\ Sizes \subseteq Nat \ {0} /\ Blanks \subseteq Nat /\ NoSection \notin Sections
    /\ MaxSegments \in Nat /\ MaxSentences \in Nat

VARIABLES segments,   \* those read so far
          current,    \* the first and the last segment of the open group, if there is one
          chars,      \* current_chars: with a separator after each
          section,    \* current_section
          pieces,     \* of a segment too long: the buffer and what is left of a sentence
          groups,     \* the finished groups
          ended

vars == <<segments, current, chars, section, pieces, groups, ended>>

\* A segment counts, as history, the blanks after its sentences and at its cuts,
\* one less for each of these places.
Segment == [size : Nat, section : Sections \cup {NoSection}, heading : BOOLEAN, spare : Int]
Nobody == [from |-> 0, to |-> 0]
NoPieces == [on |-> FALSE, sentences |-> 0, buffer |-> 0, rest |-> 0]
Group == [from : Nat, to : Nat, size : Nat, cut : BOOLEAN]

TypeOK ==
    /\ segments \in Seq(Segment)
    /\ current \in [from : Nat, to : Nat] /\ chars \in Nat
    /\ section \in Sections \cup {NoSection}
    /\ pieces \in [on : BOOLEAN, sentences : Nat, buffer : Nat, rest : Nat]
    /\ groups \in Seq(Group)
    /\ ended \in BOOLEAN

Init ==
    /\ segments = <<>> /\ groups = <<>>
    /\ current = Nobody /\ chars = 0 /\ section = NoSection
    /\ pieces = NoPieces
    /\ ended = FALSE

----------------------------------------------------------------------------
(* Whole segments.                                                         *)

Open == current # Nobody

\* The text of a group has a separator less than the count.
Flushed ==
    IF Open THEN Append(groups, [from |-> current.from, to |-> current.to,
                                 size |-> chars - Separator, cut |-> FALSE])
    ELSE groups

SectionChanged(s) ==
    s.section # NoSection /\ section # NoSection /\ s.section # section

\* Mutant: the separators are not counted.
OverflowUncounted(s) == chars + s.size - Separator * (current.to - current.from + 1) > MaxChars

Overflow(s) == chars + s.size + Separator > MaxChars

\* Before enough is collected a section may begin inside a chunk.
AtBoundary(s) == (s.heading \/ SectionChanged(s)) /\ chars >= MinChars

MayRead == ~ended /\ ~pieces.on /\ Len(segments) < MaxSegments

Add(s) ==
    /\ MayRead /\ s.size <= MaxChars
    /\ segments' = Append(segments, s)
    /\ LET n == Len(segments) + 1 IN
       IF Open /\ ~AtBoundary(s) /\ ~Overflow(s)
       THEN /\ current' = [current EXCEPT !.to = n]
            /\ chars' = chars + s.size + Separator
            /\ section' = IF section = NoSection THEN s.section ELSE section
            /\ UNCHANGED groups
       ELSE /\ groups' = Flushed
            /\ current' = [from |-> n, to |-> n]
            /\ chars' = s.size + Separator
            /\ section' = s.section
    /\ UNCHANGED <<pieces, ended>>

----------------------------------------------------------------------------
(* A segment that is too long (_split_long_text).                          *)

\* It grows with its sentences and turns out to be too long; what it is about
\* makes no difference.
AddLong ==
    /\ MayRead
    /\ segments' = Append(segments, [size |-> 0, section |-> NoSection, heading |-> FALSE,
                                      spare |-> 0])
    /\ groups' = Flushed
    /\ current' = Nobody /\ chars' = 0 /\ section' = NoSection
    /\ pieces' = [NoPieces EXCEPT !.on = TRUE, !.sentences = pieces.sentences]
    /\ UNCHANGED ended

Piece(size) ==
    [from |-> Len(segments), to |-> Len(segments), size |-> size, cut |-> TRUE]

Emitted == IF pieces.buffer > 0 THEN Append(groups, Piece(pieces.buffer)) ELSE groups

\* The sentence that follows is after w blanks.
Grown(n, w) ==
    LET s == segments[Len(segments)]
    IN  [segments EXCEPT ![Len(segments)] =
            IF s.size = 0 THEN [s EXCEPT !.size = n]
            ELSE [s EXCEPT !.size = s.size + w + n, !.spare = s.spare + w - 1]]

\* To the buffer it is joined with one blank, however many there were.
Sentence(n, w) ==
    /\ pieces.on /\ pieces.rest = 0 /\ pieces.sentences < MaxSentences
    /\ w > 0
    /\ segments' = Grown(n, w)
    /\ LET candidate == IF pieces.buffer = 0 THEN n ELSE pieces.buffer + 1 + n
           fits == candidate <= MaxChars
       IN  /\ groups' = IF fits THEN groups ELSE Emitted
           /\ pieces' = [pieces EXCEPT !.sentences = @ + 1,
                  !.buffer = IF fits THEN candidate ELSE IF n <= MaxChars THEN n ELSE 0,
                  !.rest = IF fits \/ n <= MaxChars THEN 0 ELSE n]
    /\ UNCHANGED <<current, chars, section, ended>>

\* At the last run of w blanks that begins within the first MaxChars characters,
\* or after these if there is none; a run may follow them, too.  No sentence ends
\* with a blank.
Cut(k, w) ==
    /\ pieces.rest > MaxChars
    /\ k < MaxChars => w > 0
    /\ k + w < pieces.rest
    /\ segments' = [segments EXCEPT ![Len(segments)].spare = @ + w - 1]
    /\ groups' = Append(groups, Piece(k))
    /\ LET left == pieces.rest - (k + w) IN
       pieces' = [pieces EXCEPT !.rest = IF left > MaxChars THEN left ELSE 0,
                                !.buffer = IF left > MaxChars THEN 0 ELSE left]
    /\ UNCHANGED <<current, chars, section, ended>>

EndLong ==
    /\ pieces.on /\ pieces.rest = 0
    /\ segments[Len(segments)].size > MaxChars
    /\ groups' = Emitted
    /\ pieces' = [NoPieces EXCEPT !.sentences = pieces.sentences]
    /\ UNCHANGED <<segments, current, chars, section, ended>>

End ==
    /\ ~ended /\ ~pieces.on
    /\ groups' = Flushed
    /\ current' = Nobody /\ chars' = 0 /\ section' = NoSection
    /\ ended' = TRUE
    /\ UNCHANGED <<segments, pieces>>

Next ==
    \/ \E s \in [size : Sizes, section : Sections \cup {NoSection}, heading : BOOLEAN,
                spare : {0}] : Add(s)
    \/ AddLong \/ EndLong \/ End
    \/ \E w \in Blanks :
          \/ \E n \in Sizes : Sentence(n, w)
          \/ \E k \in 1 .. MaxChars : Cut(k, w)

Spec == Init /\ [][Next]_vars

----------------------------------------------------------------------------
(* Properties.                                                             *)

\* No chunk is longer than allowed, with whatever was cut and joined.
WithinLimit == \A g \in DOMAIN groups : groups[g].size <= MaxChars

\* How much of a segment its pieces in a list of groups hold, and how many they are.
Held(list, i) ==
    LET sum[g \in 0 .. Len(list)] ==
            IF g = 0 THEN 0
            ELSE sum[g - 1] + (IF list[g].cut /\ list[g].from = i THEN list[g].size ELSE 0)
    IN  sum[Len(list)]
Parts(list, i) == Cardinality({g \in DOMAIN list : list[g].cut /\ list[g].from = i})

\* The chunks hold the segments in their order, each once or, if it was cut, in
\* adjacent pieces that lack nothing but blanks: those they were cut at, and all
\* but one of those after a sentence within a piece.
SegmentsAreKept ==
    ended =>
        /\ (groups = <<>>) = (segments = <<>>)
        /\ groups # <<>> => groups[1].from = 1 /\ groups[Len(groups)].to = Len(segments)
        /\ \A g \in 2 .. Len(groups) :
              \/ groups[g].from = groups[g - 1].to + 1
              \/ groups[g].from = groups[g - 1].to /\ groups[g].cut /\ groups[g - 1].cut
        /\ \A i \in DOMAIN segments : Parts(groups, i) > 0 =>
              Held(groups, i) + Parts(groups, i) + segments[i].spare = segments[i].size + 1

\* A chunk that is shorter than the minimum ends only before what does not fit.
ShortIsForced ==
    \A g \in 1 .. Len(groups) - 1 :
        ~groups[g].cut /\ groups[g].size + Separator < MinChars =>
            groups[g].size + segments[groups[g].to + 1].size + 2 * Separator > MaxChars
=============================================================================
