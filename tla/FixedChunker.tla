---------------------------- MODULE FixedChunker ----------------------------
(***************************************************************************)
(* Fixed chunking of a document: windows of Size characters over the whole *)
(* text, each Overlap characters into the one before; a window without     *)
(* anything but blanks is dropped.  A chunk tells of which segments (pages,*)
(* messages) it has text.  Positions count from 0, ends are exclusive.     *)
(***************************************************************************)
EXTENDS Integers, Sequences

CONSTANTS Size, Overlap,   \* chunk_size, overlap
          Separator,       \* length of the blank between two segments
          Lengths,         \* lengths of segments a run looks at
          MaxSegments

\* Assumed of the constants by the runs and the theorems.
FixedAssumption ==
    /\ Size \in Nat \ {0} /\ Overlap \in Nat /\ Overlap < Size
    /\ Separator \in Nat /\ Lengths \subseteq Nat \ {0} /\ MaxSegments \in Nat

VARIABLES stage,    \* the segments are joined, the text is cut, all is done
          ranges,   \* where the segments are in the text
          total,    \* its length
          blank,    \* its blanks
          start,    \* of the next window
          chunks    \* what there is so far

vars == <<stage, ranges, total, blank, start, chunks>>

Range == [from : Nat, to : Nat]
Chunk == [from : Nat, to : Nat, of : SUBSET Nat]

TypeOK ==
    /\ stage \in {"joining", "cutting", "done"}
    /\ ranges \in Seq(Range)
    /\ total \in Nat /\ start \in Nat
    /\ blank \subseteq Nat
    /\ chunks \in Seq(Chunk)

Init ==
    /\ stage = "joining"
    /\ ranges = <<>> /\ total = 0 /\ blank = {}
    /\ start = 0 /\ chunks = <<>>

----------------------------------------------------------------------------
(* The text (_segmented_text).                                             *)

Position == IF total = 0 THEN 0 ELSE total + Separator

\* A segment begins and ends with something to read (Segment strips its text).
Join(n) ==
    /\ stage = "joining" /\ Len(ranges) < MaxSegments
    /\ LET from == Position IN
       /\ ranges' = Append(ranges, [from |-> from, to |-> from + n])
       /\ total' = from + n
       /\ \E inner \in SUBSET (from + 1 .. from + n - 2) :
             blank' = blank \cup (total .. from - 1) \cup inner
    /\ UNCHANGED <<stage, start, chunks>>

\* A document without text has no chunks.
Joined ==
    /\ stage = "joining"
    /\ stage' = IF total = 0 THEN "done" ELSE "cutting"
    /\ UNCHANGED <<ranges, total, blank, start, chunks>>

----------------------------------------------------------------------------
(* The windows (FixedChunker.chunk).                                       *)

Least(a, b) == IF a < b THEN a ELSE b

Step == Size - Overlap

\* The segments a window meets.
Covered(from, to) == {i \in DOMAIN ranges : ranges[i].from < to /\ ranges[i].to > from}

Readable(from, to) == \E p \in from .. to - 1 : p \notin blank

Window ==
    /\ stage = "cutting" /\ start < total
    /\ LET end == Least(start + Size, total) IN
       /\ chunks' = IF Readable(start, end)
                    THEN Append(chunks, [from |-> start, to |-> end, of |-> Covered(start, end)])
                    ELSE chunks
       /\ stage' = IF end = total THEN "done" ELSE stage
       /\ start' = IF end = total THEN start ELSE start + Step
    /\ UNCHANGED <<ranges, total, blank>>

Next == Joined \/ Window \/ \E n \in Lengths : Join(n)

Spec == Init /\ [][Next]_vars

----------------------------------------------------------------------------
(* Properties.                                                             *)

\* Whatever the sizes, no readable character of the document is left out.
NothingLeftOut ==
    stage = "done" => \A p \in 0 .. total - 1 : p \in blank \/ \E c \in DOMAIN chunks :
        chunks[c].from <= p /\ p < chunks[c].to

\* Neighbours repeat the overlap and no more, and each adds something of its own.
OnlyOverlapRepeats ==
    \A c \in DOMAIN chunks : \A d \in DOMAIN chunks : c < d =>
        /\ chunks[d].from >= chunks[c].to - Overlap
        /\ chunks[d].to > chunks[c].to

\* A reader of the chunk finds text of exactly the segments it names, save for
\* those of which it only has blanks.
SourcesAreNamed ==
    \A c \in DOMAIN chunks : \A i \in DOMAIN ranges :
        LET seen == {p \in ranges[i].from .. ranges[i].to - 1 :
                        chunks[c].from <= p /\ p < chunks[c].to}
        IN  i \in chunks[c].of <=> seen # {}
=============================================================================
