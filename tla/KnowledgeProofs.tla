-------------------------- MODULE KnowledgeProofs --------------------------
(***************************************************************************)
(* What becomes of knowledge: documents cut into chunks, for every size    *)
(* and every document; the facts of a task, whatever an extractor          *)
(* proposes and in whatever order; grades and results, whoever runs and    *)
(* grades at once; and what an answer rests on, whatever is retrieved and  *)
(* whatever the model cites.                                               *)
(*                                                                         *)
(* The file begins with two things the others need. A statement about      *)
(* all lengths is proved by the least number that refutes it               *)
(* (LeastNumber), and what a sublist holds and keeps of the order          *)
(* follows from how many of its elements come before each place            *)
(* (KeptIsInOrder).                                                        *)
(***************************************************************************)
EXTENDS Services, Sublist, FiniteSetTheorems, SequenceTheorems, WellFoundedInduction, TLAPS

----------------------------------------------------------------------------
(* Numbers and lists.                                                      *)

\* Every set of naturals that is not empty has a least member.
LEMMA LeastNumber ==
    ASSUME NEW T, T \subseteq Nat, T # {}
    PROVE  \E m \in T : \A n \in T : m <= n
<1> DEFINE R == {ss \in Nat \X Nat : ss[1] < ss[2]}
<1>1. IsWellFoundedOn(R, Nat)
    BY NatLessThanWellFounded DEF OpToRel
<1>2. \A x, y \in Nat : x < y => <<x, y>> \in R
    OBVIOUS
<1> HIDE DEF R
<1>3. PICK x \in T : \A y \in T : ~(<<y, x>> \in R)
    BY <1>1, WFMin
<1>4. \A y \in T : ~(y < x)
    BY <1>2, <1>3
<1>5. \A y \in T : x <= y
    BY <1>4
<1> QED BY <1>5

\* Counting up to a place: one more for each place that counts.
LEMMA CountGrows ==
    ASSUME NEW P, NEW m \in Nat, P \subseteq 1 .. m
    PROVE  LET C(n) == Cardinality({j \in P : j <= n}) IN
           /\ C(0) = 0 /\ C(m) = Cardinality(P)
           /\ \A n \in Nat : C(n) \in Nat
           /\ \A n \in Nat : n + 1 \in P => C(n + 1) = C(n) + 1
           /\ \A n \in Nat : n + 1 \notin P => C(n + 1) = C(n)
           /\ \A n, k \in Nat : n <= k => C(n) <= C(k)
<1> DEFINE B(n) == {j \in P : j <= n}
<1>0. \A j \in P : j \in Nat /\ ~(j <= 0) /\ j <= m
    <2>1. \A j \in 1 .. m : j \in Nat /\ ~(j <= 0) /\ j <= m
        BY SMT
    <2> QED BY <2>1
<1>1. IsFiniteSet(P)
    <2>1. IsFiniteSet(1 .. m)
        BY FS_Interval, SMT
    <2> QED BY <2>1, FS_Subset, Zenon
<1>2. \A n : IsFiniteSet(B(n))
    <2> TAKE n
    <2>1. B(n) \subseteq P
        BY Zenon
    <2> QED BY <1>1, <2>1, FS_Subset, Zenon
<1>3. \A n : Cardinality(B(n)) \in Nat
    BY <1>2, FS_CardinalityType, Zenon
<1>4. B(0) = {} /\ B(m) = P
    BY <1>0, Zenon
<1>5. Cardinality(B(0)) = 0
    BY <1>4, FS_EmptySet
<1>6. \A n \in Nat : n + 1 \in P => Cardinality(B(n + 1)) = Cardinality(B(n)) + 1
    <2> TAKE n \in Nat
    <2> HAVE n + 1 \in P
    <2>1. \A j \in P : j <= n + 1 <=> j <= n \/ j = n + 1
        BY <1>0, SMT
    <2>2. n + 1 <= n + 1 /\ ~(n + 1 <= n)
        BY SMT
    <2>3. B(n + 1) = B(n) \cup {n + 1} /\ n + 1 \notin B(n)
        BY <2>1, <2>2, Zenon
    <2> HIDE DEF B
    <2> QED BY <1>2, <2>3, FS_AddElement
<1>7. \A n \in Nat : n + 1 \notin P => Cardinality(B(n + 1)) = Cardinality(B(n))
    <2> TAKE n \in Nat
    <2> HAVE n + 1 \notin P
    <2>1. \A j \in P : j # n + 1 => (j <= n + 1 <=> j <= n)
        BY <1>0, SMT
    <2>2. \A j \in P : j <= n + 1 <=> j <= n
        BY <2>1
    <2>3. B(n + 1) = B(n)
        BY <2>2, Zenon
    <2> QED BY <2>3
<1>8. \A n, k \in Nat : n <= k => Cardinality(B(n)) <= Cardinality(B(k))
    <2> TAKE n, k \in Nat
    <2> HAVE n <= k
    <2>1. \A j \in P : j <= n => j <= k
        BY <1>0, SMT
    <2>2. B(n) \subseteq B(k)
        BY <2>1, Zenon
    <2> HIDE DEF B
    <2> QED BY <1>2, <2>2, FS_Subset
<1> QED BY <1>3, <1>4, <1>5, <1>6, <1>7, <1>8

\* What is kept of a list has its elements that are in the set, in their order.
LEMMA KeptIsInOrder ==
    ASSUME NEW T, NEW list \in Seq(T), NEW S
    PROVE  LET kept == Kept(list, S) IN
           /\ kept \in Seq(T) /\ Len(kept) \in 0 .. Len(list)
           /\ \E at_ \in [1 .. Len(kept) -> 1 .. Len(list)] :
                 /\ \A k \in 1 .. Len(kept) : kept[k] = list[at_[k]] /\ kept[k] \in S
                 /\ \A k, l \in 1 .. Len(kept) : k < l => at_[k] < at_[l]
                 /\ \A i \in 1 .. Len(list) :
                       list[i] \in S => \E k \in 1 .. Len(kept) : at_[k] = i
<1> DEFINE m == Len(list)
           P == {i \in DOMAIN list : list[i] \in S}
           C(i) == Cardinality({j \in P : j <= i})
           n == Cardinality(P)
           At_(k) == CHOOSE i \in P : C(i) = k
           kept == [k \in 1 .. n |-> list[At_(k)]]
<1>1. m \in Nat /\ DOMAIN list = 1 .. m /\ \A i \in 1 .. m : list[i] \in T
    BY SMT
<1>2. kept = Kept(list, S)
    BY Zenon DEF Kept
<1>3. P \subseteq 1 .. m /\ \A i \in P : list[i] \in S
    BY <1>1, Zenon
<1>4. \A i \in 1 .. m : list[i] \in S => i \in P
    BY <1>1, Zenon
<1> HIDE DEF m, P
<1>5. /\ C(0) = 0 /\ C(m) = n
      /\ \A i \in Nat : C(i) \in Nat
      /\ \A i \in Nat : i + 1 \in P => C(i + 1) = C(i) + 1
      /\ \A i \in Nat : i + 1 \notin P => C(i + 1) = C(i)
      /\ \A i, k \in Nat : i <= k => C(i) <= C(k)
    BY <1>1, <1>3, CountGrows, Zenon
<1> HIDE DEF C, n
<1>6. n \in Nat
    BY <1>1, <1>5, Zenon
<1>7. \A i \in P : i \in 1 .. m /\ i \in Nat /\ i - 1 \in Nat /\ C(i) = C(i - 1) + 1
                   /\ C(i) \in 1 .. n
    <2> TAKE i \in P
    <2>1. i \in Nat /\ i - 1 \in Nat /\ (i - 1) + 1 = i /\ i \in 1 .. m /\ i <= m
        BY <1>1, <1>3, SMT
    <2>2. C(i) = C(i - 1) + 1
        BY <1>5, <2>1
    <2>3. C(i) <= C(m) /\ C(i) \in Nat /\ C(i - 1) \in Nat
        BY <1>1, <1>5, <2>1, Zenon
    <2>4. C(i) \in 1 .. n
        BY <1>5, <1>6, <2>2, <2>3, SMT
    <2> QED BY <2>1, <2>2, <2>4
<1>8. \A i, j \in P : i < j => C(i) < C(j)
    <2> TAKE i, j \in P
    <2> HAVE i < j
    <2>1. i <= j - 1
        BY <1>7, SMT
    <2>2. C(i) <= C(j - 1) /\ C(i) \in Nat /\ C(j - 1) \in Nat /\ C(j) = C(j - 1) + 1
        BY <1>5, <1>7, <2>1, Zenon
    <2> QED BY <2>2, SMT
<1>9. \A k \in 1 .. n : \E i \in P : C(i) = k
    <2> TAKE k \in 1 .. n
    <2> DEFINE R == {i \in Nat : C(i) >= k}
    <2>1. R \subseteq Nat /\ R # {}
        <3>1. m \in R
            BY <1>1, <1>5, SMT
        <3> QED BY <3>1
    <2>2. \A i \in R : i \in Nat /\ C(i) >= k
        OBVIOUS
    <2>3. \A i \in Nat : C(i) >= k => i \in R
        OBVIOUS
    <2> HIDE DEF R
    <2>4. PICK i \in R : \A j \in R : i <= j
        BY <2>1, LeastNumber
    <2>5. i # 0
        BY <1>5, <2>2, SMT
    <2>6. i - 1 \in Nat /\ (i - 1) + 1 = i /\ ~(i <= i - 1)
        BY <2>2, <2>5, SMT
    <2>7. ~(C(i - 1) >= k)
        BY <2>3, <2>4, <2>6, Zenon
    <2>8. C(i) = C(i - 1) + 1 \/ C(i) = C(i - 1)
        BY <1>5, <2>6
    <2>9. C(i - 1) \in Nat /\ C(i) >= k
        BY <1>5, <2>2, <2>6, Zenon
    <2>10. C(i) = k /\ C(i) # C(i - 1)
        BY <2>7, <2>8, <2>9, SMT
    <2>11. i \in P
        BY <1>5, <2>6, <2>10
    <2> QED BY <2>10, <2>11
<1>10. \A k \in 1 .. n : At_(k) \in P /\ C(At_(k)) = k
    BY <1>9, Zenon
<1> HIDE DEF At_
<1>11. kept \in [1 .. n -> T] /\ DOMAIN kept = 1 .. n
    BY <1>1, <1>7, <1>10, Zenon
<1>12. kept \in Seq(T) /\ Len(kept) = n
    BY <1>6, <1>11, SMT
<1>13. n <= m
    <2>1. IsFiniteSet(1 .. m) /\ Cardinality(1 .. m) = m
        BY <1>1, FS_Interval, SMT
    <2>2. Cardinality(P) <= Cardinality(1 .. m)
        BY <1>3, <2>1, FS_Subset, Zenon
    <2> QED BY <2>1, <2>2, Zenon DEF n
<1> DEFINE w == [k \in 1 .. n |-> At_(k)]
<1>14. w \in [1 .. n -> 1 .. m] /\ \A k \in 1 .. n : w[k] = At_(k)
    BY <1>7, <1>10, Zenon
<1>15. \A k \in 1 .. n : kept[k] = list[w[k]] /\ kept[k] \in S
    BY <1>3, <1>10, <1>14, Zenon
<1>16. \A k, l \in 1 .. n : k < l => w[k] < w[l]
    <2> TAKE k, l \in 1 .. n
    <2> HAVE k < l
    <2>1. w[k] \in P /\ w[l] \in P /\ C(w[k]) = k /\ C(w[l]) = l
        BY <1>10, <1>14
    <2>2. CASE w[k] = w[l]
        BY <1>6, <2>1, <2>2, SMT
    <2>3. CASE w[l] < w[k]
        <3>1. l < k
            BY <1>8, <2>1, <2>3
        <3> QED BY <1>6, <3>1, SMT
    <2>4. w[k] \in Nat /\ w[l] \in Nat
        BY <1>7, <2>1
    <2> QED BY <2>2, <2>3, <2>4, SMT
<1>17. \A i \in 1 .. m : list[i] \in S => \E k \in 1 .. n : w[k] = i
    <2> TAKE i \in 1 .. m
    <2> HAVE list[i] \in S
    <2>1. i \in P /\ C(i) \in 1 .. n
        BY <1>4, <1>7
    <2>2. At_(C(i)) \in P /\ C(At_(C(i))) = C(i)
        BY <1>10, <2>1
    <2>3. C(i) \in Nat /\ i \in Nat /\ At_(C(i)) \in Nat
        BY <1>5, <1>7, <2>1, <2>2
    <2>4. ~(i < At_(C(i))) /\ ~(At_(C(i)) < i)
        <3>1. i < At_(C(i)) => C(i) < C(At_(C(i)))
            BY <1>8, <2>1, <2>2
        <3>2. At_(C(i)) < i => C(At_(C(i))) < C(i)
            BY <1>8, <2>1, <2>2
        <3>3. ~(C(i) < C(i))
            BY <2>3, SMT
        <3> QED BY <2>2, <3>1, <3>2, <3>3
    <2>5. At_(C(i)) = i
        BY <2>3, <2>4, SMT
    <2> QED BY <1>14, <2>1, <2>5
<1> HIDE DEF kept, w
<1>18. Len(kept) \in 0 .. Len(list)
    BY <1>6, <1>1, <1>12, <1>13, SMT DEF m
<1> QED BY <1>2, <1>12, <1>14, <1>15, <1>16, <1>17, <1>18, Zenon DEF m

----------------------------------------------------------------------------
(* Fixed chunks.                                                           *)

Holds(p) == \E c \in DOMAIN chunks : chunks[c].from <= p /\ p < chunks[c].to

Nonempty == \A i \in DOMAIN ranges : ranges[i].from < ranges[i].to

FixedInv ==
    /\ Fixed!TypeOK
    /\ Nonempty
    /\ fixedStage = "joining" => chunks = <<>> /\ start = 0
    /\ fixedStage = "cutting" =>
          /\ start < total
          /\ \A p \in 0 .. start - 1 : p \in blank \/ Holds(p)
          /\ \A c \in DOMAIN chunks : chunks[c].to <= start + Overlap /\ chunks[c].to < total
    /\ Fixed!NothingLeftOut
    /\ Fixed!OnlyOverlapRepeats
    /\ Fixed!SourcesAreNamed

LEMMA FixedInit == Fixed!Init => FixedInv
BY SMT DEF Fixed!Init, FixedInv, Fixed!TypeOK, Nonempty, Fixed!NothingLeftOut, Fixed!OnlyOverlapRepeats, Fixed!SourcesAreNamed

\* The step of the windows is at least one character, and no more than a window.
LEMMA StepIsShort ==
    ASSUME Fixed!FixedAssumption
    PROVE  Fixed!Step \in Nat \ {0} /\ Fixed!Step <= Size /\ Fixed!Step + Overlap = Size
BY DEF Fixed!FixedAssumption, Fixed!Step

LEMMA JoinCorrect ==
    ASSUME Fixed!FixedAssumption, FixedInv, NEW n \in Lengths, Fixed!Join(n)
    PROVE  FixedInv'
<1>1. PICK inner \in SUBSET (Fixed!Position + 1 .. Fixed!Position + n - 2) :
          blank' = blank \cup (total .. Fixed!Position - 1) \cup inner
  BY DEF Fixed!Join
<1>2. n \in Nat /\ Fixed!Position \in Nat /\ Fixed!Position + n \in Nat
  BY DEF Fixed!FixedAssumption, FixedInv, Fixed!TypeOK, Fixed!Position
<1>3. /\ fixedStage = "joining" /\ fixedStage' = fixedStage
      /\ chunks = <<>> /\ chunks' = chunks
      /\ start = 0 /\ start' = start
      /\ ranges' = Append(ranges, [from |-> Fixed!Position, to |-> Fixed!Position + n])
      /\ total' = Fixed!Position + n
  BY DEF FixedInv, Fixed!Join
<1>4. Fixed!TypeOK'
  <2>1. [from |-> Fixed!Position, to |-> Fixed!Position + n] \in Fixed!Range
    BY <1>2 DEF Fixed!Range
  <2>2. ranges' \in Seq(Fixed!Range)
    BY <1>3, <2>1 DEF FixedInv, Fixed!TypeOK
  <2>3. (Fixed!Position + 1 .. Fixed!Position + n - 2) \subseteq Nat /\ (total .. Fixed!Position - 1) \subseteq Nat
    BY <1>2 DEF FixedInv, Fixed!TypeOK
  <2>4. inner \subseteq Nat BY <2>3
  <2>5. blank \subseteq Nat BY DEF FixedInv, Fixed!TypeOK
  <2>6. blank' \subseteq Nat BY <1>1, <2>3, <2>4, <2>5
  <2> QED BY <1>2, <1>3, <2>2, <2>6 DEF FixedInv, Fixed!TypeOK
<1>5. Nonempty'
  BY <1>2, <1>3 DEF Fixed!FixedAssumption, FixedInv, Fixed!TypeOK, Nonempty
<1> QED
  BY <1>3, <1>4, <1>5 DEF FixedInv, Fixed!NothingLeftOut, Fixed!OnlyOverlapRepeats, Fixed!SourcesAreNamed

LEMMA JoinedCorrect ==
    ASSUME Fixed!FixedAssumption, FixedInv, Fixed!Joined
    PROVE  FixedInv'
<1>1. /\ fixedStage' = IF total = 0 THEN "done" ELSE "cutting"
      /\ chunks = <<>> /\ start = 0 /\ total \in Nat
      /\ UNCHANGED <<ranges, total, blank, start, chunks>>
  BY DEF Fixed!Joined, FixedInv, Fixed!TypeOK
<1>2. Fixed!TypeOK' BY <1>1 DEF FixedInv, Fixed!TypeOK
<1> QED
  BY <1>1, <1>2 DEF FixedInv, Nonempty, Fixed!NothingLeftOut, Fixed!OnlyOverlapRepeats, Fixed!SourcesAreNamed, Holds

LEMMA WindowCorrect ==
    ASSUME Fixed!FixedAssumption, FixedInv, Fixed!Window
    PROVE  FixedInv'
<1> DEFINE end == Fixed!Least(start + Size, total)
           new == [from |-> start, to |-> end, of |-> Fixed!Covered(start, end)]
<1>1. /\ fixedStage = "cutting" /\ start < total /\ start \in Nat /\ total \in Nat
      /\ chunks' = IF Fixed!Readable(start, end) THEN Append(chunks, new) ELSE chunks
      /\ fixedStage' = IF end = total THEN "done" ELSE fixedStage
      /\ start' = IF end = total THEN start ELSE start + Fixed!Step
      /\ UNCHANGED <<ranges, total, blank>>
  BY DEF Fixed!Window, FixedInv, Fixed!TypeOK
<1>2. /\ end \in Nat /\ start < end /\ end <= start + Size /\ end <= total
      /\ end # total => end = start + Size
  BY <1>1 DEF Fixed!Least, Fixed!FixedAssumption
<1>3. new \in Fixed!Chunk
  <2>1. Fixed!Covered(start, end) \subseteq Nat
    BY DEF Fixed!Covered, FixedInv, Fixed!TypeOK
  <2> QED BY <1>1, <1>2, <2>1 DEF Fixed!Chunk
<1>4. chunks \in Seq(Fixed!Chunk) /\ \A c \in DOMAIN chunks : chunks[c] \in Fixed!Chunk
  BY DEF FixedInv, Fixed!TypeOK
<1> HIDE DEF end, new
<1>5. Fixed!TypeOK'
  <2>1. chunks' \in Seq(Fixed!Chunk) BY <1>1, <1>3, <1>4
  <2>2. start' \in Nat BY <1>1, StepIsShort
  <2> QED BY <1>1, <2>1, <2>2 DEF FixedInv, Fixed!TypeOK
<1>6. new.from = start /\ new.to = end /\ new.of = Fixed!Covered(start, end)
  BY DEF new
<1>7. CASE Fixed!Readable(start, end)
  <2>1. /\ DOMAIN chunks' = 1 .. Len(chunks) + 1 /\ DOMAIN chunks = 1 .. Len(chunks)
        /\ \A c \in DOMAIN chunks : chunks'[c] = chunks[c]
        /\ chunks'[Len(chunks) + 1] = new /\ Len(chunks) \in Nat
    BY <1>1, <1>3, <1>4, <1>7
  <2>2. \A p \in 0 .. end - 1 : p \in blank' \/ Holds(p)'
    <3> SUFFICES ASSUME NEW p \in 0 .. end - 1, p \notin blank
                 PROVE  \E c \in DOMAIN chunks' : chunks'[c].from <= p /\ p < chunks'[c].to
      BY <1>1 DEF Holds
    <3>1. CASE p < start
      <4>1. PICK c \in DOMAIN chunks : chunks[c].from <= p /\ p < chunks[c].to
        BY <1>1, <1>2, <3>1 DEF FixedInv, Holds
      <4> QED BY <2>1, <4>1
    <3>2. CASE p >= start
      BY <1>1, <1>2, <1>6, <2>1, <3>2
    <3> QED BY <1>1, <1>2, <3>1, <3>2
  <2>3. \A c \in DOMAIN chunks' : chunks'[c].to <= end
    <3>1. \A c \in DOMAIN chunks : chunks[c].to <= start + Overlap /\ chunks[c].to < total
      BY <1>1 DEF FixedInv
    <3>2. \A c \in DOMAIN chunks : chunks[c].to \in Nat BY <1>4 DEF Fixed!Chunk
    <3>3. \A c \in DOMAIN chunks : chunks[c].to < end
      BY <1>1, <1>2, <3>1, <3>2 DEF Fixed!FixedAssumption
    <3> QED BY <1>2, <1>6, <2>1, <3>2, <3>3
  <2>4. Fixed!OnlyOverlapRepeats'
    <3> SUFFICES ASSUME NEW c \in DOMAIN chunks', NEW d \in DOMAIN chunks', c < d
                 PROVE  /\ chunks'[d].from >= chunks'[c].to - Overlap
                        /\ chunks'[d].to > chunks'[c].to
      BY DEF Fixed!OnlyOverlapRepeats
    <3>1. c \in DOMAIN chunks BY <2>1
    <3>2. CASE d \in DOMAIN chunks
      BY <2>1, <3>1, <3>2 DEF FixedInv, Fixed!OnlyOverlapRepeats
    <3>3. CASE d = Len(chunks) + 1
      <4>1. chunks[c].to <= start + Overlap /\ chunks[c].to < total /\ chunks[c].to \in Nat
        BY <1>1, <1>4, <3>1 DEF FixedInv, Fixed!Chunk
      <4> QED BY <1>1, <1>2, <1>6, <2>1, <3>1, <3>3, <4>1 DEF Fixed!FixedAssumption
    <3> QED BY <2>1, <3>2, <3>3
  <2>5. Fixed!SourcesAreNamed'
    <3> SUFFICES ASSUME NEW c \in DOMAIN chunks', NEW i \in DOMAIN ranges
                 PROVE  i \in chunks'[c].of <=>
                          {p \in ranges[i].from .. ranges[i].to - 1 :
                              chunks'[c].from <= p /\ p < chunks'[c].to} # {}
      BY <1>1 DEF Fixed!SourcesAreNamed
    <3>1. CASE c \in DOMAIN chunks
      BY <2>1, <3>1 DEF FixedInv, Fixed!SourcesAreNamed
    <3>2. CASE c = Len(chunks) + 1
      <4>1. chunks'[c].of = Fixed!Covered(start, end) /\ chunks'[c].from = start /\ chunks'[c].to = end
        BY <1>6, <2>1, <3>2
      <4>2. ranges[i].from \in Nat /\ ranges[i].to \in Nat /\ ranges[i].from < ranges[i].to
        <5>1. ranges \in Seq(Fixed!Range) BY DEF FixedInv, Fixed!TypeOK
        <5>2. ranges[i] \in Fixed!Range BY <5>1
        <5> QED BY <5>2 DEF Fixed!Range, FixedInv, Nonempty
      <4>3. i \in Fixed!Covered(start, end) <=> ranges[i].from < end /\ ranges[i].to > start
        BY DEF Fixed!Covered
      <4>4. ASSUME ranges[i].from < end, ranges[i].to > start
            PROVE  \E p \in ranges[i].from .. ranges[i].to - 1 : start <= p /\ p < end
        <5>1. CASE ranges[i].from >= start BY <1>1, <1>2, <4>2, <4>4, <5>1
        <5>2. CASE ranges[i].from < start BY <1>1, <1>2, <4>2, <4>4, <5>2
        <5> QED BY <1>1, <4>2, <5>1, <5>2
      <4>5. ASSUME NEW p \in ranges[i].from .. ranges[i].to - 1, start <= p, p < end
            PROVE  ranges[i].from < end /\ ranges[i].to > start
        BY <1>1, <1>2, <4>2, <4>5
      <4> QED BY <4>1, <4>3, <4>4, <4>5
    <3> QED BY <2>1, <3>1, <3>2
  <2>6. QED
    <3>1. CASE end = total
      BY <1>1, <1>5, <2>2, <2>4, <2>5, <3>1 DEF FixedInv, Nonempty, Fixed!NothingLeftOut, Holds
    <3>2. CASE end # total
      <4>1. /\ fixedStage' = "cutting" /\ start' = start + Fixed!Step /\ end = start + Size
            /\ start' + Overlap = end /\ start' < total /\ start' <= end
        <5>1. Overlap \in Nat /\ Size \in Nat
          BY DEF Fixed!FixedAssumption
        <5>2. /\ fixedStage' = "cutting" /\ start' = start + Fixed!Step
              /\ start \in Nat /\ total \in Nat
          BY <1>1, <3>2
        <5>3. end = start + Size /\ end < total
          BY <1>1, <1>2, <3>2, <5>1
        <5> QED BY <1>2, <5>1, <5>2, <5>3, StepIsShort
      <4>2. \A p \in 0 .. start' - 1 : p \in blank' \/ Holds(p)'
        BY <2>2, <4>1, <1>1, <1>2, StepIsShort
      <4>3. \A c \in DOMAIN chunks' : chunks'[c].to <= start' + Overlap /\ chunks'[c].to < total'
        <5>1. \A c \in DOMAIN chunks' : chunks'[c].to \in Nat
          BY <1>2, <1>4, <1>6, <2>1 DEF Fixed!Chunk
        <5> QED BY <1>1, <1>2, <2>3, <3>2, <4>1, <5>1
      <4> QED BY <1>5, <2>4, <2>5, <4>1, <4>2, <4>3, <1>1 DEF FixedInv, Nonempty, Fixed!NothingLeftOut
    <3> QED BY <3>1, <3>2
<1>8. CASE ~Fixed!Readable(start, end)
  <2>1. chunks' = chunks BY <1>1, <1>8
  <2>2. \A p \in start .. end - 1 : p \in blank BY <1>8 DEF Fixed!Readable
  <2>3. \A p \in 0 .. end - 1 : p \in blank' \/ Holds(p)'
    <3> SUFFICES ASSUME NEW p \in 0 .. end - 1, p \notin blank
                 PROVE  Holds(p)
      BY <1>1, <2>1 DEF Holds
    <3> QED BY <1>1, <1>2, <2>2 DEF FixedInv
  <2>4. Fixed!OnlyOverlapRepeats' BY <2>1 DEF FixedInv, Fixed!OnlyOverlapRepeats
  <2>5. Fixed!SourcesAreNamed' BY <1>1, <2>1 DEF FixedInv, Fixed!SourcesAreNamed
  <2>6. QED
    <3>1. CASE end = total
      BY <1>1, <1>5, <2>3, <2>4, <2>5, <3>1 DEF FixedInv, Nonempty, Fixed!NothingLeftOut, Holds
    <3>2. CASE end # total
      <4>1. /\ fixedStage' = "cutting" /\ start' = start + Fixed!Step
            /\ start' + Overlap = end /\ start' < total /\ start' <= end
        <5>1. Overlap \in Nat /\ Size \in Nat
          BY DEF Fixed!FixedAssumption
        <5>2. /\ fixedStage' = "cutting" /\ start' = start + Fixed!Step
              /\ start \in Nat /\ total \in Nat
          BY <1>1, <3>2
        <5>3. end = start + Size /\ end < total
          BY <1>1, <1>2, <3>2, <5>1
        <5> QED BY <1>2, <5>1, <5>2, <5>3, StepIsShort
      <4>2. \A p \in 0 .. start' - 1 : p \in blank' \/ Holds(p)'
        BY <2>3, <4>1, <1>1, <1>2, StepIsShort
      <4>3. \A c \in DOMAIN chunks' : chunks'[c].to <= start' + Overlap /\ chunks'[c].to < total'
        <5>1. \A c \in DOMAIN chunks : /\ chunks[c].to \in Nat
                                       /\ chunks[c].to <= start + Overlap /\ chunks[c].to < total
          BY <1>1, <1>4 DEF FixedInv, Fixed!Chunk
        <5> QED BY <1>1, <1>2, <2>1, <4>1, <5>1, StepIsShort DEF Fixed!FixedAssumption
      <4> QED BY <1>5, <2>4, <2>5, <4>1, <4>2, <4>3, <1>1 DEF FixedInv, Nonempty, Fixed!NothingLeftOut
    <3> QED BY <3>1, <3>2
<1> QED BY <1>7, <1>8

LEMMA FixedStep == ASSUME Fixed!FixedAssumption PROVE FixedInv /\ [Fixed!Next]_(Fixed!vars) => FixedInv'
<1> SUFFICES ASSUME FixedInv, [Fixed!Next]_(Fixed!vars) PROVE FixedInv'
  OBVIOUS
<1>1. CASE Fixed!Joined BY <1>1, JoinedCorrect
<1>2. CASE Fixed!Window BY <1>2, WindowCorrect
<1>3. ASSUME NEW n \in Lengths, Fixed!Join(n) PROVE FixedInv' BY <1>3, JoinCorrect
<1>4. CASE UNCHANGED Fixed!vars
  BY <1>4 DEF Fixed!vars, FixedInv, Fixed!TypeOK, Nonempty, Holds, Fixed!NothingLeftOut, Fixed!OnlyOverlapRepeats, Fixed!SourcesAreNamed
<1> QED BY <1>1, <1>2, <1>3, <1>4 DEF Fixed!Next

LEMMA FixedInductive == Spec => []FixedInv
<1>1. Fixed!FixedAssumption
    BY ServicesConstants DEF ServicesAssumption
<1>2. Init => FixedInv
    BY <1>1, FixedInit DEF Init
<1>3. [Next]_vars => [Fixed!Next]_(Fixed!vars)
    BY Zenon DEF Next, Only, vars, Fixed!vars, fixedVars, chunkVars
<1>4. FixedInv /\ [Next]_vars => FixedInv'
    BY <1>1, <1>3, FixedStep
<1> QED BY <1>2, <1>4, PTL DEF Spec

\* The chunker's variables have their types (FixedChunker.chunk).
THEOREM FixedTypeCorrect == Spec => []Fixed!TypeOK
<1>1. FixedInv => Fixed!TypeOK BY DEF FixedInv
<1> QED BY FixedInductive, <1>1, PTL

\* For every size, overlap and document, every readable character is in a chunk
\* (the windows of FixedChunker.chunk leave no gap).
THEOREM EverythingIsChunked == Spec => []Fixed!NothingLeftOut
<1>1. FixedInv => Fixed!NothingLeftOut BY DEF FixedInv
<1> QED BY FixedInductive, <1>1, PTL

\* No two chunks share more than the overlap and none lies within another: the
\* last window is not repeated (the break of FixedChunker.chunk).
THEOREM OverlapIsExact == Spec => []Fixed!OnlyOverlapRepeats
<1>1. FixedInv => Fixed!OnlyOverlapRepeats BY DEF FixedInv
<1> QED BY FixedInductive, <1>1, PTL

\* A chunk's metadata names the segments it has text of, and no others
\* (merge_segment_metadata of the covered segments).
THEOREM SourcesAreRight == Spec => []Fixed!SourcesAreNamed
<1>1. FixedInv => Fixed!SourcesAreNamed BY DEF FixedInv
<1> QED BY FixedInductive, <1>1, PTL

----------------------------------------------------------------------------
(* The facts of a task.                                                    *)

FactList(list) == list \in Seq(Remembered!Fact) /\ Remembered!Distinguished(list)

SaysKey(list, i, key) == key # NoKey /\ list[i].key = key
SaysText(list, i, text) == text # NoText /\ list[i].text = text

LEMMA FirstIsIn ==
    ASSUME NEW P, P \subseteq Nat, P # {}
    PROVE  Remembered!First(P) \in P
<1>1. \E m \in P : \A n \in P : m <= n
    BY LeastNumber
<1> QED BY <1>1, Zenon DEF Remembered!First

\* A fact is found by its key, or else by its text.
LEMMA FindIs ==
    ASSUME NEW list \in Seq(Remembered!Fact), NEW text, NEW key
    PROVE  LET i == Remembered!FindFact(list, key, text) IN
           \/ /\ i = 0
              /\ \A j \in 1 .. Len(list) : ~SaysKey(list, j, key) /\ ~SaysText(list, j, text)
           \/ i \in 1 .. Len(list) /\ SaysKey(list, i, key)
           \/ /\ i \in 1 .. Len(list) /\ SaysText(list, i, text)
              /\ \A j \in 1 .. Len(list) : ~SaysKey(list, j, key)
<1> DEFINE K == Remembered!WithKey(list, key)
           X == Remembered!WithText(list, text)
<1>1. K \subseteq Nat /\ X \subseteq Nat
    <2>1. \A j \in 1 .. Len(list) : j \in Nat
        BY SMT
    <2> QED BY <2>1, Zenon DEF Remembered!WithKey, Remembered!WithText
<1>2. \A j : j \in K <=> j \in 1 .. Len(list) /\ SaysKey(list, j, key)
    BY Zenon DEF Remembered!WithKey, SaysKey
<1>3. \A j : j \in X <=> j \in 1 .. Len(list) /\ SaysText(list, j, text)
    BY Zenon DEF Remembered!WithText, SaysText
<1>4. Remembered!FindFact(list, key, text) =
          IF K # {} THEN Remembered!First(K) ELSE IF X # {} THEN Remembered!First(X) ELSE 0
    BY Zenon DEF Remembered!FindFact
<1> HIDE DEF K, X
<1>5. CASE K # {}
    BY <1>1, <1>2, <1>4, <1>5, FirstIsIn, Zenon
<1>6. CASE K = {} /\ X # {}
    BY <1>1, <1>2, <1>3, <1>4, <1>6, FirstIsIn, Zenon
<1>7. CASE K = {} /\ X = {}
    BY <1>2, <1>3, <1>4, <1>7, Zenon
<1> QED BY <1>5, <1>6, <1>7

\* A key is found where it is, and so is the text of a fact without a key.
LEMMA FindsKey ==
    ASSUME NEW list, FactList(list), NEW i \in 1 .. Len(list), NEW text, NEW key,
           SaysKey(list, i, key)
    PROVE  Remembered!FindFact(list, key, text) = i
<1> DEFINE f == Remembered!FindFact(list, key, text)
<1>1. f \in 1 .. Len(list) /\ SaysKey(list, f, key)
    BY FindIs, Zenon DEF FactList
<1> HIDE DEF f
<1>2. list[i].key = list[f].key /\ list[i].key # NoKey
    BY <1>1, Zenon DEF SaysKey
<1>3. f = i
    BY <1>1, <1>2, Zenon DEF FactList, Remembered!Distinguished
<1> QED BY <1>3 DEF f

LEMMA FindsText ==
    ASSUME NEW list \in Seq(Remembered!Fact), NEW i \in 1 .. Len(list), NEW text,
           SaysText(list, i, text),
           \A j \in 1 .. Len(list) : SaysText(list, j, text) => j = i
    PROVE  Remembered!FindFact(list, NoKey, text) = i
<1> DEFINE f == Remembered!FindFact(list, NoKey, text)
<1>1. f \in 1 .. Len(list) /\ SaysText(list, f, text)
    <2>1. \A j : ~SaysKey(list, j, NoKey)
        BY Zenon DEF SaysKey
    <2> QED BY <2>1, FindIs, Zenon
<1> QED BY <1>1

\* A fact is replaced.
LEMMA SetFact ==
    ASSUME NEW list \in Seq(Remembered!Fact), NEW i \in 1 .. Len(list), NEW fact \in Remembered!Fact
    PROVE  LET set == [list EXCEPT ![i] = fact] IN
           /\ set \in Seq(Remembered!Fact) /\ Len(set) = Len(list) /\ set[i] = fact
           /\ \A j \in 1 .. Len(list) : j # i => set[j] = list[j]
<1> DEFINE n == Len(list)
           set == [list EXCEPT ![i] = fact]
<1>1. n \in Nat /\ list \in [1 .. n -> Remembered!Fact]
    BY SMT
<1> HIDE DEF n
<1>2. i \in 1 .. n
    BY Zenon DEF n
<1>3. set \in [1 .. n -> Remembered!Fact] /\ set[i] = fact
      /\ \A j \in 1 .. n : j # i => set[j] = list[j]
    BY <1>1, <1>2, Zenon
<1> HIDE DEF set
<1>4. set \in Seq(Remembered!Fact) /\ Len(set) = n
    BY <1>1, <1>3, SMT
<1> QED BY ONLY <1>3, <1>4 DEF set, n

LEMMA FactParts ==
    ASSUME NEW list \in Seq(Remembered!Fact), NEW i \in 1 .. Len(list)
    PROVE  /\ list[i] \in Remembered!Fact
           /\ list[i].text \in Texts /\ list[i].key \in Keys \cup {NoKey}
           /\ list[i] = [text |-> list[i].text, key |-> list[i].key]
<1>1. list[i] \in Remembered!Fact
    BY SMT
<1> QED BY <1>1, SMT DEF Remembered!Fact

\* A fact whose key no other one has, or without a key and with a text no other
\* one without a key has, may take a place.
LEMMA SetKeepsApart ==
    ASSUME NEW list, FactList(list), NEW i \in 1 .. Len(list), NEW fact \in Remembered!Fact,
           \A j \in 1 .. Len(list) : j # i /\ list[j].key = fact.key =>
               fact.key = NoKey /\ list[j].text # fact.text
    PROVE  FactList([list EXCEPT ![i] = fact])
<1> DEFINE set == [list EXCEPT ![i] = fact]
<1>1. /\ set \in Seq(Remembered!Fact) /\ Len(set) = Len(list) /\ set[i] = fact
      /\ \A j \in 1 .. Len(list) : j # i => set[j] = list[j]
    <2>1. list \in Seq(Remembered!Fact)
        BY Zenon DEF FactList
    <2> QED BY ONLY <2>1, i \in 1 .. Len(list), fact \in Remembered!Fact, SetFact
<1> HIDE DEF set
<1>2. ASSUME NEW a \in 1 .. Len(set), NEW b \in 1 .. Len(set), set[a].key = set[b].key,
             set[a].key # NoKey \/ set[a].text = set[b].text
      PROVE  a = b
    <2>1. CASE a # i /\ b # i
        BY <1>1, <1>2, <2>1, Zenon DEF FactList, Remembered!Distinguished
    <2>2. CASE a = i /\ b # i
        BY <1>1, <1>2, <2>2, Zenon
    <2>3. CASE a # i /\ b = i
        BY <1>1, <1>2, <2>3, Zenon
    <2> QED BY <2>1, <2>2, <2>3, Zenon
<1> QED BY <1>1, <1>2, Zenon DEF FactList, Remembered!Distinguished, set

LEMMA AppendKeepsApart ==
    ASSUME NEW list, FactList(list), NEW fact \in Remembered!Fact,
           \A j \in 1 .. Len(list) : list[j].key = fact.key =>
               fact.key = NoKey /\ list[j].text # fact.text
    PROVE  FactList(Append(list, fact))
<1> DEFINE more == Append(list, fact)
           n == Len(list)
<1>1. /\ n \in Nat /\ more \in Seq(Remembered!Fact) /\ Len(more) = n + 1 /\ more[n + 1] = fact
      /\ \A j \in 1 .. n : more[j] = list[j]
      /\ \A j \in 1 .. n + 1 : j \in 1 .. n \/ j = n + 1
    BY SMT DEF FactList
<1> HIDE DEF more, n
<1>2. ASSUME NEW a \in 1 .. Len(more), NEW b \in 1 .. Len(more), more[a].key = more[b].key,
             more[a].key # NoKey \/ more[a].text = more[b].text
      PROVE  a = b
    <2>1. CASE a \in 1 .. n /\ b \in 1 .. n
        BY <1>1, <1>2, <2>1, Zenon DEF FactList, Remembered!Distinguished, n
    <2>2. CASE a = n + 1 /\ b \in 1 .. n
        BY <1>1, <1>2, <2>2, Zenon DEF n
    <2>3. CASE a \in 1 .. n /\ b = n + 1
        BY <1>1, <1>2, <2>3, Zenon DEF n
    <2> QED BY <1>1, <2>1, <2>2, <2>3, Zenon
<1> QED BY <1>1, <1>2, Zenon DEF FactList, Remembered!Distinguished, more

\* Some of the facts, each from a place of its own, are still distinguished.
LEMMA SomeKeepApart ==
    ASSUME NEW list, FactList(list), NEW some \in Seq(Remembered!Fact),
           NEW from_ \in [1 .. Len(some) -> 1 .. Len(list)],
           \A k \in 1 .. Len(some) : some[k] = list[from_[k]],
           \A k, l \in 1 .. Len(some) : k # l => from_[k] # from_[l]
    PROVE  FactList(some)
<1>1. ASSUME NEW a \in 1 .. Len(some), NEW b \in 1 .. Len(some), some[a].key = some[b].key,
             some[a].key # NoKey \/ some[a].text = some[b].text
      PROVE  a = b
    <2>1. from_[a] \in 1 .. Len(list) /\ from_[b] \in 1 .. Len(list)
          /\ some[a] = list[from_[a]] /\ some[b] = list[from_[b]]
        OBVIOUS
    <2>2. from_[a] = from_[b]
        BY <1>1, <2>1, Zenon DEF FactList, Remembered!Distinguished
    <2> QED BY <2>2, Zenon
<1> QED BY <1>1, Zenon DEF FactList, Remembered!Distinguished

LEMMA RemoveKeepsApart ==
    ASSUME NEW list, FactList(list), NEW i \in 1 .. Len(list)
    PROVE  /\ FactList(Remembered!RemoveFactAt(list, i))
           /\ \A k \in 1 .. Len(Remembered!RemoveFactAt(list, i)) :
                 \E j \in 1 .. Len(list) : j # i /\ Remembered!RemoveFactAt(list, i)[k] = list[j]
<1> DEFINE some == Remembered!RemoveFactAt(list, i)
           n == Len(list)
           from_ == [k \in 1 .. n - 1 |-> IF k < i THEN k ELSE k + 1]
<1>1. list \in Seq(Remembered!Fact) /\ n \in Nat
    BY SMT DEF FactList
<1>a. n >= 1 /\ i \in Nat /\ i >= 1 /\ i <= n
    BY <1>1, SMT
<1> DEFINE front == SubSeq(list, 1, i - 1)
           back == SubSeq(list, i + 1, n)
<1>b. front \in Seq(Remembered!Fact) /\ Len(front) = i - 1
      /\ \A k \in 1 .. i - 1 : front[k] = list[k]
    BY <1>1, <1>a, SMT
<1>c. back \in Seq(Remembered!Fact) /\ Len(back) = n - i
      /\ \A k \in 1 .. n - i : back[k] = list[k + i]
    BY <1>1, <1>a, SMT
<1>d. some = front \o back
    BY Zenon DEF Remembered!RemoveFactAt
<1> HIDE DEF front, back, some, n
<1>2. some \in Seq(Remembered!Fact) /\ Len(some) = n - 1
    <2>1. /\ front \o back \in Seq(Remembered!Fact)
          /\ Len(front \o back) = Len(front) + Len(back)
        BY <1>b, <1>c, ConcatProperties, Zenon
    <2> QED BY <1>1, <1>a, <1>b, <1>c, <1>d, <2>1, SMT
<1>3. \A k \in 1 .. n - 1 : some[k] = list[IF k < i THEN k ELSE k + 1]
    <2> TAKE k \in 1 .. n - 1
    <2>1. CASE k < i
        <3>1. k \in 1 .. i - 1
            BY <1>1, <1>a, <2>1, SMT
        <3>2. some[k] = front[k]
            BY <1>b, <1>c, <1>d, <3>1, SMT
        <3> QED BY <1>b, <2>1, <3>1, <3>2
    <2>2. CASE ~(k < i)
        <3>1. k - (i - 1) \in 1 .. n - i /\ k - (i - 1) + i = k + 1
            BY <1>1, <1>a, <2>2, SMT
        <3>2. some[k] = back[k - (i - 1)]
            BY <1>1, <1>a, <1>b, <1>c, <1>d, <2>2, SMT
        <3>3. some[k] = list[k + 1]
            BY <1>c, <3>1, <3>2
        <3> QED BY <2>2, <3>3
    <2> QED BY <2>1, <2>2
<1>4. from_ \in [1 .. n - 1 -> 1 .. n]
    BY <1>1, SMT
<1>5. \A k \in 1 .. n - 1 : from_[k] # i
    BY <1>1, SMT
<1>6. \A k, l \in 1 .. n - 1 : k # l => from_[k] # from_[l]
    BY <1>1, SMT
<1>7. \A k \in 1 .. n - 1 : some[k] = list[from_[k]]
    BY <1>3
<1> HIDE DEF from_
<1>8. FactList(some)
    <2>1. /\ some \in Seq(Remembered!Fact) /\ from_ \in [1 .. Len(some) -> 1 .. Len(list)]
          /\ \A k \in 1 .. Len(some) : some[k] = list[from_[k]]
          /\ \A k, l \in 1 .. Len(some) : k # l => from_[k] # from_[l]
        BY <1>2, <1>4, <1>6, <1>7, Zenon DEF n
    <2> QED BY ONLY <2>1, FactList(list), SomeKeepApart, Zenon
<1> QED BY <1>2, <1>4, <1>5, <1>7, <1>8, Zenon DEF n, some

LEMMA SetToItself ==
    ASSUME NEW list \in Seq(Remembered!Fact), NEW i \in 1 .. Len(list)
    PROVE  [list EXCEPT ![i] = list[i]] = list
<1> DEFINE n == Len(list)
<1>1. n \in Nat /\ list \in [1 .. n -> Remembered!Fact]
    BY SMT
<1> HIDE DEF n
<1> QED BY <1>1, Zenon

\* A fact gets a key no other fact has, or stays as it is; doing so again changes nothing.
LEMMA ReplacedHolds ==
    ASSUME Remembered!MemoryAssumption, NEW list, FactList(list), NEW i \in 1 .. Len(list),
           NEW text \in Texts \cup {NoText}, NEW key \in Keys \cup {NoKey},
           key # NoKey => \A j \in 1 .. Len(list) : j # i => list[j].key # key,
           key = NoKey => list[i].text = text
    PROVE  LET set == Remembered!Replaced(list, i, text, key) IN
           /\ FactList(set) /\ Len(set) = Len(list)
           /\ Remembered!Replaced(set, i, text, key) = set
           /\ key # NoKey => SaysKey(set, i, key)
           /\ key = NoKey => set = list
<1> DEFINE said == IF text = NoText THEN list[i].text ELSE text
           its == IF key = NoKey THEN list[i].key ELSE key
           fact == [text |-> said, key |-> its]
           set == Remembered!Replaced(list, i, text, key)
<1>1. list \in Seq(Remembered!Fact)
    BY Zenon DEF FactList
<1>2. set = [list EXCEPT ![i] = fact]
    BY Zenon DEF Remembered!Replaced
<1>3. /\ list[i].text \in Texts /\ list[i].key \in Keys \cup {NoKey}
      /\ list[i] = [text |-> list[i].text, key |-> list[i].key]
    BY <1>1, FactParts, Zenon
<1>4. said \in Texts /\ its \in Keys \cup {NoKey}
    BY <1>3, Zenon
<1>5. fact \in Remembered!Fact /\ fact.text = said /\ fact.key = its
    BY <1>4, SMT DEF Remembered!Fact
<1>6. (key # NoKey => its = key) /\ (text # NoText => said = text)
    BY Zenon
<1>7. key = NoKey => fact = list[i]
    <2>1. key = NoKey => said = list[i].text /\ its = list[i].key
        BY Zenon
    <2> QED BY <1>3, <2>1, Zenon
<1>8. [text |-> IF text = NoText THEN fact.text ELSE text,
       key |-> IF key = NoKey THEN fact.key ELSE key] = fact
    <2>1. (IF text = NoText THEN fact.text ELSE text) = said
        BY <1>5, Zenon
    <2>2. (IF key = NoKey THEN fact.key ELSE key) = its
        BY <1>5, Zenon
    <2> QED BY <2>1, <2>2, Zenon
<1> HIDE DEF fact, set, said, its
<1>9. set \in Seq(Remembered!Fact) /\ Len(set) = Len(list) /\ set[i] = fact
    BY ONLY <1>1, <1>2, <1>5, i \in 1 .. Len(list), SetFact
<1>10. key = NoKey => set = list
    BY <1>1, <1>2, <1>7, SetToItself, Zenon
<1>11. FactList(set)
    <2>1. CASE key = NoKey
        BY <1>10, <2>1, Zenon
    <2>2. CASE key # NoKey
        <3>1. \A j \in 1 .. Len(list) : j # i /\ list[j].key = fact.key =>
                  fact.key = NoKey /\ list[j].text # fact.text
            BY <1>5, <1>6, <2>2, Zenon
        <3> QED BY ONLY <1>2, <1>5, <3>1, FactList(list), i \in 1 .. Len(list), SetKeepsApart
    <2> QED BY <2>1, <2>2
<1>12. Remembered!Replaced(set, i, text, key) = set
    <2>1. Remembered!Replaced(set, i, text, key) = [set EXCEPT ![i] = fact]
        BY <1>8, <1>9, Zenon DEF Remembered!Replaced
    <2>2. i \in 1 .. Len(set)
        BY <1>9
    <2> QED BY <1>9, <2>1, <2>2, SetToItself, Zenon
<1>13. key # NoKey => SaysKey(set, i, key)
    BY <1>5, <1>6, <1>9, Zenon DEF SaysKey
<1> QED BY <1>9, <1>10, <1>11, <1>12, <1>13, Zenon DEF set

\* Two facts do not say the same key.
LEMMA OneSaysKey ==
    ASSUME NEW list, FactList(list), NEW i \in 1 .. Len(list), NEW key, SaysKey(list, i, key)
    PROVE  key # NoKey /\ \A j \in 1 .. Len(list) : j # i => list[j].key # key
<1>1. key # NoKey /\ list[i].key = key
    BY Zenon DEF SaysKey
<1>2. ASSUME NEW j \in 1 .. Len(list), list[j].key = key PROVE j = i
    BY <1>1, <1>2, Zenon DEF FactList, Remembered!Distinguished
<1> QED BY <1>1, <1>2

\* Putting a fact keeps the facts apart, and putting it again changes nothing.
LEMMA PutHolds ==
    ASSUME Remembered!MemoryAssumption, NEW list, FactList(list),
           NEW text \in Texts \cup {NoText}, NEW key \in Keys \cup {NoKey}
    PROVE  LET put == Remembered!Put(list, text, key) IN
           FactList(put) /\ Remembered!Put(put, text, key) = put
<1> DEFINE i == Remembered!FindFact(list, key, text)
           put == Remembered!Put(list, text, key)
           new == [text |-> text, key |-> key]
           n == Len(list)
<1>1. list \in Seq(Remembered!Fact) /\ n \in Nat /\ \A j \in 1 .. n : j # 0
    BY SMT DEF FactList
<1>2. \A l : Remembered!Put(l, text, key) =
          LET f == Remembered!FindFact(l, key, text)
          IN  IF f # 0 THEN Remembered!Replaced(l, f, text, key)
              ELSE IF text = NoText THEN l ELSE Append(l, new)
    BY Zenon DEF Remembered!Put
<1>3. \/ /\ i = 0
         /\ \A j \in 1 .. n : ~SaysKey(list, j, key) /\ ~SaysText(list, j, text)
      \/ i \in 1 .. n /\ SaysKey(list, i, key)
      \/ i \in 1 .. n /\ SaysText(list, i, text) /\ \A j \in 1 .. n : ~SaysKey(list, j, key)
    BY <1>1, FindIs, Zenon
<1> HIDE DEF i, n, put
<1> SUFFICES FactList(put) /\ Remembered!Put(put, text, key) = put
    BY Zenon DEF put
<1>4. ASSUME i \in 1 .. n, key # NoKey => \A j \in 1 .. n : j # i => list[j].key # key,
             key = NoKey => list[i].text = text
      PROVE  FactList(put) /\ Remembered!Put(put, text, key) = put
    <2>1. put = Remembered!Replaced(list, i, text, key)
        BY <1>1, <1>2, <1>4, Zenon DEF put, i
    <2>2. /\ FactList(put) /\ Len(put) = Len(list)
          /\ Remembered!Replaced(put, i, text, key) = put
          /\ key # NoKey => SaysKey(put, i, key)
          /\ key = NoKey => put = list
        BY ONLY <1>4, <2>1, Remembered!MemoryAssumption, FactList(list), text \in Texts \cup {NoText},
           key \in Keys \cup {NoKey}, ReplacedHolds DEF n
    <2>3. CASE key = NoKey
        BY <2>2, <2>3, Zenon DEF put
    <2>4. CASE key # NoKey
        <3>1. Remembered!FindFact(put, key, text) = i
            <4>1. i \in 1 .. Len(put) /\ SaysKey(put, i, key)
                BY <1>4, <2>2, <2>4, Zenon DEF n
            <4> QED BY <2>2, <4>1, FindsKey, Zenon
        <3> QED BY <1>1, <1>2, <1>4, <2>2, <3>1, Zenon
    <2> QED BY <2>3, <2>4
<1>5. CASE i \in 1 .. n /\ SaysKey(list, i, key)
    <2>1. key # NoKey /\ \A j \in 1 .. n : j # i => list[j].key # key
        BY <1>5, OneSaysKey, Zenon DEF n
    <2> QED BY <1>4, <1>5, <2>1, Zenon
<1>6. CASE i \in 1 .. n /\ SaysText(list, i, text) /\ \A j \in 1 .. n : ~SaysKey(list, j, key)
    BY <1>4, <1>6, Zenon DEF SaysKey, SaysText
<1>7. CASE i = 0 /\ \A j \in 1 .. n : ~SaysKey(list, j, key) /\ ~SaysText(list, j, text)
    <2>1. CASE text = NoText
        <3>1. put = list
            BY <1>2, <1>7, <2>1, Zenon DEF put, i
        <3> QED BY <3>1, Zenon DEF put
    <2>2. CASE text # NoText
        <3>1. put = Append(list, new)
            BY <1>2, <1>7, <2>2, Zenon DEF put, i
        <3>2. new \in Remembered!Fact /\ new.text = text /\ new.key = key
            BY <2>2, SMT DEF Remembered!Fact
        <3> HIDE DEF new
        <3>3. \A j \in 1 .. n : list[j].key = new.key => new.key = NoKey /\ list[j].text # new.text
            BY <1>7, <2>2, <3>2, Zenon DEF SaysKey, SaysText
        <3>4. FactList(put)
            BY ONLY <3>1, <3>2, <3>3, FactList(list), AppendKeepsApart DEF n
        <3>5. Len(put) = n + 1 /\ n + 1 \in 1 .. n + 1 /\ n + 1 # 0 /\ put[n + 1] = new
              /\ (\A j \in 1 .. n : put[j] = list[j])
              /\ \A j \in 1 .. n + 1 : j \in 1 .. n \/ j = n + 1
            BY <1>1, <3>1, SMT DEF n
        <3>6. Remembered!FindFact(put, key, text) = n + 1
            <4>1. CASE key # NoKey
                <5>1. n + 1 \in 1 .. Len(put) /\ SaysKey(put, n + 1, key)
                    BY <3>2, <3>5, <4>1, Zenon DEF SaysKey
                <5> QED BY <3>4, <5>1, FindsKey, Zenon
            <4>2. CASE key = NoKey
                <5>1. n + 1 \in 1 .. Len(put) /\ SaysText(put, n + 1, text)
                    BY <2>2, <3>2, <3>5, Zenon DEF SaysText
                <5>2. \A j \in 1 .. Len(put) : SaysText(put, j, text) => j = n + 1
                    BY <1>7, <3>5, Zenon DEF SaysText
                <5>3. put \in Seq(Remembered!Fact)
                    BY <3>4, Zenon DEF FactList
                <5>4. Remembered!FindFact(put, NoKey, text) = n + 1
                    BY ONLY <5>1, <5>2, <5>3, FindsText
                <5> QED BY <4>2, <5>4
            <4> QED BY <4>1, <4>2
        <3>7. Remembered!Replaced(put, n + 1, text, key) = put
            <4>1. put \in Seq(Remembered!Fact) /\ n + 1 \in 1 .. Len(put)
                BY <3>4, <3>5, Zenon DEF FactList
            <4>2. [put EXCEPT ![n + 1] = put[n + 1]] = put
                BY <4>1, SetToItself, Zenon
            <4>3. (IF text = NoText THEN put[n + 1].text ELSE text) = text
                  /\ (IF key = NoKey THEN put[n + 1].key ELSE key) = key
                BY <2>2, <3>2, <3>5, Zenon
            <4>4. Remembered!Replaced(put, n + 1, text, key) = [put EXCEPT ![n + 1] = [text |-> text, key |-> key]]
                BY <4>3, Zenon DEF Remembered!Replaced
            <4> QED BY <3>5, <4>2, <4>4, Zenon DEF new
        <3> QED BY <1>2, <3>4, <3>5, <3>6, <3>7, Zenon
    <2> QED BY <2>1, <2>2
<1> QED BY <1>3, <1>5, <1>6, <1>7, Zenon

LEMMA SupersedeHolds ==
    ASSUME Remembered!MemoryAssumption, NEW list, FactList(list),
           NEW text \in Texts \cup {NoText}, NEW key \in Keys \cup {NoKey}
    PROVE  LET by == Remembered!SupersedeFact(list, text, key) IN
           FactList(by) /\ Remembered!SupersedeFact(by, text, key) = by
<1> DEFINE i == Remembered!FindFact(list, key, text)
           by == Remembered!SupersedeFact(list, text, key)
           put == Remembered!Put(list, text, key)
<1>1. \A l : Remembered!SupersedeFact(l, text, key) =
          LET f == Remembered!FindFact(l, key, text)
          IN  IF f # 0 /\ text = NoText THEN Remembered!RemoveFactAt(l, f)
              ELSE Remembered!Put(l, text, key)
    BY Zenon DEF Remembered!SupersedeFact
<1>2. FactList(put) /\ Remembered!Put(put, text, key) = put
    BY PutHolds, Zenon
<1> HIDE DEF by, put, i
<1> SUFFICES FactList(by) /\ Remembered!SupersedeFact(by, text, key) = by
    BY Zenon DEF by
<1>3. CASE i # 0 /\ text = NoText
    <2>1. by = Remembered!RemoveFactAt(list, i)
        BY <1>1, <1>3, Zenon DEF by, i
    <2>2. i \in 1 .. Len(list) /\ SaysKey(list, i, key)
        <3>1. list \in Seq(Remembered!Fact)
            BY Zenon DEF FactList
        <3>2. \A j : ~SaysText(list, j, text)
            BY <1>3, Zenon DEF SaysText
        <3> QED BY <1>3, <3>1, <3>2, FindIs, Zenon DEF i
    <2>3. key # NoKey /\ \A j \in 1 .. Len(list) : j # i => list[j].key # key
        BY <2>2, OneSaysKey, Zenon
    <2>4. FactList(by) /\ \A k \in 1 .. Len(by) : \E j \in 1 .. Len(list) : j # i /\ by[k] = list[j]
        BY ONLY <2>1, <2>2, FactList(list), RemoveKeepsApart
    <2>5. \A k \in 1 .. Len(by) : ~SaysKey(by, k, key) /\ ~SaysText(by, k, text)
        BY <1>3, <2>3, <2>4, Zenon DEF SaysKey, SaysText
    <2>6. Remembered!FindFact(by, key, text) = 0
        <3>1. by \in Seq(Remembered!Fact)
            BY <2>4, Zenon DEF FactList
        <3> QED BY <2>5, <3>1, FindIs, Zenon
    <2>7. Remembered!SupersedeFact(by, text, key) = by
        BY <1>1, <1>3, <2>6, Zenon DEF Remembered!Put
    <2> QED BY <2>4, <2>7
<1>4. CASE ~(i # 0 /\ text = NoText)
    <2>1. by = put
        BY <1>1, <1>4, Zenon DEF by, put, i
    <2>2. ~(Remembered!FindFact(put, key, text) # 0 /\ text = NoText)
        <3>1. CASE text = NoText
            <4>1. put = list
                BY <1>4, <3>1, Zenon DEF put, i, Remembered!Put
            <4> QED BY <1>4, <4>1, Zenon DEF i
        <3>2. CASE text # NoText
            BY <3>2
        <3> QED BY <3>1, <3>2
    <2>3. Remembered!SupersedeFact(put, text, key) = put
        BY <1>1, <1>2, <2>2, Zenon
    <2> QED BY <1>2, <2>1, <2>3
<1> QED BY <1>3, <1>4

LEMMA RemoveHolds ==
    ASSUME NEW list, FactList(list), NEW text, NEW key
    PROVE  FactList(Remembered!RemoveFact(list, text, key))
<1> DEFINE i == Remembered!FindFact(list, key, text)
<1>1. list \in Seq(Remembered!Fact)
    BY Zenon DEF FactList
<1>2. i = 0 \/ i \in 1 .. Len(list)
    BY <1>1, FindIs, Zenon
<1>3. Remembered!RemoveFact(list, text, key) = IF i = 0 THEN list ELSE Remembered!RemoveFactAt(list, i)
    BY Zenon DEF Remembered!RemoveFact
<1> HIDE DEF i
<1>4. CASE i = 0
    BY <1>3, <1>4, Zenon
<1>5. CASE i # 0
    BY <1>2, <1>3, <1>5, RemoveKeepsApart, Zenon
<1> QED BY <1>4, <1>5

LEMMA AddHolds ==
    ASSUME Remembered!MemoryAssumption, NEW list, FactList(list),
           NEW text \in Texts \cup {NoText}, NEW key \in Keys \cup {NoKey}
    PROVE  LET add == Remembered!AddFact(list, text, key) IN
           FactList(add) /\ Remembered!AddFact(add, text, key) = add
<1>1. CASE text = NoText
    BY <1>1, Zenon DEF Remembered!AddFact
<1>2. CASE text # NoText
    <2>1. \A l : Remembered!AddFact(l, text, key) = Remembered!Put(l, text, key)
        BY <1>2, Zenon DEF Remembered!AddFact
    <2> QED BY <2>1, PutHolds, Zenon
<1> QED BY <1>1, <1>2

\* The fact of a field of the vehicle takes the place of the one with its key.
LEMMA VehicleFactHolds ==
    ASSUME Remembered!MemoryAssumption, NEW list, FactList(list), NEW f \in Fields, NEW v \in Values
    PROVE  FactList(Remembered!PutVehicleFact(list, f, v))
<1> DEFINE key == VehicleKey[f]
           said == VehicleText[f, v]
           new == [text |-> said, key |-> key]
           i == Remembered!FindFact(list, key, NoText)
<1>1. key \in Keys /\ key # NoKey /\ said \in Texts
    BY Zenon DEF Remembered!MemoryAssumption
<1> HIDE DEF said, key
<1>2. new \in Remembered!Fact /\ new.key = key
    BY <1>1, SMT DEF Remembered!Fact
<1>3. Remembered!PutVehicleFact(list, f, v) =
          IF i # 0 THEN [list EXCEPT ![i] = new] ELSE Append(list, new)
    BY Zenon DEF Remembered!PutVehicleFact, said, key
<1>4. \/ i = 0 /\ \A j \in 1 .. Len(list) : ~SaysKey(list, j, key)
      \/ i # 0 /\ i \in 1 .. Len(list) /\ SaysKey(list, i, key)
    <2>1. list \in Seq(Remembered!Fact) /\ \A j : ~SaysText(list, j, NoText)
        BY Zenon DEF FactList, SaysText
    <2>2. \A j \in 1 .. Len(list) : j # 0
        BY <2>1, SMT
    <2> QED BY <2>1, <2>2, FindIs, Zenon
<1> HIDE DEF new, i
<1>5. CASE i = 0 /\ \A j \in 1 .. Len(list) : ~SaysKey(list, j, key)
    <2>1. \A j \in 1 .. Len(list) : list[j].key = new.key =>
              new.key = NoKey /\ list[j].text # new.text
        BY <1>1, <1>2, <1>5, Zenon DEF SaysKey
    <2>2. FactList(Append(list, new))
        BY ONLY <1>2, <2>1, FactList(list), AppendKeepsApart
    <2> QED BY <1>3, <1>5, <2>2, Zenon
<1>6. CASE i # 0 /\ i \in 1 .. Len(list) /\ SaysKey(list, i, key)
    <2>1. \A j \in 1 .. Len(list) : j # i => list[j].key # key
        BY <1>6, OneSaysKey, Zenon
    <2>2. \A j \in 1 .. Len(list) : j # i /\ list[j].key = new.key =>
              new.key = NoKey /\ list[j].text # new.text
        BY <1>2, <2>1, Zenon
    <2>3. FactList([list EXCEPT ![i] = new])
        BY ONLY <1>2, <1>6, <2>2, FactList(list), SetKeepsApart
    <2> QED BY <1>3, <1>6, <2>3, Zenon
<1> QED BY <1>4, <1>5, <1>6

\* What stays of the facts at a change of the task.
LEMMA KeptHolds ==
    ASSUME NEW list, FactList(list), NEW S
    PROVE  FactList(Remembered!Kept(list, S))
<1> DEFINE some == Kept(list, S)
<1>1. Remembered!Kept(list, S) = some
    BY DEF Remembered!Kept, Kept, Remembered!Cardinality, Cardinality
<1>2. list \in Seq(Remembered!Fact)
    BY Zenon DEF FactList
<1>3. some \in Seq(Remembered!Fact) /\ Len(some) \in 0 .. Len(list)
    BY <1>2, KeptIsInOrder, Zenon
<1>4. PICK at_ \in [1 .. Len(some) -> 1 .. Len(list)] :
          /\ \A k \in 1 .. Len(some) : some[k] = list[at_[k]] /\ some[k] \in S
          /\ \A k, l \in 1 .. Len(some) : k < l => at_[k] < at_[l]
    <2>1. \E at_ \in [1 .. Len(some) -> 1 .. Len(list)] :
                 /\ \A k \in 1 .. Len(some) : some[k] = list[at_[k]] /\ some[k] \in S
                 /\ \A k, l \in 1 .. Len(some) : k < l => at_[k] < at_[l]
        BY <1>2, KeptIsInOrder, Zenon
    <2> QED BY <2>1
<1> HIDE DEF some
<1>5. \A k, l \in 1 .. Len(some) : k # l => at_[k] # at_[l]
    <2> TAKE k, l \in 1 .. Len(some)
    <2> HAVE k # l
    <2>1. k < l \/ l < k
        BY <1>3, SMT
    <2>2. at_[k] < at_[l] \/ at_[l] < at_[k]
        BY <1>4, <2>1
    <2>3. at_[k] \in Nat /\ at_[l] \in Nat
        <3>1. at_[k] \in 1 .. Len(list) /\ at_[l] \in 1 .. Len(list)
            BY <1>4
        <3> QED BY <1>2, <3>1, SMT
    <2> QED BY <2>2, <2>3, SMT
<1>6. FactList(some)
    BY ONLY <1>3, <1>4, <1>5, FactList(list), SomeKeepApart
<1> QED BY <1>1, <1>6

MemoryInv == Remembered!TypeOK /\ Remembered!FactsSupersede

\* The fields of a memory, set one at a time.
LEMMA MemorySets ==
    ASSUME NEW m \in Remembered!Memory
    PROVE  /\ m.facts \in Seq(Remembered!Fact) /\ m.notes \in SUBSET (Lists \X Notes)
           /\ m.goal \in BOOLEAN /\ m.vehicle \in [Fields -> Values \cup {NoValue}]
           /\ \A new \in Seq(Remembered!Fact) :
                 [m EXCEPT !.facts = new] \in Remembered!Memory /\ [m EXCEPT !.facts = new].facts = new
           /\ \A new \in SUBSET (Lists \X Notes) :
                 /\ [m EXCEPT !.notes = new] \in Remembered!Memory
                 /\ [m EXCEPT !.notes = new].facts = m.facts
           /\ \A new \in BOOLEAN :
                 /\ [m EXCEPT !.goal = new] \in Remembered!Memory
                 /\ [m EXCEPT !.goal = new].facts = m.facts
           /\ \A new \in [Fields -> Values \cup {NoValue}] :
                 /\ [m EXCEPT !.vehicle = new] \in Remembered!Memory
                 /\ [m EXCEPT !.vehicle = new].facts = m.facts
<1> DEFINE F == Seq(Remembered!Fact)
           N == SUBSET (Lists \X Notes)
           G == BOOLEAN
           V == [Fields -> Values \cup {NoValue}]
<1>1. Remembered!Memory = [goal : G, facts : F, notes : N, vehicle : V]
    BY Zenon DEF Remembered!Memory
<1> HIDE DEF F, N, G, V
<1> SUFFICES /\ m.facts \in F /\ m.notes \in N /\ m.goal \in G /\ m.vehicle \in V
             /\ \A new \in F :
                   [m EXCEPT !.facts = new] \in Remembered!Memory /\ [m EXCEPT !.facts = new].facts = new
             /\ \A new \in N :
                   [m EXCEPT !.notes = new] \in Remembered!Memory /\ [m EXCEPT !.notes = new].facts = m.facts
             /\ \A new \in G :
                   [m EXCEPT !.goal = new] \in Remembered!Memory /\ [m EXCEPT !.goal = new].facts = m.facts
             /\ \A new \in V :
                   [m EXCEPT !.vehicle = new] \in Remembered!Memory /\ [m EXCEPT !.vehicle = new].facts = m.facts
    BY Zenon DEF F, N, G, V
<1> QED BY <1>1, SMT

LEMMA MemoryInit == ASSUME Remembered!MemoryAssumption PROVE Remembered!Init => MemoryInv
<1> SUFFICES ASSUME Remembered!Init PROVE MemoryInv
    OBVIOUS
<1> DEFINE G == BOOLEAN
           F == Seq(Remembered!Fact)
           N == SUBSET (Lists \X Notes)
           V == [Fields -> Values \cup {NoValue}]
           novehicle == [f \in Fields |-> NoValue]
<1>1. FALSE \in G /\ <<>> \in F /\ {} \in N /\ novehicle \in V
    BY SMT
<1>2. memory = [goal |-> FALSE, facts |-> <<>>, notes |-> {}, vehicle |-> novehicle]
      /\ begun = [on |-> FALSE, goal |-> FALSE, notes |-> {}]
    BY Zenon DEF Remembered!Init, Remembered!NotUpdating
<1> DEFINE no == FALSE
<1>3. memory = [goal |-> no, facts |-> <<>>, notes |-> {}, vehicle |-> novehicle]
      /\ begun = [on |-> no, goal |-> no, notes |-> {}] /\ no \in G
    BY <1>1, <1>2, Zenon
<1> HIDE DEF G, F, N, V, novehicle, no
<1>4. memory \in [goal : G, facts : F, notes : N, vehicle : V] /\ memory.facts = <<>>
      /\ begun \in [on : G, goal : G, notes : N]
    BY <1>1, <1>3, SMT
<1>5. Remembered!TypeOK
    BY <1>4, Zenon DEF Remembered!TypeOK, Remembered!Memory, F, G, N, V
<1>6. Remembered!FactsSupersede
    BY <1>4, SMT DEF Remembered!FactsSupersede, Remembered!Distinguished
<1> QED BY <1>5, <1>6 DEF MemoryInv

\* A step that only changes facts.
LEMMA FactsChange ==
    ASSUME MemoryInv, NEW list, FactList(list), Remembered!ChangeFacts(list)
    PROVE  MemoryInv'
<1>1. memory' = [memory EXCEPT !.facts = list] /\ begun' = begun
    BY Zenon DEF Remembered!ChangeFacts
<1>2. memory' \in Remembered!Memory /\ memory'.facts = list
    BY <1>1, MemorySets, Zenon DEF MemoryInv, Remembered!TypeOK, FactList
<1> QED BY <1>1, <1>2, Zenon DEF MemoryInv, Remembered!TypeOK, Remembered!FactsSupersede, FactList

\* A change of the task keeps some of the facts.
LEMMA ResetHolds ==
    ASSUME MemoryInv
    PROVE  LET reset == Remembered!Reset(memory) IN
           reset \in Remembered!Memory /\ Remembered!Distinguished(reset.facts)
<1> DEFINE reset == Remembered!Reset(memory)
           S == {fact \in Remembered!Fact : \E f \in Fields : fact.key = VehicleKey[f]}
           F1 == Remembered!Kept(memory.facts, S)
           N1 == memory.notes \cap ({"constraints", "terms"} \X Notes)
           m1 == [memory EXCEPT !.facts = F1]
<1>1. memory \in Remembered!Memory /\ FactList(memory.facts)
    BY MemorySets, Zenon DEF MemoryInv, Remembered!TypeOK, Remembered!FactsSupersede, FactList
<1>2. reset = [memory EXCEPT !.facts = F1, !.notes = N1]
    BY Zenon DEF Remembered!Reset
<1>3. FactList(F1)
    BY <1>1, KeptHolds, Zenon
<1>4. N1 \in SUBSET (Lists \X Notes)
    BY <1>1, MemorySets, Zenon
<1> HIDE DEF F1, N1, S
<1>5. m1 \in Remembered!Memory /\ m1.facts = F1
    BY <1>1, <1>3, MemorySets, Zenon DEF FactList
<1>6. reset = [m1 EXCEPT !.notes = N1]
    BY <1>1, <1>2, SMT DEF Remembered!Memory
<1> HIDE DEF m1, reset
<1>7. reset \in Remembered!Memory /\ reset.facts = F1
    BY <1>4, <1>5, <1>6, MemorySets, Zenon
<1> QED BY <1>3, <1>7, Zenon DEF reset, FactList

LEMMA MemoryStep ==
    ASSUME Remembered!MemoryAssumption, MemoryInv, [Remembered!Next]_(Remembered!vars)
    PROVE  MemoryInv'
<1>1. /\ memory \in Remembered!Memory /\ FactList(memory.facts)
      /\ memory.notes \in SUBSET (Lists \X Notes)
      /\ memory.goal \in BOOLEAN /\ memory.vehicle \in [Fields -> Values \cup {NoValue}]
      /\ begun \in [on: BOOLEAN, goal: BOOLEAN, notes: SUBSET (Lists \X Notes)]
    BY MemorySets, Zenon DEF MemoryInv, Remembered!TypeOK, Remembered!FactsSupersede, FactList
<1>2. SUFFICES ASSUME TRUE
               PROVE /\ memory' \in Remembered!Memory
                     /\ begun' \in [on: BOOLEAN, goal: BOOLEAN, notes: SUBSET (Lists \X Notes)]
                     /\ Remembered!Distinguished(memory'.facts)
    BY Zenon DEF MemoryInv, Remembered!TypeOK, Remembered!FactsSupersede
<1>3. Remembered!Distinguished(memory.facts)
    BY <1>1 DEF FactList
<1>4. ASSUME NEW list, FactList(list), Remembered!ChangeFacts(list)
      PROVE  /\ memory' \in Remembered!Memory
             /\ begun' \in [on: BOOLEAN, goal: BOOLEAN, notes: SUBSET (Lists \X Notes)]
             /\ Remembered!Distinguished(memory'.facts)
    BY <1>4, FactsChange, Zenon DEF MemoryInv, Remembered!TypeOK, Remembered!FactsSupersede
<1>5. CASE Remembered!BeginUpdate
    <2>1. begun' = [on |-> TRUE, goal |-> memory.goal, notes |-> memory.notes] /\ memory' = memory
        BY <1>5, Zenon DEF Remembered!BeginUpdate
    <2> DEFINE G == BOOLEAN
               yes == TRUE
    <2>2. yes \in G /\ memory.goal \in G
        BY <1>1, Zenon
    <2>3. begun' = [on |-> yes, goal |-> memory.goal, notes |-> memory.notes]
        BY <2>1, Zenon
    <2> HIDE DEF G, yes
    <2>4. begun' \in [on : G, goal : G, notes : SUBSET (Lists \X Notes)]
        BY <1>1, <2>2, <2>3, SMT
    <2> QED BY <1>1, <1>3, <2>1, <2>4, Zenon DEF G
<1>6. CASE Remembered!SetGoal
    <2>1. memory' = [memory EXCEPT !.goal = TRUE] /\ begun' = begun
        BY <1>6, Zenon DEF Remembered!SetGoal
    <2> QED BY <1>1, <1>3, <2>1, MemorySets, Zenon
<1>7. ASSUME NEW text \in Texts \cup {NoText}, NEW key \in Keys \cup {NoKey},
             \/ Remembered!ChangeFacts(Remembered!AddFact(memory.facts, text, key))
             \/ Remembered!ChangeFacts(Remembered!Put(memory.facts, text, key))
             \/ Remembered!ChangeFacts(Remembered!SupersedeFact(memory.facts, text, key))
             \/ Remembered!ChangeFacts(Remembered!RemoveFact(memory.facts, text, key))
      PROVE  /\ memory' \in Remembered!Memory
             /\ begun' \in [on: BOOLEAN, goal: BOOLEAN, notes: SUBSET (Lists \X Notes)]
             /\ Remembered!Distinguished(memory'.facts)
    <2>1. /\ FactList(Remembered!AddFact(memory.facts, text, key))
          /\ FactList(Remembered!Put(memory.facts, text, key))
          /\ FactList(Remembered!SupersedeFact(memory.facts, text, key))
          /\ FactList(Remembered!RemoveFact(memory.facts, text, key))
        BY <1>1, AddHolds, PutHolds, SupersedeHolds, RemoveHolds, Zenon
    <2> QED BY <1>4, <1>7, <2>1, Zenon
<1>8. ASSUME NEW notes, notes \subseteq Lists \X Notes, Remembered!ChangeNotes(notes)
      PROVE  /\ memory' \in Remembered!Memory
             /\ begun' \in [on: BOOLEAN, goal: BOOLEAN, notes: SUBSET (Lists \X Notes)]
             /\ Remembered!Distinguished(memory'.facts)
    <2>1. memory' = [memory EXCEPT !.notes = notes] /\ begun' = begun
        BY <1>8, Zenon DEF Remembered!ChangeNotes
    <2> QED BY <1>1, <1>3, <1>8, <2>1, MemorySets, Zenon
<1>9. ASSUME NEW f \in Fields, NEW v \in Values, Remembered!UpdateVehicle(f, v)
      PROVE  /\ memory' \in Remembered!Memory
             /\ begun' \in [on: BOOLEAN, goal: BOOLEAN, notes: SUBSET (Lists \X Notes)]
             /\ Remembered!Distinguished(memory'.facts)
    <2> DEFINE V1 == [memory.vehicle EXCEPT ![f] = v]
               F1 == Remembered!PutVehicleFact(memory.facts, f, v)
               m1 == [memory EXCEPT !.vehicle = V1]
    <2>1. memory' = [memory EXCEPT !.vehicle[f] = v, !.facts = F1] /\ begun' = begun
        BY <1>9, Zenon DEF Remembered!UpdateVehicle
    <2>2. V1 \in [Fields -> Values \cup {NoValue}]
        BY <1>1, SMT
    <2>3. FactList(F1)
        BY <1>1, VehicleFactHolds, Zenon
    <2> HIDE DEF F1
    <2>4. memory' = [m1 EXCEPT !.facts = F1]
        BY <1>1, <2>1, SMT DEF Remembered!Memory
    <2> HIDE DEF V1
    <2>5. m1 \in Remembered!Memory
        BY <1>1, <2>2, MemorySets, Zenon
    <2> HIDE DEF m1
    <2>6. F1 \in Seq(Remembered!Fact) /\ Remembered!Distinguished(F1)
        BY <2>3, Zenon DEF FactList
    <2>7. [m1 EXCEPT !.facts = F1] \in Remembered!Memory /\ [m1 EXCEPT !.facts = F1].facts = F1
        BY ONLY <2>5, <2>6, MemorySets
    <2> QED BY <1>1, <2>1, <2>4, <2>6, <2>7, Zenon
<1>10. ASSUME NEW switch \in BOOLEAN, Remembered!EndUpdate(switch)
       PROVE  /\ memory' \in Remembered!Memory
              /\ begun' \in [on: BOOLEAN, goal: BOOLEAN, notes: SUBSET (Lists \X Notes)]
              /\ Remembered!Distinguished(memory'.facts)
    <2>1. memory' = memory \/ memory' = Remembered!Reset(memory)
        BY <1>10, Zenon DEF Remembered!EndUpdate
    <2>2. memory' \in Remembered!Memory /\ Remembered!Distinguished(memory'.facts)
        BY <1>1, <1>3, <2>1, ResetHolds, Zenon
    <2>3. begun' = [on |-> FALSE, goal |-> FALSE, notes |-> {}]
        BY <1>10, Zenon DEF Remembered!EndUpdate, Remembered!NotUpdating
    <2> DEFINE G == BOOLEAN
               no == FALSE
    <2>4. begun' = [on |-> no, goal |-> no, notes |-> {}] /\ no \in G
        BY <2>3, Zenon
    <2> HIDE DEF G, no
    <2>5. begun' \in [on : G, goal : G, notes : SUBSET (Lists \X Notes)]
        BY <2>4, SMT
    <2> QED BY <2>2, <2>5, Zenon DEF G
<1>11. CASE UNCHANGED Remembered!vars
    <2>1. memory' = memory /\ begun' = begun
        BY <1>11, Zenon DEF Remembered!vars
    <2> QED BY <1>1, <1>3, <2>1, Zenon
<1>12. \A note \in Lists \X Notes : memory.notes \cup {note} \subseteq Lists \X Notes
    BY <1>1, Zenon
<1>13. \A note : memory.notes \ {note} \subseteq Lists \X Notes
    BY <1>1, Zenon
<1> QED BY <1>5, <1>6, <1>7, <1>8, <1>9, <1>10, <1>11, <1>12, <1>13, Zenon DEF Remembered!Next

LEMMA MemoryInductive == Spec => []MemoryInv
<1>1. Remembered!MemoryAssumption
    BY ServicesConstants DEF ServicesAssumption
<1>2. Init => MemoryInv
    <2>1. Init => Remembered!Init
        BY Zenon DEF Init
    <2> QED BY <1>1, <2>1, MemoryInit
<1>3. [Next]_vars => [Remembered!Next]_(Remembered!vars)
    BY Zenon DEF Next, Only, vars, Remembered!vars, memoryVars
<1>4. MemoryInv /\ [Next]_vars => MemoryInv'
    BY <1>1, <1>3, MemoryStep
<1> QED BY <1>2, <1>4, PTL DEF Spec

\* Whatever the extractor proposes and in which order, no two active facts of a task
\* have the same key, nor the same text and no key; and repeating the operation that
\* adds or corrects a fact changes nothing.
THEOREM FactsStayApart == Spec => []FactsHold
<1>1. Remembered!MemoryAssumption
    BY ServicesConstants DEF ServicesAssumption
<1>2. ASSUME MemoryInv PROVE FactsHold
    <2>1. FactList(memory.facts)
        BY <1>2, MemorySets, Zenon DEF MemoryInv, Remembered!TypeOK, Remembered!FactsSupersede, FactList
    <2>2. Remembered!RepeatIsHarmless
        BY <1>1, <2>1, AddHolds, PutHolds, SupersedeHolds, Zenon DEF Remembered!RepeatIsHarmless
    <2> QED BY <1>2, <2>2, Zenon DEF FactsHold, Of, MemoryInv
<1> QED BY <1>2, MemoryInductive, PTL

----------------------------------------------------------------------------
(* Evaluations.                                                            *)

\* A run over everything has stored what it already asked.
Progress(rec, load) ==
    rec.all => \E k \in 1 .. Items + 1 :
        /\ Len(rec.todo) = Items + 1 - k
        /\ \A j \in 1 .. Len(rec.todo) : rec.todo[j] = k - 1 + j
        /\ \A i \in 1 .. k - 1 : load[i] # None

\* A scenario played to its end, which nobody grades.
Played(load) ==
    \A i \in Evaluated!Ids : load[i] # None => load[i].grade = None /\ Len(load[i].checks) = ScenarioTurns

EvaluationInv ==
    /\ Evaluated!TypeOK
    /\ service = "day24" => \A c \in Clients : Progress(run[c], Evaluated!Load)
    /\ service = "day25" => Played(Evaluated!Load)
    /\ Evaluated!SummaryIsComplete

RunRecord == [todo : Seq(Evaluated!Ids), all : BOOLEAN, got : Seq(Outcomes)]

\* The records of the file.
LEMMA LoadIs ==
    ASSUME Evaluated!TypeOK
    PROVE  Evaluated!Load \in [Evaluated!Ids -> Evaluated!Records]
BY Zenon DEF Evaluated!TypeOK, Evaluated!Load, Evaluated!Empty, Evaluated!Records

\* A record is saved in the file that was read.
LEMMA Saved ==
    ASSUME Evaluated!EvaluationAssumption, Evaluated!TypeOK, NEW i \in Evaluated!Ids,
           NEW rec \in Evaluated!Graded, Evaluated!Save(i, rec)
    PROVE  /\ file' \in [Evaluated!Ids -> Evaluated!Records] /\ Evaluated!Load' = file'
           /\ file'[i] = rec /\ rec # None
           /\ \A j \in Evaluated!Ids : j # i => file'[j] = Evaluated!Load[j]
<1>1. Evaluated!Load \in [Evaluated!Ids -> Evaluated!Records]
    BY LoadIs
<1>2. file' = [Evaluated!Load EXCEPT ![i] = rec]
    BY Zenon DEF Evaluated!Save
<1>3. /\ file' \in [Evaluated!Ids -> Evaluated!Records] /\ file'[i] = rec
      /\ \A j \in Evaluated!Ids : j # i => file'[j] = Evaluated!Load[j]
    <2> HIDE DEF Evaluated!Load
    <2> QED BY <1>1, <1>2, Zenon DEF Evaluated!Records
<1>4. file' # Evaluated!Broken
    <2>1. DOMAIN file' = Evaluated!Ids /\ i \in Evaluated!Ids
        BY <1>3
    <2>2. DOMAIN <<>> = {}
        BY SMT
    <2> QED BY <2>1, <2>2, Zenon DEF Evaluated!Broken
<1>5. Evaluated!Load' = file'
    BY <1>4, Zenon DEF Evaluated!Load
<1> QED BY <1>3, <1>5, Zenon DEF Evaluated!EvaluationAssumption

LEMMA ExistingIs ==
    ASSUME Evaluated!TypeOK, NEW i \in Evaluated!Ids
    PROVE  /\ Evaluated!Existing(i) \in Evaluated!Graded
           /\ Evaluated!Load[i] # None => Evaluated!Existing(i) = Evaluated!Load[i]
<1>1. Evaluated!Load[i] \in Evaluated!Records
    BY LoadIs
<1>2. Evaluated!Fresh \in Evaluated!Graded
    BY SMT DEF Evaluated!Fresh, Evaluated!Record, Evaluated!Graded
<1> QED BY <1>1, <1>2, Zenon DEF Evaluated!Existing, Evaluated!Records

\* What a step may do to the file: save one record, whose grade only a person
\* changes, or lose everything with the process.
LEMMA FileChanges ==
    ASSUME Evaluated!EvaluationAssumption, Evaluated!TypeOK, Evaluated!Next
    PROVE  \/ UNCHANGED file /\ UNCHANGED Evaluated!Load /\ deaths' = deaths
           \/ /\ service = "day24" /\ deaths' = deaths
              /\ \E i \in Evaluated!Ids, rec \in Evaluated!Graded :
                    /\ Evaluated!Save(i, rec)
                    /\ Evaluated!Load[i] # None => rec.grade = Evaluated!Load[i].grade
           \/ /\ service = "day25" /\ deaths' = deaths
              /\ \E i \in Evaluated!Ids, rec \in Evaluated!Graded :
                    /\ Evaluated!Save(i, rec)
                    /\ rec.grade = None /\ Len(rec.checks) = ScenarioTurns
           \/ /\ service # "day25" /\ deaths' = deaths
              /\ \E i \in Evaluated!Ids, g \in Grades, rec \in Evaluated!Graded :
                    Evaluated!UpdateResult(i, g) /\ Evaluated!Save(i, rec)
           \/ Evaluated!Dies
<1>1. CASE \E c \in Clients : Evaluated!RunAll(c) \/ Evaluated!Fails(c) \/ \E i \in Evaluated!Ids : Evaluated!Run(c, i)
    <2>1. UNCHANGED file /\ deaths' = deaths
        BY <1>1, Zenon DEF Evaluated!RunAll, Evaluated!Fails, Evaluated!Run
    <2> QED BY <2>1, Zenon DEF Evaluated!Load
<1>2. ASSUME NEW c \in Clients, NEW o \in Outcomes, Evaluated!Answered(c, o)
      PROVE  \/ UNCHANGED file /\ UNCHANGED Evaluated!Load /\ deaths' = deaths
             \/ /\ service = "day24" /\ deaths' = deaths
                /\ \E i \in Evaluated!Ids, rec \in Evaluated!Graded :
                      /\ Evaluated!Save(i, rec)
                      /\ Evaluated!Load[i] # None => rec.grade = Evaluated!Load[i].grade
    <2>1. deaths' = deaths /\ run[c].todo # <<>>
        BY <1>2, Zenon DEF Evaluated!Answered, Evaluated!Asks
    <2>2. CASE service # "day24"
        <3>1. UNCHANGED file
            BY <1>2, <2>2, Zenon DEF Evaluated!Answered
        <3> QED BY <2>1, <3>1, Zenon DEF Evaluated!Load
    <2>3. CASE service = "day24"
        <3> DEFINE i == Head(run[c].todo)
                   old == Evaluated!Existing(i)
                   rec == [old EXCEPT !.checks = <<o>>]
        <3>1. Evaluated!Save(i, rec)
            BY <1>2, <2>3, Zenon DEF Evaluated!Answered, Evaluated!PersistRun
        <3>2. i \in Evaluated!Ids
            <4>1. run[c].todo \in Seq(Evaluated!Ids)
                BY Zenon DEF Evaluated!TypeOK
            <4> QED BY <2>1, <4>1, HeadTailProperties, Zenon
        <3> HIDE DEF i
        <3>3. old \in Evaluated!Graded /\ (Evaluated!Load[i] # None => old = Evaluated!Load[i])
            BY <3>2, ExistingIs
        <3> HIDE DEF old
        <3>4. rec \in Evaluated!Graded /\ rec.grade = old.grade
            <4> DEFINE one == <<o>>
            <4>1. one \in Seq(Outcomes)
                BY SMT
            <4> HIDE DEF one
            <4>2. [old EXCEPT !.checks = one] \in Evaluated!Graded
                  /\ [old EXCEPT !.checks = one].grade = old.grade
                BY <3>3, <4>1, SMT DEF Evaluated!Graded
            <4> QED BY <4>2 DEF one
        <3> QED BY <2>1, <2>3, <3>1, <3>2, <3>3, <3>4, Zenon
    <2> QED BY <2>2, <2>3
<1>3. ASSUME NEW c \in Clients, NEW o \in Outcomes, Evaluated!Turn(c, o)
      PROVE  \/ UNCHANGED file /\ UNCHANGED Evaluated!Load /\ deaths' = deaths
             \/ /\ service = "day25" /\ deaths' = deaths
                /\ \E i \in Evaluated!Ids, rec \in Evaluated!Graded :
                      /\ Evaluated!Save(i, rec)
                      /\ rec.grade = None /\ Len(rec.checks) = ScenarioTurns
    <2> DEFINE got == Append(run[c].got, o)
               i == Head(run[c].todo)
               rec == [checks |-> got, grade |-> None]
    <2>1. deaths' = deaths /\ run[c].todo # <<>> /\ service = "day25"
        BY <1>3, Zenon DEF Evaluated!Turn, Evaluated!Asks
    <2>2. CASE Len(got) # ScenarioTurns
        <3>1. UNCHANGED file
            BY <1>3, <2>2, Zenon DEF Evaluated!Turn
        <3> QED BY <2>1, <3>1, Zenon DEF Evaluated!Load
    <2>3. CASE Len(got) = ScenarioTurns
        <3>1. Evaluated!Save(i, rec)
            BY <1>3, <2>3, Zenon DEF Evaluated!Turn, Evaluated!Record
        <3>2. run[c].todo \in Seq(Evaluated!Ids) /\ run[c].got \in Seq(Outcomes)
            BY Zenon DEF Evaluated!TypeOK
        <3>3. i \in Evaluated!Ids
            BY <2>1, <3>2, HeadTailProperties, Zenon
        <3>4. got \in Seq(Outcomes)
            BY <3>2, SMT
        <3> HIDE DEF got, i
        <3>5. rec \in Evaluated!Graded /\ rec.grade = None /\ rec.checks = got
            BY <3>4, SMT DEF Evaluated!Graded
        <3> QED BY <2>1, <2>3, <3>1, <3>3, <3>5, Zenon
    <2> QED BY <2>2, <2>3
<1>4. ASSUME NEW i \in Evaluated!Ids, NEW g \in Grades, Evaluated!UpdateResult(i, g)
      PROVE  service # "day25" /\ deaths' = deaths /\ \E rec \in Evaluated!Graded : Evaluated!Save(i, rec)
    <2> DEFINE old == Evaluated!Existing(i)
               rec == IF service = "day24" THEN [old EXCEPT !.grade = g] ELSE [checks |-> <<>>, grade |-> g]
    <2>1. Evaluated!Save(i, rec) /\ service # "day25" /\ deaths' = deaths
        BY <1>4, Zenon DEF Evaluated!UpdateResult, Evaluated!Record
    <2>2. old \in Evaluated!Graded
        BY ExistingIs
    <2> HIDE DEF old
    <2>3. [old EXCEPT !.grade = g] \in Evaluated!Graded /\ [checks |-> <<>>, grade |-> g] \in Evaluated!Graded
        BY <2>2, SMT DEF Evaluated!Graded
    <2>4. rec \in Evaluated!Graded
        BY <2>3, Zenon
    <2> QED BY <2>1, <2>4
<1> QED BY <1>1, <1>2, <1>3, <1>4, Zenon DEF Evaluated!Next

\* No step but the death of the process loses a record, and no step changes a grade
\* that it was not given.
LEMMA LoadGrows ==
    ASSUME Evaluated!EvaluationAssumption, Evaluated!TypeOK, Evaluated!Next, ~Evaluated!Dies
    PROVE  /\ file' = Evaluated!Broken \/ file' \in [Evaluated!Ids -> Evaluated!Records]
           /\ \A j \in Evaluated!Ids : Evaluated!Load[j] # None => Evaluated!Load'[j] # None
           /\ deaths' = deaths
<1>1. \A i \in Evaluated!Ids, rec \in Evaluated!Graded : Evaluated!Save(i, rec) =>
          /\ file' \in [Evaluated!Ids -> Evaluated!Records]
          /\ \A j \in Evaluated!Ids : Evaluated!Load[j] # None => Evaluated!Load'[j] # None
    <2> TAKE i \in Evaluated!Ids, rec \in Evaluated!Graded
    <2> HAVE Evaluated!Save(i, rec)
    <2>1. /\ file' \in [Evaluated!Ids -> Evaluated!Records] /\ Evaluated!Load' = file'
          /\ file'[i] = rec /\ rec # None
          /\ \A j \in Evaluated!Ids : j # i => file'[j] = Evaluated!Load[j]
        BY Saved
    <2>2. \A j \in Evaluated!Ids : Evaluated!Load[j] # None => Evaluated!Load'[j] # None
        <3> TAKE j \in Evaluated!Ids
        <3> HAVE Evaluated!Load[j] # None
        <3>1. CASE j = i
            BY <2>1, <3>1
        <3>2. CASE j # i
            BY <2>1, <3>2
        <3> QED BY <3>1, <3>2
    <2> QED BY <2>1, <2>2
<1>2. file = Evaluated!Broken \/ file \in [Evaluated!Ids -> Evaluated!Records]
    BY Zenon DEF Evaluated!TypeOK
<1> QED BY <1>1, <1>2, FileChanges, Zenon

\* What becomes of a client's run, apart from a death: it begins, is done, or goes on
\* by a question or a turn.
GoesOn(c, rec) ==
    \/ rec = Evaluated!Idle
    \/ \E i \in Evaluated!Ids : rec = [run[c] EXCEPT !.todo = <<i>>] /\ run[c] = Evaluated!Idle
    \/ rec = [Evaluated!Idle EXCEPT !.todo = [i \in Evaluated!Ids |-> i], !.all = TRUE]
    \/ \E o \in Outcomes :
          /\ rec = [run[c] EXCEPT !.todo = Tail(@), !.got = Append(@, o)]
          /\ Evaluated!Answered(c, o) /\ run[c].todo # <<>>
    \/ \E o \in Outcomes : rec = [run[c] EXCEPT !.got = Append(run[c].got, o)] /\ service = "day25"

LEMMA RunChanges ==
    ASSUME Evaluated!TypeOK, NEW c \in Clients,
           \/ Evaluated!RunAll(c) \/ Evaluated!Fails(c)
           \/ \E i \in Evaluated!Ids : Evaluated!Run(c, i)
           \/ \E o \in Outcomes : Evaluated!Answered(c, o) \/ Evaluated!Turn(c, o)
    PROVE  \E rec : run' = [run EXCEPT ![c] = rec] /\ GoesOn(c, rec)
<1>1. CASE Evaluated!RunAll(c)
    BY <1>1, Zenon DEF Evaluated!RunAll, GoesOn
<1>2. CASE Evaluated!Fails(c)
    BY <1>2, Zenon DEF Evaluated!Fails, GoesOn
<1>3. ASSUME NEW i \in Evaluated!Ids, Evaluated!Run(c, i)
      PROVE  run' = [run EXCEPT ![c] = [run[c] EXCEPT !.todo = <<i>>]] /\ run[c] = Evaluated!Idle
    <2>1. run' = [run EXCEPT ![c].todo = <<i>>] /\ run[c] = Evaluated!Idle
        BY <1>3, Zenon DEF Evaluated!Run
    <2> QED BY <2>1, Zenon
<1>4. ASSUME NEW o \in Outcomes, Evaluated!Answered(c, o)
      PROVE  \/ run' = [run EXCEPT ![c] = Evaluated!Idle]
             \/ /\ run' = [run EXCEPT ![c] = [run[c] EXCEPT !.todo = Tail(@), !.got = Append(@, o)]]
                /\ run[c].todo # <<>>
    <2> DEFINE next == [run[c] EXCEPT !.todo = Tail(@), !.got = Append(@, o)]
    <2>1. run' = [run EXCEPT ![c] = IF Len(run[c].todo) = 1 THEN Evaluated!Idle ELSE next]
        BY <1>4, Zenon DEF Evaluated!Answered
    <2>2. run[c].todo # <<>>
        BY <1>4, Zenon DEF Evaluated!Answered, Evaluated!Asks
    <2> HIDE DEF next
    <2>3. run' = [run EXCEPT ![c] = Evaluated!Idle] \/ run' = [run EXCEPT ![c] = next]
        BY <2>1, Zenon
    <2> QED BY <2>2, <2>3, Zenon DEF next
<1>5. ASSUME NEW o \in Outcomes, Evaluated!Turn(c, o)
      PROVE  \/ run' = [run EXCEPT ![c] = Evaluated!Idle]
             \/ /\ run' = [run EXCEPT ![c] = [run[c] EXCEPT !.got = Append(run[c].got, o)]]
                /\ service = "day25"
    <2>1. \/ run' = [run EXCEPT ![c] = Evaluated!Idle]
          \/ run' = [run EXCEPT ![c].got = Append(run[c].got, o)]
        BY <1>5, Zenon DEF Evaluated!Turn
    <2>2. service = "day25"
        BY <1>5, Zenon DEF Evaluated!Turn
    <2> QED BY <2>1, <2>2, Zenon
<1> QED BY <1>1, <1>2, <1>3, <1>4, <1>5, Zenon DEF GoesOn

\* The records of the runs.
LEMMA NewRuns ==
    ASSUME Evaluated!EvaluationAssumption
    PROVE  /\ Evaluated!Idle \in RunRecord
           /\ [Evaluated!Idle EXCEPT !.todo = [i \in Evaluated!Ids |-> i], !.all = TRUE] \in RunRecord
<1> DEFINE G == BOOLEAN
           no == FALSE
           yes == TRUE
           ids == [i \in Evaluated!Ids |-> i]
           T == Seq(Evaluated!Ids)
           Q == Seq(Outcomes)
           none == <<>>
           idle == [todo |-> none, all |-> no, got |-> none]
<1>1. no \in G /\ yes \in G
    BY Zenon
<1>2. Items \in Nat /\ Evaluated!Ids = 1 .. Items
    BY SMT DEF Evaluated!EvaluationAssumption, Evaluated!Ids
<1>3. RunRecord = [todo : T, all : G, got : Q]
    BY Zenon DEF RunRecord
<1>4. Evaluated!Idle = idle
    BY Zenon DEF Evaluated!Idle
<1>5. ids \in T /\ none \in T /\ none \in Q
    BY <1>2, SMT
<1> HIDE DEF G, no, yes, ids, T, Q, none
<1>6. idle \in [todo : T, all : G, got : Q]
    BY <1>1, <1>5, SMT
<1>7. [idle EXCEPT !.todo = ids, !.all = yes] \in [todo : T, all : G, got : Q]
    <2> DEFINE full == [idle EXCEPT !.todo = ids]
    <2>3. full = [todo |-> ids, all |-> no, got |-> none]
        BY SMT
    <2> HIDE DEF full
    <2>4. [full EXCEPT !.all = yes] = [todo |-> ids, all |-> yes, got |-> none]
        BY <2>3, SMT
    <2>1. [idle EXCEPT !.todo = ids, !.all = yes] = [todo |-> ids, all |-> yes, got |-> none]
        BY <2>4 DEF full
    <2>2. [todo |-> ids, all |-> yes, got |-> none] \in [todo : T, all : G, got : Q]
        BY <1>1, <1>5, SMT
    <2> QED BY <2>1, <2>2
<1>8. [Evaluated!Idle EXCEPT !.todo = [i \in Evaluated!Ids |-> i], !.all = TRUE] \in RunRecord
    BY <1>3, <1>4, <1>7 DEF ids, yes
<1> QED BY <1>3, <1>4, <1>6, <1>8

LEMMA RunRecords ==
    ASSUME NEW old \in RunRecord
    PROVE  /\ \A i \in Evaluated!Ids : [old EXCEPT !.todo = <<i>>] \in RunRecord
           /\ \A o \in Outcomes :
                  /\ [old EXCEPT !.got = Append(old.got, o)] \in RunRecord
                  /\ [old EXCEPT !.got = Append(old.got, o)].todo = old.todo
                  /\ old.todo # <<>> =>
                         [old EXCEPT !.todo = Tail(@), !.got = Append(@, o)] \in RunRecord
                  /\ [old EXCEPT !.todo = Tail(@), !.got = Append(@, o)].todo = Tail(old.todo)
                  /\ [old EXCEPT !.todo = Tail(@), !.got = Append(@, o)].all = old.all
<1> DEFINE G == BOOLEAN
           T == Seq(Evaluated!Ids)
           Q == Seq(Outcomes)
           S == [todo : T, all : G, got : Q]
<1>1. RunRecord = S
    BY Zenon DEF RunRecord
<1>2. old.todo \in Seq(Evaluated!Ids) /\ old.got \in Seq(Outcomes)
    BY <1>1, SMT
<1>3. \A i \in Evaluated!Ids : [old EXCEPT !.todo = <<i>>] \in S
    <2> TAKE i \in Evaluated!Ids
    <2> DEFINE one == <<i>>
    <2>1. one \in T
        BY SMT
    <2> HIDE DEF G, T, Q, one
    <2>2. [old EXCEPT !.todo = one] \in S
        BY <1>1, <2>1, SMT
    <2> QED BY <2>2 DEF one
<1>4. ASSUME NEW o \in Outcomes
      PROVE  /\ [old EXCEPT !.got = Append(old.got, o)] \in S
             /\ [old EXCEPT !.got = Append(old.got, o)].todo = old.todo
             /\ old.todo # <<>> => [old EXCEPT !.todo = Tail(@), !.got = Append(@, o)] \in S
             /\ [old EXCEPT !.todo = Tail(@), !.got = Append(@, o)].todo = Tail(old.todo)
             /\ [old EXCEPT !.todo = Tail(@), !.got = Append(@, o)].all = old.all
    <2> DEFINE rest == Tail(old.todo)
               more == Append(old.got, o)
    <2>1. (old.todo # <<>> => rest \in T) /\ more \in Q
        BY <1>2, SMT
    <2>2. [old EXCEPT !.todo = Tail(@), !.got = Append(@, o)] = [old EXCEPT !.todo = rest, !.got = more]
        OBVIOUS
    <2> HIDE DEF rest, more, G, T, Q
    <2>3. /\ [old EXCEPT !.got = more] \in S /\ [old EXCEPT !.got = more].todo = old.todo
          /\ old.todo # <<>> => [old EXCEPT !.todo = rest, !.got = more] \in S
          /\ [old EXCEPT !.todo = rest, !.got = more].todo = rest
          /\ [old EXCEPT !.todo = rest, !.got = more].all = old.all
        <3> DEFINE next == [old EXCEPT !.todo = rest, !.got = more]
        <3>1. [old EXCEPT !.got = more] \in S /\ [old EXCEPT !.got = more].todo = old.todo
            BY <1>1, <2>1, SMT
        <3>2. old \in S
            BY <1>1
        <3>3. next = [todo |-> rest, all |-> old.all, got |-> more] /\ old.all \in G
            <4> DEFINE half == [old EXCEPT !.todo = rest]
            <4>1. half = [todo |-> rest, all |-> old.all, got |-> old.got] /\ old.all \in G
                BY <3>2, SMT
            <4> HIDE DEF half
            <4>2. [half EXCEPT !.got = more] = [todo |-> rest, all |-> old.all, got |-> more]
                BY <4>1, SMT
            <4> QED BY <4>1, <4>2 DEF half
        <3> HIDE DEF next
        <3>4. next.todo = rest /\ next.all = old.all
            BY <3>3, SMT
        <3>5. old.todo # <<>> => next \in S
            BY <2>1, <3>3, SMT
        <3> QED BY <3>1, <3>4, <3>5 DEF next
    <2> HIDE DEF S
    <2> QED BY <2>2, <2>3 DEF rest, more
<1> QED BY <1>1, <1>3, <1>4, Zenon

LEMMA RunsTyped ==
    ASSUME Evaluated!EvaluationAssumption, Evaluated!TypeOK, Evaluated!Next
    PROVE  run' \in [Clients -> RunRecord]
<1>1. run \in [Clients -> RunRecord]
    BY Zenon DEF Evaluated!TypeOK, RunRecord
<1>2. ASSUME NEW c \in Clients,
             \/ Evaluated!RunAll(c) \/ Evaluated!Fails(c)
             \/ \E i \in Evaluated!Ids : Evaluated!Run(c, i)
             \/ \E o \in Outcomes : Evaluated!Answered(c, o) \/ Evaluated!Turn(c, o)
      PROVE  run' \in [Clients -> RunRecord]
    <2>1. PICK rec : run' = [run EXCEPT ![c] = rec] /\ GoesOn(c, rec)
        BY <1>2, RunChanges
    <2>2. run[c] \in RunRecord
        BY <1>1, Zenon
    <2>3. rec \in RunRecord
        BY <2>1, <2>2, RunRecords, NewRuns, Zenon DEF GoesOn
    <2> QED BY <1>1, <2>1, <2>3, Zenon
<1>3. ASSUME Evaluated!Dies PROVE run' \in [Clients -> RunRecord]
    <2>1. run' = [c \in Clients |-> Evaluated!Idle]
        BY <1>3, Zenon DEF Evaluated!Dies
    <2> QED BY <2>1, NewRuns, Zenon
<1>4. ASSUME NEW i \in Evaluated!Ids, NEW g \in Grades, Evaluated!UpdateResult(i, g)
      PROVE  run' \in [Clients -> RunRecord]
    BY <1>1, <1>4, Zenon DEF Evaluated!UpdateResult
<1> QED BY <1>2, <1>3, <1>4, Zenon DEF Evaluated!Next

LEMMA EvaluationInit ==
    ASSUME Evaluated!EvaluationAssumption, Evaluated!Init
    PROVE  EvaluationInv
<1>1. Items \in Nat \ {0} /\ MaxDeaths \in Nat
    BY Zenon DEF Evaluated!EvaluationAssumption
<1>2. /\ file = Evaluated!Empty /\ service \in Evaluated!Services
      /\ run = [c \in Clients |-> Evaluated!Idle] /\ report = [c \in Clients |-> -1] /\ deaths = 0
    BY Zenon DEF Evaluated!Init
<1>3. run \in [Clients -> RunRecord]
    BY <1>2, NewRuns, Zenon
<1>4. file \in [Evaluated!Ids -> Evaluated!Records]
    BY <1>2, Zenon DEF Evaluated!Empty, Evaluated!Records
<1>5. deaths \in 0 .. MaxDeaths /\ -1 \in -1 .. Items
    BY <1>1, <1>2, SMT
<1>6. report \in [Clients -> -1 .. Items] /\ \A c \in Clients : report[c] = -1
    BY <1>2, <1>5, Zenon
<1>7. Evaluated!TypeOK
    BY <1>2, <1>3, <1>4, <1>5, <1>6, Zenon DEF Evaluated!TypeOK, RunRecord
<1>8. \A c \in Clients : ~run[c].all
    <2>1. ~Evaluated!Idle.all
        BY DEF Evaluated!Idle
    <2> QED BY <1>2, <2>1, Zenon
<1>9. \A i \in Evaluated!Ids : Evaluated!Load[i] = None
    BY <1>2, Zenon DEF Evaluated!Load, Evaluated!Empty
<1>10. Evaluated!SummaryIsComplete
    BY <1>6, Zenon DEF Evaluated!SummaryIsComplete
<1> QED BY <1>7, <1>8, <1>9, <1>10, Zenon DEF EvaluationInv, Progress, Played

\* The file of a data set that is all evaluated.
LEMMA AllEvaluated ==
    ASSUME Evaluated!EvaluationAssumption, NEW records, \A i \in Evaluated!Ids : records[i] # None
    PROVE  Evaluated!Evaluated(records) = Items
<1>1. Items \in Nat
    BY Zenon DEF Evaluated!EvaluationAssumption
<1>2. {i \in Evaluated!Ids : records[i] # None} = 1 .. Items
    BY Zenon DEF Evaluated!Ids
<1>3. Cardinality(1 .. Items) = Items
    BY <1>1, FS_Interval, SMT
<1>4. Evaluated!Evaluated(records) = Evaluated!Cardinality({i \in Evaluated!Ids : records[i] # None})
    BY Zenon DEF Evaluated!Evaluated
<1>5. Evaluated!Cardinality({i \in Evaluated!Ids : records[i] # None}) = Cardinality(1 .. Items)
    BY <1>2 DEF Evaluated!Cardinality, Cardinality
<1> QED BY <1>3, <1>4, <1>5

\* An answer of Day 24 is on the file.
LEMMA AnswerIsStored ==
    ASSUME Evaluated!EvaluationAssumption, Evaluated!TypeOK, NEW c \in Clients, NEW o \in Outcomes,
           Evaluated!Answered(c, o), service = "day24"
    PROVE  /\ run[c].todo # <<>> /\ run[c].todo \in Seq(Evaluated!Ids)
           /\ Head(run[c].todo) \in Evaluated!Ids
           /\ Evaluated!Load'[Head(run[c].todo)] # None
           /\ file' = Evaluated!Load' /\ deaths' = deaths
           /\ \A j \in Evaluated!Ids : Evaluated!Load[j] # None => Evaluated!Load'[j] # None
<1> DEFINE i == Head(run[c].todo)
           old == Evaluated!Existing(i)
           rec == [old EXCEPT !.checks = <<o>>]
<1>1. Evaluated!Save(i, rec) /\ run[c].todo # <<>> /\ deaths' = deaths
    BY Zenon DEF Evaluated!Answered, Evaluated!PersistRun, Evaluated!Asks
<1>2. run[c].todo \in Seq(Evaluated!Ids)
    BY Zenon DEF Evaluated!TypeOK
<1>3. i \in Evaluated!Ids
    BY <1>1, <1>2, HeadTailProperties, Zenon
<1>4. rec \in Evaluated!Graded
    <2> HIDE DEF i
    <2>1. old \in Evaluated!Graded
        BY <1>3, ExistingIs
    <2> HIDE DEF old
    <2> DEFINE one == <<o>>
    <2>2. one \in Seq(Outcomes)
        BY SMT
    <2> HIDE DEF one
    <2>3. [old EXCEPT !.checks = one] \in Evaluated!Graded
        BY <2>1, <2>2, SMT DEF Evaluated!Graded
    <2> QED BY <2>3 DEF one
<1> HIDE DEF i, rec
<1>5. /\ file' \in [Evaluated!Ids -> Evaluated!Records] /\ Evaluated!Load' = file'
      /\ file'[i] = rec /\ rec # None
      /\ \A j \in Evaluated!Ids : j # i => file'[j] = Evaluated!Load[j]
    BY <1>1, <1>3, <1>4, Saved
<1>6. \A j \in Evaluated!Ids : Evaluated!Load[j] # None => Evaluated!Load'[j] # None
    <2> TAKE j \in Evaluated!Ids
    <2>1. CASE j = i
        BY <1>5, <2>1
    <2>2. CASE j # i
        BY <1>5, <2>2
    <2> QED BY <2>1, <2>2
<1> QED BY <1>1, <1>2, <1>3, <1>5, <1>6 DEF i

\* A run over everything that has one question left, and answers it, has stored all.
LEMMA LastAnswer ==
    ASSUME Evaluated!EvaluationAssumption, Evaluated!TypeOK, NEW c \in Clients, NEW o \in Outcomes,
           Evaluated!Answered(c, o), service = "day24", Progress(run[c], Evaluated!Load),
           run[c].all, Len(run[c].todo) = 1
    PROVE  Evaluated!Evaluated(file') = Items
<1>1. PICK k \in 1 .. Items + 1 :
          /\ Len(run[c].todo) = Items + 1 - k
          /\ \A j \in 1 .. Len(run[c].todo) : run[c].todo[j] = k - 1 + j
          /\ \A i \in 1 .. k - 1 : Evaluated!Load[i] # None
    BY Zenon DEF Progress
<1>2. Items \in Nat
    BY Zenon DEF Evaluated!EvaluationAssumption
<1>3. run[c].todo \in Seq(Evaluated!Ids) /\ run[c].todo # <<>>
    BY AnswerIsStored
<1>4. k = Items /\ Head(run[c].todo) = Items
    <2> DEFINE todo == run[c].todo
               n == Len(todo)
    <2>1. Head(todo) = todo[1]
        BY <1>3, SMT
    <2>2. n = 1 /\ n = Items + 1 - k
        BY <1>1
    <2> HIDE DEF n
    <2>3. k = Items
        BY <1>1, <1>2, <2>2, SMT
    <2>4. todo[1] = k - 1 + 1
        BY <1>1, <2>2, SMT
    <2>5. k - 1 + 1 = k
        BY <1>2, <2>3, SMT
    <2> QED BY <2>1, <2>3, <2>4, <2>5
<1>5. \A i \in Evaluated!Ids : i = Items \/ i \in 1 .. k - 1
    BY <1>2, <1>4, SMT DEF Evaluated!Ids
<1>6. \A i \in Evaluated!Ids : Evaluated!Load'[i] # None
    <2>1. Evaluated!Load'[Items] # None
        BY <1>4, AnswerIsStored
    <2>2. \A i \in Evaluated!Ids : i \in 1 .. k - 1 => Evaluated!Load'[i] # None
        BY <1>1, AnswerIsStored
    <2> QED BY <1>5, <2>1, <2>2
<1>7. file' = Evaluated!Load'
    BY AnswerIsStored
<1>8. \A i \in Evaluated!Ids : file'[i] # None
    BY <1>6, <1>7
<1> QED BY <1>8, AllEvaluated

\* What is reported.
LEMMA ReportHolds ==
    ASSUME Evaluated!EvaluationAssumption, EvaluationInv, Evaluated!Next
    PROVE  report' \in [Clients -> -1 .. Items] /\ Evaluated!SummaryIsComplete'
<1>1. report \in [Clients -> -1 .. Items] /\ \A c \in Clients : report[c] \in {-1, Items}
    BY Zenon DEF EvaluationInv, Evaluated!TypeOK, Evaluated!SummaryIsComplete
<1>2. Items \in -1 .. Items
    <2>1. Items \in Nat
        BY Zenon DEF Evaluated!EvaluationAssumption
    <2> QED BY <2>1, SMT
<1>3. report' = report \/ \E c \in Clients : report' = [report EXCEPT ![c] = Items]
    <2>1. ASSUME NEW c \in Clients, NEW o \in Outcomes, Evaluated!Answered(c, o)
          PROVE  report' = report \/ report' = [report EXCEPT ![c] = Items]
        <3>1. report' = IF Len(run[c].todo) = 1 /\ run[c].all /\ service = "day24"
                        THEN [report EXCEPT ![c] = Evaluated!Evaluated(file')] ELSE report
            BY <2>1, Zenon DEF Evaluated!Answered
        <3>2. CASE Len(run[c].todo) = 1 /\ run[c].all /\ service = "day24"
            <4>1. Progress(run[c], Evaluated!Load) /\ Evaluated!TypeOK
                BY <3>2, Zenon DEF EvaluationInv
            <4>2. Evaluated!Evaluated(file') = Items
                BY <2>1, <3>2, <4>1, LastAnswer
            <4> QED BY <3>1, <3>2, <4>2, Zenon
        <3> QED BY <3>1, <3>2, Zenon
    <2>2. CASE \E c \in Clients : Evaluated!RunAll(c) \/ Evaluated!Fails(c) \/ \E i \in Evaluated!Ids : Evaluated!Run(c, i)
        BY <2>2, Zenon DEF Evaluated!RunAll, Evaluated!Fails, Evaluated!Run
    <2>3. CASE \E c \in Clients, o \in Outcomes : Evaluated!Turn(c, o)
        BY <2>3, Zenon DEF Evaluated!Turn
    <2>4. CASE Evaluated!Dies \/ \E i \in Evaluated!Ids, g \in Grades : Evaluated!UpdateResult(i, g)
        BY <2>4, Zenon DEF Evaluated!Dies, Evaluated!UpdateResult
    <2> QED BY <2>1, <2>2, <2>3, <2>4, Zenon DEF Evaluated!Next
<1>4. report' \in [Clients -> -1 .. Items] /\ \A c \in Clients : report'[c] \in {-1, Items}
    BY <1>1, <1>2, <1>3, Zenon
<1> QED BY <1>4, Zenon DEF Evaluated!SummaryIsComplete

\* What was stored stays stored.
LEMMA ProgressStays ==
    ASSUME Evaluated!EvaluationAssumption, Evaluated!TypeOK, Evaluated!Next, ~Evaluated!Dies,
           NEW rec, Progress(rec, Evaluated!Load)
    PROVE  Progress(rec, Evaluated!Load')
<1> SUFFICES ASSUME rec.all
             PROVE  \E k \in 1 .. Items + 1 :
                        /\ Len(rec.todo) = Items + 1 - k
                        /\ \A j \in 1 .. Len(rec.todo) : rec.todo[j] = k - 1 + j
                        /\ \A i \in 1 .. k - 1 : Evaluated!Load'[i] # None
    BY Zenon DEF Progress
<1>1. PICK k \in 1 .. Items + 1 :
          /\ Len(rec.todo) = Items + 1 - k
          /\ \A j \in 1 .. Len(rec.todo) : rec.todo[j] = k - 1 + j
          /\ \A i \in 1 .. k - 1 : Evaluated!Load[i] # None
    BY Zenon DEF Progress
<1>2. \A i \in 1 .. k - 1 : i \in Evaluated!Ids
    BY SMT DEF Evaluated!Ids, Evaluated!EvaluationAssumption
<1>3. \A i \in 1 .. k - 1 : Evaluated!Load'[i] # None
    BY <1>1, <1>2, LoadGrows
<1> QED BY <1>1, <1>3

\* The runs over everything of Day 24 go on.
LEMMA ProgressGoesOn ==
    ASSUME Evaluated!EvaluationAssumption, Evaluated!TypeOK, Evaluated!Next, ~Evaluated!Dies,
           service = "day24", NEW c \in Clients, Progress(run[c], Evaluated!Load),
           NEW rec, GoesOn(c, rec)
    PROVE  Progress(rec, Evaluated!Load')
<1>1. Items \in Nat /\ Evaluated!Ids = 1 .. Items
    BY SMT DEF Evaluated!EvaluationAssumption, Evaluated!Ids
<1>2. run[c] \in RunRecord
    BY Zenon DEF Evaluated!TypeOK, RunRecord
<1>3. ASSUME rec = Evaluated!Idle \/ \E i \in Evaluated!Ids : rec = [run[c] EXCEPT !.todo = <<i>>] /\ run[c] = Evaluated!Idle
      PROVE  ~rec.all
    <2>1. ~Evaluated!Idle.all
        BY DEF Evaluated!Idle
    <2>2. \A i : [Evaluated!Idle EXCEPT !.todo = <<i>>].all = Evaluated!Idle.all
        BY DEF Evaluated!Idle
    <2> QED BY <1>3, <2>1, <2>2, Zenon
<1>4. ASSUME rec = [Evaluated!Idle EXCEPT !.todo = [i \in Evaluated!Ids |-> i], !.all = TRUE]
      PROVE  Progress(rec, Evaluated!Load')
    <2> DEFINE ids == [i \in Evaluated!Ids |-> i]
    <2>1. rec.todo = ids
        BY <1>4 DEF Evaluated!Idle
    <2>2. Len(ids) = Items /\ \A j \in 1 .. Items : ids[j] = j
        BY <1>1, SMT
    <2> HIDE DEF ids
    <2>3. /\ Len(rec.todo) = Items + 1 - 1
          /\ \A j \in 1 .. Len(rec.todo) : rec.todo[j] = 1 - 1 + j
          /\ 1 \in 1 .. Items + 1 /\ 1 .. 1 - 1 = {}
        BY <1>1, <2>1, <2>2, SMT
    <2> QED BY <2>3, Zenon DEF Progress
<1>5. ASSUME NEW o \in Outcomes, rec = [run[c] EXCEPT !.todo = Tail(@), !.got = Append(@, o)],
             Evaluated!Answered(c, o), run[c].todo # <<>>, rec.all
      PROVE  Progress(rec, Evaluated!Load')
    <2> DEFINE todo == run[c].todo
    <2>1. rec.todo = Tail(todo) /\ run[c].all
        BY <1>2, <1>5, RunRecords, Zenon
    <2>2. PICK k \in 1 .. Items + 1 :
              /\ Len(todo) = Items + 1 - k
              /\ \A j \in 1 .. Len(todo) : todo[j] = k - 1 + j
              /\ \A i \in 1 .. k - 1 : Evaluated!Load[i] # None
        BY <2>1, Zenon DEF Progress
    <2>3. /\ todo \in Seq(Evaluated!Ids) /\ todo # <<>>
          /\ Evaluated!Load'[Head(todo)] # None
          /\ \A j \in Evaluated!Ids : Evaluated!Load[j] # None => Evaluated!Load'[j] # None
        BY <1>5, AnswerIsStored
    <2> HIDE DEF todo
    <2>4. Len(todo) > 0 /\ Head(todo) = todo[1]
        BY <2>3, SMT
    <2>5. /\ Tail(todo) \in Seq(Evaluated!Ids) /\ Len(Tail(todo)) = Len(todo) - 1
          /\ \A j \in 1 .. Len(Tail(todo)) : Tail(todo)[j] = todo[j + 1]
        BY <2>3, HeadTailProperties, Zenon
    <2>6. Len(todo) \in Nat
        BY <2>3, LenProperties, Zenon
    <2>7. Head(todo) = k
        <3>1. todo[1] = k - 1 + 1
            BY <2>2, <2>4, <2>6, SMT
        <3>2. k - 1 + 1 = k
            BY <1>1, SMT
        <3> QED BY <2>4, <3>1, <3>2
    <2>8. k + 1 \in 1 .. Items + 1 /\ Len(Tail(todo)) = Items + 1 - (k + 1)
        BY <1>1, <2>2, <2>4, <2>5, <2>6, SMT
    <2>9. \A j \in 1 .. Len(Tail(todo)) : Tail(todo)[j] = (k + 1) - 1 + j
        <3> TAKE j \in 1 .. Len(Tail(todo))
        <3>1. Tail(todo)[j] = todo[j + 1]
            BY <2>5
        <3>2. j + 1 \in 1 .. Len(todo)
            BY <2>5, <2>6, SMT
        <3>3. todo[j + 1] = k - 1 + (j + 1)
            BY <2>2, <3>2
        <3>4. k - 1 + (j + 1) = (k + 1) - 1 + j
            BY <1>1, <2>5, <2>6, SMT
        <3> QED BY <3>1, <3>3, <3>4
    <2>10. \A i \in 1 .. (k + 1) - 1 : Evaluated!Load'[i] # None
        <3> TAKE i \in 1 .. (k + 1) - 1
        <3>1. i = k \/ (i \in 1 .. k - 1 /\ i \in Evaluated!Ids)
            BY <1>1, <2>2, SMT
        <3>2. CASE i = k
            BY <2>3, <2>7, <3>2
        <3>3. CASE i \in 1 .. k - 1 /\ i \in Evaluated!Ids
            BY <2>2, <2>3, <3>3
        <3> QED BY <3>1, <3>2, <3>3
    <2> HIDE DEF Progress
    <2> DEFINE m == k + 1
    <2>11. /\ m \in 1 .. Items + 1 /\ Len(rec.todo) = Items + 1 - m
           /\ \A j \in 1 .. Len(rec.todo) : rec.todo[j] = m - 1 + j
           /\ \A i \in 1 .. m - 1 : Evaluated!Load'[i] # None
        BY <2>1, <2>8, <2>9, <2>10 DEF todo
    <2> HIDE DEF m
    <2> QED BY <2>11, Zenon DEF Progress
<1>6. ~\E o \in Outcomes : rec = [run[c] EXCEPT !.got = Append(run[c].got, o)] /\ service = "day25"
    OBVIOUS
<1>7. ~rec.all => Progress(rec, Evaluated!Load')
    BY Zenon DEF Progress
<1> QED BY <1>3, <1>4, <1>5, <1>6, <1>7, Zenon DEF GoesOn

LEMMA ProgressHolds ==
    ASSUME Evaluated!EvaluationAssumption, EvaluationInv, Evaluated!Next
    PROVE  service' = "day24" => \A c \in Clients : Progress(run'[c], Evaluated!Load')
<1> SUFFICES ASSUME service' = "day24", NEW d \in Clients
             PROVE  Progress(run'[d], Evaluated!Load')
    OBVIOUS
<1>1. service = "day24"
    BY Zenon DEF Evaluated!Next, Evaluated!RunAll, Evaluated!Fails, Evaluated!Run, Evaluated!Answered,
       Evaluated!Turn, Evaluated!UpdateResult, Evaluated!Dies
<1>2. Evaluated!TypeOK /\ \A c \in Clients : Progress(run[c], Evaluated!Load)
    BY <1>1, Zenon DEF EvaluationInv
<1>3. CASE Evaluated!Dies
    <2>1. run'[d] = Evaluated!Idle
        BY <1>3, Zenon DEF Evaluated!Dies
    <2>2. ~Evaluated!Idle.all
        BY DEF Evaluated!Idle
    <2> QED BY <2>1, <2>2, Zenon DEF Progress
<1>4. CASE ~Evaluated!Dies
    <2>1. Progress(run[d], Evaluated!Load')
        BY <1>2, <1>4, ProgressStays
    <2>2. CASE run' = run
        BY <2>1, <2>2
    <2>3. ASSUME NEW c \in Clients, NEW rec, run' = [run EXCEPT ![c] = rec], GoesOn(c, rec)
          PROVE  Progress(run'[d], Evaluated!Load')
        <3>1. run'[d] = IF d = c THEN rec ELSE run[d]
            BY <1>2, <2>3, Zenon DEF Evaluated!TypeOK
        <3>2. Progress(rec, Evaluated!Load')
            BY <1>1, <1>2, <1>4, <2>3, ProgressGoesOn
        <3> QED BY <2>1, <3>1, <3>2, Zenon
    <2>4. ASSUME NEW c \in Clients,
                 \/ Evaluated!RunAll(c) \/ Evaluated!Fails(c)
                 \/ \E i \in Evaluated!Ids : Evaluated!Run(c, i)
                 \/ \E o \in Outcomes : Evaluated!Answered(c, o) \/ Evaluated!Turn(c, o)
          PROVE  Progress(run'[d], Evaluated!Load')
        <3>1. PICK rec : run' = [run EXCEPT ![c] = rec] /\ GoesOn(c, rec)
            BY <1>2, <2>4, RunChanges
        <3> QED BY <2>3, <3>1
    <2>5. CASE \E i \in Evaluated!Ids, g \in Grades : Evaluated!UpdateResult(i, g)
        BY <2>2, <2>5, Zenon DEF Evaluated!UpdateResult
    <2> QED BY <1>4, <2>4, <2>5, Zenon DEF Evaluated!Next
<1> QED BY <1>3, <1>4

\* Nobody grades a scenario, and only its last turn stores it.
LEMMA PlayedHolds ==
    ASSUME Evaluated!EvaluationAssumption, EvaluationInv, Evaluated!Next
    PROVE  service' = "day25" => Played(Evaluated!Load')
<1> SUFFICES ASSUME service' = "day25", NEW j \in Evaluated!Ids, Evaluated!Load'[j] # None
             PROVE  Evaluated!Load'[j].grade = None /\ Len(Evaluated!Load'[j].checks) = ScenarioTurns
    BY Zenon DEF Played
<1>1. service = "day25"
    BY Zenon DEF Evaluated!Next, Evaluated!RunAll, Evaluated!Fails, Evaluated!Run, Evaluated!Answered,
       Evaluated!Turn, Evaluated!UpdateResult, Evaluated!Dies
<1>2. Evaluated!TypeOK /\ Played(Evaluated!Load)
    BY <1>1, Zenon DEF EvaluationInv
<1>3. CASE Evaluated!Dies
    <2>1. file' = file \/ file' = Evaluated!Broken
        BY <1>3, Zenon DEF Evaluated!Dies
    <2>2. CASE file' = Evaluated!Broken
        BY <2>2, Zenon DEF Evaluated!Load, Evaluated!Empty
    <2>3. CASE file' = file
        <3>1. Evaluated!Load' = Evaluated!Load
            BY <2>3, Zenon DEF Evaluated!Load
        <3> QED BY <1>2, <3>1, Zenon DEF Played
    <2> QED BY <2>1, <2>2, <2>3
<1>4. CASE UNCHANGED Evaluated!Load
    BY <1>2, <1>4, Zenon DEF Played
<1>5. ASSUME NEW i \in Evaluated!Ids, NEW rec \in Evaluated!Graded, Evaluated!Save(i, rec),
             rec.grade = None, Len(rec.checks) = ScenarioTurns
      PROVE  Evaluated!Load'[j].grade = None /\ Len(Evaluated!Load'[j].checks) = ScenarioTurns
    <2>1. /\ Evaluated!Load' = file' /\ file'[i] = rec
          /\ \A k \in Evaluated!Ids : k # i => file'[k] = Evaluated!Load[k]
        BY <1>2, <1>5, Saved
    <2>2. CASE j = i
        BY <1>5, <2>1, <2>2
    <2>3. CASE j # i
        <3>1. Evaluated!Load'[j] = Evaluated!Load[j]
            BY <2>1, <2>3
        <3> QED BY <1>2, <3>1, Zenon DEF Played
    <2> QED BY <2>2, <2>3
<1> QED BY <1>1, <1>2, <1>3, <1>4, <1>5, FileChanges, Zenon

LEMMA EvaluationStep ==
    ASSUME Evaluated!EvaluationAssumption, EvaluationInv, [Evaluated!Next]_(Evaluated!vars)
    PROVE  EvaluationInv'
<1>1. CASE Evaluated!Next
    <2>1. Evaluated!TypeOK
        BY Zenon DEF EvaluationInv
    <2>2. service' \in Evaluated!Services
        BY <1>1, <2>1, Zenon DEF Evaluated!Next, Evaluated!RunAll, Evaluated!Fails, Evaluated!Run,
           Evaluated!Answered, Evaluated!Turn, Evaluated!UpdateResult, Evaluated!Dies, Evaluated!TypeOK
    <2>3. deaths' \in 0 .. MaxDeaths
        <3>1. CASE Evaluated!Dies
            <4>1. deaths < MaxDeaths /\ deaths' = deaths + 1 /\ deaths \in 0 .. MaxDeaths
                BY <2>1, <3>1, Zenon DEF Evaluated!Dies, Evaluated!TypeOK
            <4>2. MaxDeaths \in Nat
                BY Zenon DEF Evaluated!EvaluationAssumption
            <4> QED BY <4>1, <4>2, SMT
        <3>2. CASE ~Evaluated!Dies
            BY <1>1, <2>1, <3>2, LoadGrows, Zenon DEF Evaluated!TypeOK
        <3> QED BY <3>1, <3>2
    <2>4. file' = Evaluated!Broken \/ file' \in [Evaluated!Ids -> Evaluated!Records]
        <3>1. CASE Evaluated!Dies
            BY <2>1, <3>1, Zenon DEF Evaluated!Dies, Evaluated!TypeOK
        <3>2. CASE ~Evaluated!Dies
            BY <1>1, <2>1, <3>2, LoadGrows, Zenon
        <3> QED BY <3>1, <3>2
    <2>5. run' \in [Clients -> RunRecord]
        BY <1>1, <2>1, RunsTyped
    <2>6. report' \in [Clients -> -1 .. Items] /\ Evaluated!SummaryIsComplete'
        BY <1>1, ReportHolds
    <2>7. Evaluated!TypeOK'
        BY <2>2, <2>3, <2>4, <2>5, <2>6, Zenon DEF Evaluated!TypeOK, RunRecord
    <2>8. service' = "day24" => \A c \in Clients : Progress(run'[c], Evaluated!Load')
        BY <1>1, ProgressHolds
    <2>9. service' = "day25" => Played(Evaluated!Load')
        BY <1>1, PlayedHolds
    <2> QED BY <2>6, <2>7, <2>8, <2>9, Zenon DEF EvaluationInv
<1>2. CASE UNCHANGED Evaluated!vars
    <2>1. service' = service /\ file' = file /\ run' = run /\ report' = report /\ deaths' = deaths
        BY <1>2, Zenon DEF Evaluated!vars
    <2> QED BY <2>1, Zenon DEF EvaluationInv, Evaluated!TypeOK, Evaluated!SummaryIsComplete, Evaluated!Load
<1> QED BY <1>1, <1>2

LEMMA EvaluationInductive == Spec => []EvaluationInv
<1>1. Evaluated!EvaluationAssumption
    BY ServicesConstants DEF ServicesAssumption
<1>2. Init => EvaluationInv
    <2>1. Init => Evaluated!Init
        BY Zenon DEF Init
    <2> QED BY <1>1, <2>1, EvaluationInit
<1>3. [Next]_vars => [Evaluated!Next]_(Evaluated!vars)
    BY Zenon DEF Next, Only, vars, Evaluated!vars, evaluationVars
<1>4. EvaluationInv /\ [Next]_vars => EvaluationInv'
    BY <1>1, <1>3, EvaluationStep
<1> QED BY <1>2, <1>4, PTL DEF Spec

\* A step keeps a grade, unless a person gives another or the process dies.
LEMMA GradeStays ==
    ASSUME Evaluated!EvaluationAssumption, EvaluationInv, Evaluated!Next,
           NEW j \in Evaluated!Ids, Evaluated!GradeOf(j) \notin {None, Evaluated!GradeOf(j)'}
    PROVE  deaths' # deaths \/ \E g \in Grades : Evaluated!UpdateResult(j, g)
<1> DEFINE old == Evaluated!Load[j]
           new == Evaluated!Load'[j]
<1>1. Evaluated!TypeOK /\ (service = "day25" => Played(Evaluated!Load))
    BY Zenon DEF EvaluationInv
<1>2. old # None /\ old.grade # None /\ old.grade # (IF new = None THEN None ELSE new.grade)
    BY Zenon DEF Evaluated!GradeOf
<1>3. CASE Evaluated!Dies
    <2>1. deaths' = deaths + 1 /\ deaths \in 0 .. MaxDeaths
        BY <1>1, <1>3, Zenon DEF Evaluated!Dies, Evaluated!TypeOK
    <2> QED BY <2>1, SMT
<1>4. ASSUME NEW i \in Evaluated!Ids, NEW rec \in Evaluated!Graded, Evaluated!Save(i, rec)
      PROVE  i = j /\ new = rec
    <2>1. /\ Evaluated!Load' = file' /\ file'[i] = rec
          /\ \A k \in Evaluated!Ids : k # i => file'[k] = Evaluated!Load[k]
        BY <1>1, <1>4, Saved
    <2>2. i = j
        <3> SUFFICES ASSUME i # j PROVE FALSE
            OBVIOUS
        <3>1. new = old
            BY <2>1
        <3> HIDE DEF new, old
        <3> QED BY <1>2, <3>1, Zenon
    <2> QED BY <2>1, <2>2
<1>5. ASSUME service = "day24", NEW i \in Evaluated!Ids, NEW rec \in Evaluated!Graded, Evaluated!Save(i, rec),
             Evaluated!Load[i] # None => rec.grade = Evaluated!Load[i].grade
      PROVE  FALSE
    <2>1. i = j /\ new = rec /\ rec # None
        BY <1>1, <1>4, <1>5, Saved
    <2>2. new.grade = old.grade /\ new # None
        BY <1>2, <1>5, <2>1
    <2> HIDE DEF new, old
    <2> QED BY <1>2, <2>2, Zenon
<1>6. service # "day25"
    <2> SUFFICES ASSUME service = "day25" PROVE FALSE
        OBVIOUS
    <2>1. old.grade = None
        BY <1>1, <1>2, Zenon DEF Played
    <2> QED BY <1>2, <2>1
<1>7. CASE UNCHANGED Evaluated!Load
    <2>1. new = old
        BY <1>7
    <2> HIDE DEF new, old
    <2> QED BY <1>2, <2>1, Zenon
<1>8. ASSUME NEW i \in Evaluated!Ids, NEW g \in Grades, NEW rec \in Evaluated!Graded,
             Evaluated!UpdateResult(i, g), Evaluated!Save(i, rec)
      PROVE  \E h \in Grades : Evaluated!UpdateResult(j, h)
    <2>1. i = j
        BY <1>4, <1>8
    <2> QED BY <1>8, <2>1
<1> HIDE DEF old, new
<1> QED BY <1>1, <1>3, <1>5, <1>6, <1>7, <1>8, FileChanges, Zenon

\* Whoever runs, grades or dies in which order: a run keeps the grade a person gave, a
\* summary over everything is complete, and only whole scenarios are results.
THEOREM GradesAreKept == Spec => EvaluationHolds
<1>1. Evaluated!EvaluationAssumption
    BY ServicesConstants DEF ServicesAssumption
<1>2. EvaluationInv => Evaluated!SummaryIsComplete /\ Evaluated!ResultsAreWhole
    BY Zenon DEF EvaluationInv, Evaluated!ResultsAreWhole, Played
<1> DEFINE kept == \A i \in Evaluated!Ids : Evaluated!GradeOf(i) \notin {None, Evaluated!GradeOf(i)'} =>
                       deaths' # deaths \/ \E g \in Grades : Evaluated!UpdateResult(i, g)
<1>3. EvaluationInv /\ [Next]_vars => [kept]_(Evaluated!vars)
    <2>1. [Next]_vars => [Evaluated!Next]_(Evaluated!vars)
        BY Zenon DEF Next, Only, vars, Evaluated!vars, evaluationVars
    <2>2. EvaluationInv /\ Evaluated!Next => kept
        BY <1>1, GradeStays
    <2> QED BY <2>1, <2>2, Zenon
<1>4. Spec => [][kept]_(Evaluated!vars)
    <2>1. Spec => [][Next]_vars
        BY PTL DEF Spec
    <2> HIDE DEF kept
    <2> QED BY <1>3, <2>1, EvaluationInductive, PTL
<1>5. Spec => Evaluated!GradesSurvive
    BY <1>4 DEF Evaluated!GradesSurvive
<1>6. Spec => []Evaluated!SummaryIsComplete /\ []Evaluated!ResultsAreWhole
    BY <1>2, EvaluationInductive, PTL
<1> QED BY <1>5, <1>6 DEF EvaluationHolds

----------------------------------------------------------------------------
(* Answers.                                                                *)

\* g is made in n steps from base.
Made(S, base, n, step, g) ==
    g \in [0 .. n -> S] /\ g[0] = base /\ \A i \in 1 .. n : g[i] = step[i][g[i - 1]]

\* What is made in steps from a member of S, each of which leads from S to S,
\* exists,
LEMMA StepsExist ==
    ASSUME NEW S, NEW base \in S, NEW n \in Nat, NEW step \in [1 .. n -> [S -> S]]
    PROVE  \E g : Made(S, base, n, step, g)
<1> DEFINE Upto(k, g) == g[0] = base /\ \A i \in 1 .. k : g[i] = step[i][g[i - 1]]
           T == {k \in 0 .. n : ~\E g \in [0 .. k -> S] : Upto(k, g)}
<1>1. \A k \in 1 .. n : \A s \in S : step[k][s] \in S
    OBVIOUS
<1>2. T = {}
    <2> SUFFICES ASSUME T # {} PROVE FALSE
        OBVIOUS
    <2>1. T \subseteq Nat
        OBVIOUS
    <2>2. PICK m \in T : \A k \in T : m <= k
        BY <2>1, LeastNumber
    <2>3. CASE m = 0
        <3>1. [i \in 0 .. 0 |-> base] \in [0 .. 0 -> S] /\ Upto(0, [i \in 0 .. 0 |-> base])
            OBVIOUS
        <3> QED BY <2>2, <2>3, <3>1
    <2>4. CASE m # 0
        <3>1. m \in 1 .. n /\ m - 1 \in 0 .. n /\ ~(m <= m - 1)
            BY <2>2, <2>4
        <3>2. m - 1 \notin T
            BY <2>2, <3>1
        <3>3. PICK g \in [0 .. m - 1 -> S] : Upto(m - 1, g)
            BY <3>1, <3>2
        <3> DEFINE h == [i \in 0 .. m |-> IF i = m THEN step[m][g[m - 1]] ELSE g[i]]
        <3>4. step[m][g[m - 1]] \in S
            BY <1>1, <3>1, <3>3
        <3>5. h \in [0 .. m -> S]
            BY <3>1, <3>3, <3>4
        <3>6. h[0] = base
            BY <2>4, <3>1, <3>3
        <3>7. \A i \in 1 .. m : h[i] = step[i][h[i - 1]]
            <4> TAKE i \in 1 .. m
            <4>1. i - 1 \in 0 .. m /\ i - 1 # m /\ h[i - 1] = g[i - 1]
                BY <3>1
            <4>2. CASE i = m
                BY <4>1, <4>2
            <4>3. CASE i # m
                <5>1. i \in 1 .. m - 1 /\ i \in 0 .. m
                    BY <3>1, <4>3
                <5>2. g[i] = step[i][g[i - 1]]
                    BY <3>3, <5>1
                <5>3. h[i] = g[i]
                    BY <4>3, <5>1
                <5> QED BY <4>1, <5>2, <5>3
            <4> QED BY <4>2, <4>3
        <3> HIDE DEF h
        <3>8. Upto(m, h)
            BY <3>6, <3>7
        <3> QED BY <2>2, <3>5, <3>8
    <2> QED BY <2>3, <2>4
<1>3. n \notin T /\ n \in 0 .. n
    BY <1>2
<1>4. PICK g \in [0 .. n -> S] : Upto(n, g)
    BY <1>3
<1> QED BY <1>4, Zenon DEF Made

\* and stays in S.
LEMMA StepsKeep ==
    ASSUME NEW S, NEW n \in Nat, NEW f, f[0] \in S,
           \A i \in 1 .. n : f[i - 1] \in S => f[i] \in S
    PROVE  \A i \in 0 .. n : f[i] \in S
<1> DEFINE T == {i \in 0 .. n : f[i] \notin S}
<1> SUFFICES ASSUME T # {} PROVE FALSE
    OBVIOUS
<1>1. T \subseteq Nat
    OBVIOUS
<1>2. PICK m \in T : \A i \in T : m <= i
    BY <1>1, LeastNumber
<1>3. m # 0 /\ m \in 1 .. n /\ m - 1 \in 0 .. n /\ ~(m <= m - 1)
    BY <1>2
<1>4. m - 1 \notin T
    BY <1>2, <1>3
<1>5. f[m - 1] \in S
    BY <1>3, <1>4
<1> QED BY <1>2, <1>3, <1>5

\* A list of candidates that has each chunk once.
Distinct(list) ==
    \A i, j \in 1 .. Len(list) : list[i].chunk = list[j].chunk => i = j

\* The first k of a finite set are at most k.
LEMMA FirstAreFew ==
    ASSUME NEW S, IsFiniteSet(S), NEW k \in Nat,
           NEW hits \in [1 .. Grounding!Min({k, Cardinality(S)}) -> S]
    PROVE  hits \in Seq(S) /\ Len(hits) <= k
<1> DEFINE c == Cardinality(S)
           n == Grounding!Min({k, c})
<1>1. c \in Nat
    BY FS_CardinalityType, Zenon
<1>2. n \in {k, c} /\ n <= k
    <2> HIDE DEF c
    <2> QED BY <1>1 DEF Grounding!Min
<1>3. n \in Nat
    BY <1>1, <1>2
<1> HIDE DEF n, c
<1>4. hits \in [1 .. n -> S]
    BY DEF n, c
<1> QED BY <1>2, <1>3, <1>4

\* A function has no more values than arguments.
LEMMA ValuesAreFew ==
    ASSUME NEW S, NEW f, f \in [S -> {f[x] : x \in S}], IsFiniteSet(S)
    PROVE  IsFiniteSet({f[x] : x \in S}) /\ Cardinality({f[x] : x \in S}) <= Cardinality(S)
<1> DEFINE V == {f[x] : x \in S}
<1>1. f \in [S -> V] /\ \A v \in V : \E x \in S : f[x] = v
    BY Zenon
<1> HIDE DEF V
<1>2. f \in Surjection(S, V)
    BY <1>1, Zenon DEF Surjection
<1>3. IsFiniteSet(V) /\ Cardinality(V) <= Cardinality(S)
    BY <1>2, FS_Surjection
<1> QED BY <1>3 DEF V

\* Both ways to search give candidates, each chunk once.
LEMMA SearchIs ==
    ASSUME Grounding!GroundingAssumption, NEW score \in [Chunks -> Scores], NEW k \in Nat,
           NEW hits \in Grounding!Search(score, k)
    PROVE  hits \in Seq(Grounding!Candidate) /\ Len(hits) <= k /\ Distinct(hits)
<1> DEFINE S == {[chunk |-> c, score |-> score[c]] : c \in Chunks}
<1>1. /\ hits \in [1 .. Grounding!Min({k, Grounding!Cardinality(S)}) -> S]
      /\ \A i, j \in DOMAIN hits : i < j => hits[i] # hits[j]
    BY Zenon DEF Grounding!Search, Grounding!Ranked
<1>2. IsFiniteSet(S)
    <2>1. IsFiniteSet(Chunks)
        BY Zenon DEF Grounding!GroundingAssumption, Grounding!IsFiniteSet, IsFiniteSet
    <2> DEFINE f == [c \in Chunks |-> [chunk |-> c, score |-> score[c]]]
    <2>2. f \in [Chunks -> S] /\ S = {f[c] : c \in Chunks}
        OBVIOUS
    <2> HIDE DEF f, S
    <2>3. f \in [Chunks -> {f[c] : c \in Chunks}]
        BY <2>2
    <2>4. IsFiniteSet({f[c] : c \in Chunks})
        BY <2>1, <2>3, ValuesAreFew
    <2> QED BY <2>2, <2>4
<1>3. S \subseteq Grounding!Candidate
    BY DEF Grounding!Candidate
<1>4. \A a, b \in S : a.chunk = b.chunk => a = b
    OBVIOUS
<1> HIDE DEF S
<1>5. Grounding!Cardinality(S) = Cardinality(S)
    BY Zenon DEF Grounding!Cardinality, Cardinality, Grounding!IsFiniteSet, IsFiniteSet
<1>6. hits \in Seq(S) /\ Len(hits) <= k
    BY <1>1, <1>2, <1>5, FirstAreFew
<1>7. Distinct(hits)
    <2> SUFFICES ASSUME NEW i \in 1 .. Len(hits), NEW j \in 1 .. Len(hits),
                        hits[i].chunk = hits[j].chunk PROVE i = j
        BY Zenon DEF Distinct
    <2>1. hits[i] = hits[j]
        BY <1>4, <1>6
    <2>2. i \in DOMAIN hits /\ j \in DOMAIN hits /\ i \in Nat /\ j \in Nat
        BY <1>6
    <2>3. ~(i < j) /\ ~(j < i)
        BY <1>1, <2>1, <2>2, Zenon
    <2> QED BY <2>2, <2>3
<1>8. hits \in Seq(Grounding!Candidate)
    BY <1>3, <1>6
<1> QED BY <1>6, <1>7, <1>8

LEMMA MergedIs ==
    ASSUME Grounding!GroundingAssumption, NEW primary \in Seq(Grounding!Candidate),
           NEW secondary \in Seq(Grounding!Candidate),
           NEW hits \in Grounding!Merged(primary, secondary)
    PROVE  hits \in Seq(Grounding!Candidate) /\ Distinct(hits)
<1> DEFINE both == primary \o secondary
           found == {both[i] : i \in 1 .. Len(both)}
           best == {c \in Grounding!Range(both) : \A d \in Grounding!Range(both) :
                        d.chunk = c.chunk => d.score <= c.score}
<1>1. /\ hits \in [1 .. Grounding!Min({RetrievalTopK, Grounding!Cardinality(best)}) -> best]
      /\ \A i, j \in DOMAIN hits : i < j => hits[i] # hits[j]
    BY Zenon DEF Grounding!Merged, Grounding!Ranked
<1>2. both \in Seq(Grounding!Candidate)
    OBVIOUS
<1> HIDE DEF both
<1>3. Grounding!Range(both) = found /\ found \subseteq Grounding!Candidate
    BY <1>2 DEF Grounding!Range
<1>4. IsFiniteSet(best)
    <2>1. IsFiniteSet(1 .. Len(both))
        BY <1>2, FS_Interval
    <2>2. both \in [1 .. Len(both) -> found]
        BY <1>2
    <2>3. IsFiniteSet(found)
        BY <2>1, <2>2, ValuesAreFew
    <2>4. best \subseteq found
        BY <1>3
    <2> HIDE DEF best, found
    <2> QED BY <2>3, <2>4, FS_Subset
<1>5. \A a, b \in best : a.chunk = b.chunk => a = b
    <2> TAKE a, b \in best
    <2> HAVE a.chunk = b.chunk
    <2>1. a.score <= b.score /\ b.score <= a.score
        BY <1>3
    <2>2. a \in Grounding!Candidate /\ b \in Grounding!Candidate
        BY <1>3
    <2>3. a.score \in Nat /\ b.score \in Nat
        BY <2>2 DEF Grounding!Candidate, Grounding!GroundingAssumption
    <2>4. a.score = b.score
        BY <2>1, <2>3
    <2> QED BY <2>2, <2>4 DEF Grounding!Candidate
<1>6. best \subseteq Grounding!Candidate
    BY <1>3
<1> HIDE DEF best
<1>7. Grounding!Cardinality(best) = Cardinality(best)
    BY Zenon DEF Grounding!Cardinality, Cardinality, Grounding!IsFiniteSet, IsFiniteSet
<1>8. RetrievalTopK \in Nat
    BY DEF Grounding!GroundingAssumption
<1>9. hits \in Seq(best)
    BY <1>1, <1>4, <1>7, <1>8, FirstAreFew
<1>10. Distinct(hits)
    <2> SUFFICES ASSUME NEW i \in 1 .. Len(hits), NEW j \in 1 .. Len(hits),
                        hits[i].chunk = hits[j].chunk PROVE i = j
        BY Zenon DEF Distinct
    <2>1. hits[i] = hits[j]
        BY <1>5, <1>9
    <2>2. i \in DOMAIN hits /\ j \in DOMAIN hits /\ i \in Nat /\ j \in Nat
        BY <1>9
    <2>3. ~(i < j) /\ ~(j < i)
        BY <1>1, <2>1, <2>2, Zenon
    <2> QED BY <2>2, <2>3
<1> QED BY <1>6, <1>9, <1>10

\* A chunk that is selected was accepted, or is next to one that was and expands.
Backed(chunk, accepted) ==
    \E r \in Grounding!Range(accepted) :
        r.chunk = chunk \/ (Grounding!Expands(r) /\ chunk \in Grounding!Range(Neighbors[r.chunk]))

Selections(accepted) ==
    {s \in [chosen : Seq(Grounding!Candidate), added : Nat] :
        /\ Len(s.chosen) <= FinalTopK /\ Distinct(s.chosen)
        /\ \A i \in 1 .. Len(s.chosen) : Backed(s.chosen[i].chunk, accepted)}

\* One more chunk, which is not there yet.
LEMMA OneMore ==
    ASSUME Grounding!GroundingAssumption, NEW accepted, NEW s \in Selections(accepted),
           NEW c \in Grounding!Candidate, NEW k \in Nat, Len(s.chosen) < FinalTopK,
           c.chunk \notin {d.chunk : d \in Grounding!Range(s.chosen)}, Backed(c.chunk, accepted)
    PROVE  [chosen |-> Append(s.chosen, c), added |-> k] \in Selections(accepted)
<1> DEFINE list == s.chosen
           more == Append(list, c)
<1>1. /\ list \in Seq(Grounding!Candidate) /\ Len(list) <= FinalTopK /\ Distinct(list)
      /\ \A i \in 1 .. Len(list) : Backed(list[i].chunk, accepted)
    BY SMT DEF Selections
<1>2. \A i \in 1 .. Len(list) : list[i].chunk # c.chunk
    BY <1>1 DEF Grounding!Range
<1> HIDE DEF list
<1>3. /\ more \in Seq(Grounding!Candidate) /\ Len(more) = Len(list) + 1
      /\ more[Len(more)] = c /\ \A i \in 1 .. Len(list) : more[i] = list[i]
    BY <1>1
<1> HIDE DEF more
<1>4. \A i \in 1 .. Len(more) : i \in 1 .. Len(list) \/ i = Len(more)
    BY <1>1, <1>3
<1>5. Distinct(more)
    <2> SUFFICES ASSUME NEW i \in 1 .. Len(more), NEW j \in 1 .. Len(more),
                        more[i].chunk = more[j].chunk PROVE i = j
        BY Zenon DEF Distinct
    <2> QED BY <1>1, <1>2, <1>3, <1>4, Zenon DEF Distinct
<1>6. \A i \in 1 .. Len(more) : Backed(more[i].chunk, accepted)
    BY <1>1, <1>3, <1>4, Zenon
<1>7. Len(more) <= FinalTopK
    BY <1>1, <1>3 DEF list, Grounding!GroundingAssumption
<1>8. [chosen |-> more, added |-> k] \in [chosen : Seq(Grounding!Candidate), added : Nat]
    BY <1>3
<1>9. [chosen |-> more, added |-> k].chosen = more
    OBVIOUS
<1> HIDE DEF Distinct, Backed
<1>10. [chosen |-> more, added |-> k] \in Selections(accepted)
    BY <1>5, <1>6, <1>7, <1>8, <1>9, Zenon DEF Selections
<1> QED BY <1>10 DEF more, list

LEMMA AddNeighborKeeps ==
    ASSUME Grounding!GroundingAssumption, NEW accepted, NEW s \in Selections(accepted),
           NEW anchor \in Grounding!Candidate, anchor \in Grounding!Range(accepted),
           Grounding!Expands(anchor), NEW chunk \in Chunks,
           chunk \in Grounding!Range(Neighbors[anchor.chunk])
    PROVE  Grounding!AddNeighbor(s, anchor, chunk) \in Selections(accepted)
<1> DEFINE c == [chunk |-> chunk, score |-> anchor.score]
           there == {d.chunk : d \in Grounding!Range(s.chosen)}
           full == Len(s.chosen) >= FinalTopK \/ s.added >= MaxNeighbors \/ chunk \in there
<1>1. c \in Grounding!Candidate /\ c.chunk = chunk
    BY DEF Grounding!Candidate
<1>2. Backed(chunk, accepted)
    BY Zenon DEF Backed
<1>3. Grounding!AddNeighbor(s, anchor, chunk) =
          IF full THEN s ELSE [chosen |-> Append(s.chosen, c), added |-> s.added + 1]
    BY Zenon DEF Grounding!AddNeighbor
<1>4. s.added + 1 \in Nat /\ Len(s.chosen) \in Nat /\ FinalTopK \in Nat
    BY SMT DEF Selections, Grounding!GroundingAssumption
<1> HIDE DEF c
<1>5. CASE ~full
    <2>1. Len(s.chosen) < FinalTopK
        BY <1>4, <1>5
    <2>2. c.chunk \notin {d.chunk : d \in Grounding!Range(s.chosen)}
        BY <1>1, <1>5, Zenon
    <2>3. Backed(c.chunk, accepted)
        BY <1>1, <1>2
    <2>4. [chosen |-> Append(s.chosen, c), added |-> s.added + 1] \in Selections(accepted)
        BY <1>1, <1>4, <2>1, <2>2, <2>3, OneMore
    <2> QED BY <1>3, <1>5, <2>4, Zenon
<1> QED BY <1>3, <1>5, Zenon

LEMMA AddNeighborsKeep ==
    ASSUME Grounding!GroundingAssumption, NEW accepted, NEW s \in Selections(accepted),
           NEW anchor \in Grounding!Candidate, anchor \in Grounding!Range(accepted),
           Grounding!Expands(anchor)
    PROVE  Grounding!AddNeighbors(s, anchor) \in Selections(accepted)
<1> DEFINE S == Selections(accepted)
           pages == Neighbors[anchor.chunk]
           n == Len(pages)
           Add(t, i) == Grounding!AddNeighbor(t, anchor, pages[i])
           step == [i \in 1 .. n |-> [t \in S |-> Add(t, i)]]
           after[i \in 0 .. n] == IF i = 0 THEN s ELSE Add(after[i - 1], i)
<1>1. pages \in Seq(Chunks)
    BY DEF Grounding!GroundingAssumption, Grounding!Candidate
<1>2. n \in Nat /\ \A i \in 1 .. n : pages[i] \in Chunks /\ pages[i] \in Grounding!Range(pages)
    BY <1>1 DEF Grounding!Range
<1> HIDE DEF pages
<1>3. \A t \in S, i \in 1 .. n : Add(t, i) \in S
    BY <1>2, AddNeighborKeeps, Zenon DEF pages
<1> HIDE DEF S, n
<1>4. step \in [1 .. n -> [S -> S]] /\ \A t \in S, i \in 1 .. n : step[i][t] = Add(t, i)
    <2> HIDE DEF Add
    <2> QED BY <1>3
<1> HIDE DEF step
<1>5. s \in S
    BY DEF S
<1>6. PICK g : Made(S, s, n, step, g)
    BY <1>2, <1>4, <1>5, StepsExist
<1>7. g = [i \in 0 .. n |-> IF i = 0 THEN s ELSE Add(g[i - 1], i)]
    <2> HIDE DEF Add
    <2>1. \A i \in 0 .. n : i # 0 => i \in 1 .. n /\ i - 1 \in 0 .. n
        BY <1>2
    <2>2. \A i \in 0 .. n : g[i] = IF i = 0 THEN s ELSE Add(g[i - 1], i)
        BY <1>4, <1>6, <2>1 DEF Made
    <2> QED BY <1>6, <2>2 DEF Made
<1>8. after = [i \in 0 .. n |-> IF i = 0 THEN s ELSE Add(after[i - 1], i)]
    <2> HIDE DEF Add
    <2> QED BY <1>7, Zenon DEF after
<1> HIDE DEF after
<1>9. after[0] = s /\ \A i \in 1 .. n : after[i] = Add(after[i - 1], i)
    <2> HIDE DEF Add
    <2>1. 0 \in 0 .. n /\ \A i \in 1 .. n : i \in 0 .. n /\ i # 0
        BY <1>2
    <2> QED BY <1>8, <2>1, Zenon
<1>10. after[n] \in S
    <2>1. \A i \in 1 .. n : after[i - 1] \in S => after[i] \in S
        BY <1>3, <1>9, Zenon
    <2>2. \A i \in 0 .. n : after[i] \in S
        BY <1>2, <1>5, <1>9, <2>1, StepsKeep
    <2> QED BY <1>2, <2>2
<1>11. Grounding!AddNeighbors(s, anchor) = after[n]
    BY Zenon DEF Grounding!AddNeighbors, after, n, pages
<1> QED BY <1>10, <1>11 DEF S

LEMMA AddCandidateKeeps ==
    ASSUME Grounding!GroundingAssumption, NEW accepted, NEW s \in Selections(accepted),
           NEW c \in Grounding!Candidate, c \in Grounding!Range(accepted)
    PROVE  Grounding!AddCandidate(s, c) \in Selections(accepted)
<1> DEFINE there == {d.chunk : d \in Grounding!Range(s.chosen)}
           with == [s EXCEPT !.chosen = Append(@, c)]
           own == IF c.chunk \in there THEN s ELSE with
<1>1. Grounding!AddCandidate(s, c) =
          IF Len(s.chosen) >= FinalTopK THEN s
          ELSE IF Grounding!Expands(c) THEN Grounding!AddNeighbors(own, c) ELSE own
    BY Zenon DEF Grounding!AddCandidate
<1>2. s.added \in Nat /\ Len(s.chosen) \in Nat /\ FinalTopK \in Nat
    BY SMT DEF Selections, Grounding!GroundingAssumption
<1>3. ASSUME ~(Len(s.chosen) >= FinalTopK) PROVE own \in Selections(accepted)
    <2>1. Len(s.chosen) < FinalTopK
        BY <1>2, <1>3
    <2>2. Backed(c.chunk, accepted)
        BY Zenon DEF Backed
    <2>3. ASSUME c.chunk \notin there
          PROVE  [chosen |-> Append(s.chosen, c), added |-> s.added] \in Selections(accepted)
        BY <1>2, <2>1, <2>2, <2>3, OneMore
    <2>4. with = [chosen |-> Append(s.chosen, c), added |-> s.added]
        <3> DEFINE C == Seq(Grounding!Candidate)
                   list == Append(s.chosen, c)
        <3>1. s \in [chosen : C, added : Nat]
            BY DEF Selections
        <3> HIDE DEF C, list
        <3>2. [s EXCEPT !.chosen = list] = [chosen |-> list, added |-> s.added]
            BY <3>1, SMT
        <3> QED BY <3>2 DEF list
    <2> HIDE DEF there, with
    <2> QED BY <2>3, <2>4, Zenon
<1> HIDE DEF own
<1> QED BY <1>1, <1>3, AddNeighborsKeep, Zenon

\* What is selected is a few chunks, each once and each with a reason.
LEMMA SelectedIs ==
    ASSUME Grounding!GroundingAssumption, NEW accepted \in Seq(Grounding!Candidate)
    PROVE  LET picked == Grounding!Selected(accepted) IN
           /\ picked \in Seq(Grounding!Candidate) /\ Len(picked) <= FinalTopK /\ Distinct(picked)
           /\ \A i \in 1 .. Len(picked) : Backed(picked[i].chunk, accepted)
<1> DEFINE S == Selections(accepted)
           n == Len(accepted)
           s == [chosen |-> <<>>, added |-> 0]
           Add(t, i) == Grounding!AddCandidate(t, accepted[i])
           step == [i \in 1 .. n |-> [t \in S |-> Add(t, i)]]
           after[i \in 0 .. n] == IF i = 0 THEN s ELSE Add(after[i - 1], i)
<1>1. /\ n \in Nat /\ \A i \in 1 .. n : /\ accepted[i] \in Grounding!Candidate
                                        /\ accepted[i] \in Grounding!Range(accepted)
    BY DEF Grounding!Range
<1>2. \A t \in S, i \in 1 .. n : Add(t, i) \in S
    BY <1>1, AddCandidateKeeps, Zenon
<1>3. s \in S
    <2>1. s \in [chosen : Seq(Grounding!Candidate), added : Nat]
        OBVIOUS
    <2>2. s.chosen = <<>> /\ Len(s.chosen) = 0 /\ 1 .. Len(s.chosen) = {}
        OBVIOUS
    <2>3. Len(s.chosen) <= FinalTopK
        BY <2>2 DEF Grounding!GroundingAssumption
    <2> HIDE DEF s
    <2> QED BY <2>1, <2>2, <2>3, Zenon DEF Selections, Distinct
<1> HIDE DEF S, n, s
<1>4. step \in [1 .. n -> [S -> S]] /\ \A t \in S, i \in 1 .. n : step[i][t] = Add(t, i)
    <2> HIDE DEF Add
    <2> QED BY <1>2
<1> HIDE DEF step
<1>5. PICK g : Made(S, s, n, step, g)
    BY <1>1, <1>3, <1>4, StepsExist
<1>6. g = [i \in 0 .. n |-> IF i = 0 THEN s ELSE Add(g[i - 1], i)]
    <2> HIDE DEF Add
    <2>1. \A i \in 0 .. n : i # 0 => i \in 1 .. n /\ i - 1 \in 0 .. n
        BY <1>1
    <2>2. \A i \in 0 .. n : g[i] = IF i = 0 THEN s ELSE Add(g[i - 1], i)
        BY <1>4, <1>5, <2>1 DEF Made
    <2> QED BY <1>5, <2>2 DEF Made
<1>7. after = [i \in 0 .. n |-> IF i = 0 THEN s ELSE Add(after[i - 1], i)]
    <2> HIDE DEF Add
    <2> QED BY <1>6, Zenon DEF after
<1> HIDE DEF after
<1>8. after[0] = s /\ \A i \in 1 .. n : after[i] = Add(after[i - 1], i)
    <2> HIDE DEF Add
    <2>1. 0 \in 0 .. n /\ \A i \in 1 .. n : i \in 0 .. n /\ i # 0
        BY <1>1
    <2> QED BY <1>7, <2>1, Zenon
<1>9. after[n] \in S
    <2>1. \A i \in 1 .. n : after[i - 1] \in S => after[i] \in S
        BY <1>2, <1>8, Zenon
    <2>2. \A i \in 0 .. n : after[i] \in S
        BY <1>1, <1>3, <1>8, <2>1, StepsKeep
    <2> QED BY <1>1, <2>2
<1>10. Grounding!Selected(accepted) = after[n].chosen
    BY Zenon DEF Grounding!Selected, after, n, s
<1>11. /\ after[n].chosen \in Seq(Grounding!Candidate) /\ Len(after[n].chosen) <= FinalTopK
       /\ Distinct(after[n].chosen)
       /\ \A i \in 1 .. Len(after[n].chosen) : Backed(after[n].chosen[i].chunk, accepted)
    <2>1. after[n] \in [chosen : Seq(Grounding!Candidate), added : Nat]
        BY <1>9, Zenon DEF S, Selections
    <2>2. after[n].chosen \in Seq(Grounding!Candidate)
        BY <2>1
    <2> QED BY <1>9, <2>2, Zenon DEF S, Selections
<1> QED BY <1>10, <1>11, Zenon

LEMMA UpToIs ==
    ASSUME NEW n \in Nat
    PROVE  IsFiniteSet(1 .. n) /\ Cardinality(1 .. n) = n
<1>1. /\ IsFiniteSet(1 .. n)
      /\ Cardinality(1 .. n) = IF 1 > n THEN 0 ELSE n - 1 + 1
    BY FS_Interval, SMT
<1> QED BY <1>1, SMT

\* A part of a list: some of its candidates, each chunk once.
IsPart(part, list, S) ==
    /\ part \in Seq(Grounding!Candidate) /\ Distinct(part)
    /\ \A k \in 1 .. Len(part) :
          part[k] \in S /\ \E i \in 1 .. Len(list) : part[k] = list[i]

LEMMA PartIsDistinct ==
    ASSUME NEW list \in Seq(Grounding!Candidate), Distinct(list), NEW S
    PROVE  IsPart(Grounding!Kept(list, S), list, S)
<1> DEFINE part == Kept(list, S)
<1>1. Grounding!Kept(list, S) = part
    BY DEF Grounding!Kept, Kept, Grounding!Cardinality, Cardinality
<1>2. PICK at_ \in [1 .. Len(part) -> 1 .. Len(list)] :
          /\ part \in Seq(Grounding!Candidate)
          /\ \A k \in 1 .. Len(part) : part[k] = list[at_[k]] /\ part[k] \in S
          /\ \A k, l \in 1 .. Len(part) : k < l => at_[k] < at_[l]
    BY KeptIsInOrder, Zenon
<1> HIDE DEF part
<1>3. Distinct(part)
    <2> SUFFICES ASSUME NEW k \in 1 .. Len(part), NEW l \in 1 .. Len(part),
                        part[k].chunk = part[l].chunk PROVE k = l
        BY Zenon DEF Distinct
    <2>1. at_[k] \in 1 .. Len(list) /\ at_[l] \in 1 .. Len(list)
        BY <1>2
    <2>2. at_[k] = at_[l]
        BY <1>2, <2>1, Zenon DEF Distinct
    <2>3. ~(k < l) /\ ~(l < k)
        BY <1>2, <2>1, <2>2, SMT
    <2> QED BY <1>2, <2>3, SMT
<1> QED BY <1>1, <1>2, <1>3, Zenon DEF IsPart

\* What the model gets to see has been selected and was found, each chunk once.
LEMMA PreparedIs ==
    ASSUME Grounding!GroundingAssumption, NEW candidates \in Seq(Grounding!Candidate),
           Distinct(candidates), Grounding!Prepared(candidates)
    PROVE  /\ retrieved' \in Seq(Grounding!Candidate) /\ used' \subseteq Chunks
           /\ context' \in Seq(Chunks) /\ Len(context') <= FinalTopK
           /\ Grounding!Range(context') \subseteq used'
           /\ \A c \in Grounding!Range(context') : \E r \in Grounding!Range(retrieved') :
                 /\ r.score >= Threshold
                 /\ \/ r.chunk = c
                    \/ /\ mode = "chat" /\ r.score >= ExpansionMin
                       /\ c \in Grounding!Range(Neighbors[r.chunk])
<1> DEFINE good == {c \in Grounding!Candidate : c.score >= Threshold}
           acc == Grounding!Kept(candidates, good)
           picked == Grounding!Selected(acc)
           found == {c.chunk : c \in Grounding!Range(candidates)}
           foreign == {c \in Grounding!Candidate : c.chunk \notin found}
           new == Grounding!Kept(picked, foreign)
           marked == {c.chunk : c \in Grounding!Range(picked)}
           shown_ == {c \in Grounding!Candidate : c.chunk \in marked}
           both == acc \o new
           inC == Grounding!Kept(both, shown_)
<1>1. /\ retrieved' = candidates \o new /\ used' = marked
      /\ context' = [i \in DOMAIN inC |-> inC[i].chunk]
    BY Zenon DEF Grounding!Prepared, Grounding!Accepted
<1>2. /\ acc \in Seq(Grounding!Candidate) /\ Distinct(acc)
      /\ \A k \in 1 .. Len(acc) :
            acc[k] \in good /\ \E i \in 1 .. Len(candidates) : acc[k] = candidates[i]
    <2>1. IsPart(acc, candidates, good)
        BY PartIsDistinct
    <2> HIDE DEF acc, good
    <2> QED BY <2>1, Zenon DEF IsPart
<1> HIDE DEF acc
<1>3. /\ picked \in Seq(Grounding!Candidate) /\ Len(picked) <= FinalTopK /\ Distinct(picked)
      /\ \A i \in 1 .. Len(picked) : Backed(picked[i].chunk, acc)
    BY <1>2, SelectedIs, Zenon
<1> HIDE DEF picked
<1>4. /\ new \in Seq(Grounding!Candidate) /\ Distinct(new)
      /\ \A k \in 1 .. Len(new) :
            new[k] \in foreign /\ \E i \in 1 .. Len(picked) : new[k] = picked[i]
    <2>1. IsPart(new, picked, foreign)
        BY <1>3, PartIsDistinct
    <2> HIDE DEF new, foreign
    <2> QED BY <2>1, Zenon DEF IsPart
<1> HIDE DEF new
<1>5. \A c \in found : \E i \in 1 .. Len(candidates) : candidates[i].chunk = c
    BY DEF Grounding!Range
<1>6. \A i \in 1 .. Len(candidates) : candidates[i].chunk \in found
    BY DEF Grounding!Range
<1>7. \A k \in 1 .. Len(acc) : acc[k].chunk \in found
    BY <1>2, <1>6, Zenon
<1>8. \A k \in 1 .. Len(new) : new[k].chunk \notin found
    BY <1>4, Zenon
<1> HIDE DEF found, foreign
<1>9. /\ both \in Seq(Grounding!Candidate) /\ Len(both) = Len(acc) + Len(new)
      /\ \A i \in 1 .. Len(both) :
            \/ i \in 1 .. Len(acc) /\ both[i] = acc[i]
            \/ i - Len(acc) \in 1 .. Len(new) /\ both[i] = new[i - Len(acc)]
    BY <1>2, <1>4
<1> HIDE DEF both
<1>10. Distinct(both)
    <2> SUFFICES ASSUME NEW i \in 1 .. Len(both), NEW j \in 1 .. Len(both),
                        both[i].chunk = both[j].chunk PROVE i = j
        BY Zenon DEF Distinct
    <2>1. CASE i \in 1 .. Len(acc) /\ both[i] = acc[i] /\ j \in 1 .. Len(acc) /\ both[j] = acc[j]
        BY <1>2, <2>1, Zenon DEF Distinct
    <2>2. CASE /\ i - Len(acc) \in 1 .. Len(new) /\ both[i] = new[i - Len(acc)]
               /\ j - Len(acc) \in 1 .. Len(new) /\ both[j] = new[j - Len(acc)]
        <3>1. i - Len(acc) = j - Len(acc)
            BY <1>4, <2>2, Zenon DEF Distinct
        <3> QED BY <1>2, <3>1
    <2>3. CASE /\ i \in 1 .. Len(acc) /\ both[i] = acc[i]
               /\ j - Len(acc) \in 1 .. Len(new) /\ both[j] = new[j - Len(acc)]
        BY <1>7, <1>8, <2>3, Zenon
    <2>4. CASE /\ j \in 1 .. Len(acc) /\ both[j] = acc[j]
               /\ i - Len(acc) \in 1 .. Len(new) /\ both[i] = new[i - Len(acc)]
        BY <1>7, <1>8, <2>4, Zenon
    <2> QED BY <1>9, <2>1, <2>2, <2>3, <2>4, Zenon
<1>11. /\ inC \in Seq(Grounding!Candidate) /\ Distinct(inC)
       /\ \A k \in 1 .. Len(inC) :
             inC[k] \in shown_ /\ \E i \in 1 .. Len(both) : inC[k] = both[i]
    <2>1. IsPart(inC, both, shown_)
        BY <1>9, <1>10, PartIsDistinct
    <2> HIDE DEF inC, shown_
    <2> QED BY <2>1, Zenon DEF IsPart
<1>12. \A k \in 1 .. Len(inC) : inC[k].chunk \in marked
    BY <1>11, Zenon
<1>13. \A c \in marked : \E i \in 1 .. Len(picked) : picked[i].chunk = c
    BY <1>3 DEF Grounding!Range
<1>14. \A i \in 1 .. Len(picked) : picked[i].chunk \in marked
    BY <1>3 DEF Grounding!Range
<1> HIDE DEF inC, shown_, marked
<1>15. marked \subseteq Chunks
    <2>1. \A i \in 1 .. Len(picked) : picked[i] \in Grounding!Candidate
        BY <1>3
    <2>2. \A c \in Grounding!Candidate : c.chunk \in Chunks
        BY DEF Grounding!Candidate
    <2> QED BY <1>13, <2>1, <2>2, Zenon
<1>16. Len(inC) <= FinalTopK
    <2> DEFINE f == [i \in 1 .. Len(picked) |-> picked[i].chunk]
               h == [k \in 1 .. Len(inC) |-> inC[k].chunk]
    <2>1. f \in [1 .. Len(picked) -> {f[i] : i \in 1 .. Len(picked)}]
        BY Zenon
    <2>2. marked = {f[i] : i \in 1 .. Len(picked)}
        BY <1>13, <1>14
    <2>3. /\ Len(picked) \in Nat /\ IsFiniteSet(1 .. Len(picked))
          /\ Cardinality(1 .. Len(picked)) = Len(picked)
        <3>1. Len(picked) \in Nat
            BY <1>3
        <3> QED BY <3>1, UpToIs
    <2> HIDE DEF f
    <2>4. IsFiniteSet(marked) /\ Cardinality(marked) <= Len(picked)
        BY <2>1, <2>2, <2>3, ValuesAreFew, Zenon
    <2>5. h \in [1 .. Len(inC) -> marked] /\ \A k \in 1 .. Len(inC) : h[k] = inC[k].chunk
        BY <1>12
    <2> HIDE DEF h
    <2>6. h \in Injection(1 .. Len(inC), marked)
        BY <1>11, <2>5, Zenon DEF Injection, IsInjective, Distinct
    <2>7. Cardinality(1 .. Len(inC)) <= Cardinality(marked)
        BY <2>4, <2>6, FS_Injection
    <2>8. Len(inC) \in Nat /\ Cardinality(1 .. Len(inC)) = Len(inC)
        <3>1. Len(inC) \in Nat
            BY <1>11
        <3> QED BY <3>1, UpToIs
    <2>9. Cardinality(marked) \in Nat
        BY <2>4, FS_CardinalityType
    <2> QED BY <1>3, <2>3, <2>4, <2>7, <2>8, <2>9 DEF Grounding!GroundingAssumption
<1>17. /\ context' \in Seq(Chunks) /\ Len(context') = Len(inC)
       /\ \A c \in Grounding!Range(context') : \E k \in 1 .. Len(inC) : c = inC[k].chunk
    <2>1. DOMAIN inC = 1 .. Len(inC) /\ Len(inC) \in Nat
        BY <1>11
    <2>2. \A k \in 1 .. Len(inC) : inC[k].chunk \in Chunks
        BY <1>12, <1>15
    <2> QED BY <1>1, <2>1, <2>2 DEF Grounding!Range
<1>18. Grounding!Range(context') \subseteq used'
    BY <1>1, <1>12, <1>17
<1>19. /\ retrieved' \in Seq(Grounding!Candidate)
       /\ \A i \in 1 .. Len(candidates) : candidates[i] \in Grounding!Range(retrieved')
    <2> DEFINE all == candidates \o new
    <2>1. /\ all \in Seq(Grounding!Candidate)
          /\ \A i \in 1 .. Len(candidates) : i \in DOMAIN all /\ all[i] = candidates[i]
        BY <1>4
    <2>2. retrieved' = all
        BY <1>1
    <2> HIDE DEF all
    <2>3. \A i \in 1 .. Len(candidates) : candidates[i] \in Grounding!Range(all)
        BY <2>1, Zenon DEF Grounding!Range
    <2> QED BY <2>1, <2>2, <2>3
<1>20. ASSUME NEW r \in Grounding!Range(acc)
       PROVE  r \in Grounding!Range(retrieved') /\ r.score >= Threshold
    <2>1. PICK k \in 1 .. Len(acc) : r = acc[k]
        BY <1>2 DEF Grounding!Range
    <2> QED BY <1>2, <1>19, <2>1, Zenon
<1>21. ASSUME NEW c \in Grounding!Range(context')
       PROVE  \E r \in Grounding!Range(acc) :
                 \/ r.chunk = c
                 \/ /\ mode = "chat" /\ r.score >= ExpansionMin
                    /\ c \in Grounding!Range(Neighbors[r.chunk])
    <2>1. PICK k \in 1 .. Len(inC) : c = inC[k].chunk
        BY <1>17
    <2>2. PICK i \in 1 .. Len(both) : inC[k] = both[i]
        BY <1>11
    <2>3. CASE i \in 1 .. Len(acc) /\ both[i] = acc[i]
        <3>1. acc[i] \in Grounding!Range(acc)
            BY <1>2, <2>3 DEF Grounding!Range
        <3> QED BY <2>1, <2>2, <2>3, <3>1, Zenon
    <2>4. CASE i - Len(acc) \in 1 .. Len(new) /\ both[i] = new[i - Len(acc)]
        <3>1. PICK j \in 1 .. Len(picked) : both[i] = picked[j]
            BY <1>4, <2>4
        <3>2. Backed(c, acc)
            BY <1>3, <2>1, <2>2, <3>1
        <3> QED BY <3>2, Zenon DEF Backed, Grounding!Expands
    <2> QED BY <1>9, <2>3, <2>4, Zenon
<1>22. \A c \in Grounding!Range(context') : \E r \in Grounding!Range(retrieved') :
                 /\ r.score >= Threshold
                 /\ \/ r.chunk = c
                    \/ /\ mode = "chat" /\ r.score >= ExpansionMin
                       /\ c \in Grounding!Range(Neighbors[r.chunk])
    BY <1>20, <1>21, Zenon
<1> QED BY <1>1, <1>15, <1>16, <1>17, <1>18, <1>19, <1>22, Zenon

\* What counts as valid is verbatim in a chunk of the context.
LEMMA CitationIs ==
    ASSUME NEW item \in Grounding!Item, context \in Seq(Chunks)
    PROVE  LET c == Grounding!ToCitation(item) IN
           /\ c \in Grounding!Citation
           /\ c.valid => c.chunk \in Grounding!Range(context) /\ c.quote \in Text[c.chunk]
<1> DEFINE ok == Grounding!IsValid(item)
           holders == Grounding!Holders(item.quote)
           moved == ok /\ item.quote \notin Text[item.chunk] /\ Grounding!Resolvable(item)
           at_ == IF moved THEN CHOOSE c \in holders : TRUE ELSE item.chunk
           c == [chunk |-> at_, quote |-> item.quote, valid |-> ok]
<1>1. Grounding!ToCitation(item) = c
    BY Zenon DEF Grounding!ToCitation
<1>2. Grounding!Resolvable(item) => \E d \in holders : TRUE
    <2>1. Cardinality({}) = 0 /\ 0 # 1
        BY FS_EmptySet
    <2>2. Grounding!Cardinality(holders) = Cardinality(holders)
        BY Zenon DEF Grounding!Cardinality, Cardinality, Grounding!IsFiniteSet, IsFiniteSet
    <2> HIDE DEF holders
    <2>3. ASSUME Grounding!Cardinality(holders) = 1 PROVE holders # {}
        BY <2>1, <2>2, <2>3, Zenon
    <2>4. Grounding!Resolvable(item) => Grounding!Cardinality(holders) = 1
        BY Zenon DEF Grounding!Resolvable, holders
    <2> QED BY <2>3, <2>4, Zenon
<1>3. \A d \in holders : d \in Grounding!Range(context) /\ item.quote \in Text[d]
    BY Zenon DEF Grounding!Holders
<1>4. ok => /\ item.chunk \in Grounding!Range(context)
            /\ item.quote \in Text[item.chunk] \/ Grounding!Resolvable(item)
    BY Zenon DEF Grounding!IsValid
<1>5. item.chunk \in Chunks \cup {Unknown} /\ item.quote \in Quotes \cup {NoQuote}
    BY DEF Grounding!Item
<1>6. Grounding!Range(context) \subseteq Chunks
    BY DEF Grounding!Range
<1>7. ok \in BOOLEAN
    BY Zenon DEF Grounding!IsValid
<1> HIDE DEF holders, ok
<1>8. at_ \in Chunks \cup {Unknown} /\ (ok => at_ \in Grounding!Range(context) /\ item.quote \in Text[at_])
    <2>1. CASE moved
        <3>1. at_ \in holders
            BY <1>2, <2>1, Zenon
        <3> QED BY <1>3, <1>6, <3>1, Zenon
    <2>2. CASE ~moved
        <3>1. at_ = item.chunk
            BY <2>2
        <3> QED BY <1>4, <1>5, <2>2, <3>1, Zenon
    <2> QED BY <2>1, <2>2
<1> HIDE DEF at_
<1>9. c \in Grounding!Citation
    BY <1>5, <1>7, <1>8, Zenon DEF Grounding!Citation
<1>10. c.chunk = at_ /\ c.quote = item.quote /\ (c.valid <=> ok)
    BY Zenon
<1> HIDE DEF c
<1>11. c.valid => c.chunk \in Grounding!Range(context) /\ c.quote \in Text[c.chunk]
    BY <1>8, <1>10, Zenon
<1> QED BY <1>1, <1>9, <1>11, Zenon

\* The model is asked after retrieval, and the result is known at the end.
GroundingInv ==
    /\ Grounding!TypeOK
    /\ phase # "ended" => status = "none"
    /\ asked => phase \in {"asking", "ended"}
    /\ Grounding!AnsweredIsProved /\ Grounding!ContextIsRelevant

LEMMA GroundingInit == ASSUME Grounding!GroundingAssumption PROVE Grounding!Init => GroundingInv
<1> SUFFICES ASSUME Grounding!Init PROVE GroundingInv
    OBVIOUS
<1>1. /\ mode \in {"plain", "improved", "grounded", "chat"} /\ phase = "start"
      /\ retrieved = <<>> /\ used = {} /\ context = <<>> /\ citations = <<>>
      /\ status = "none" /\ asked = FALSE
    BY Zenon DEF Grounding!Init
<1>2. Grounding!TypeOK
    <2>1. <<>> \in Seq(Grounding!Candidate) /\ <<>> \in Seq(Chunks) /\ <<>> \in Seq(Grounding!Citation)
        OBVIOUS
    <2> QED BY <1>1, <2>1, Zenon DEF Grounding!TypeOK
<1>3. Grounding!Range(<<>>) = {} /\ Len(<<>>) = 0
    BY DEF Grounding!Range
<1>4. Grounding!AnsweredIsProved
    BY <1>1 DEF Grounding!AnsweredIsProved
<1>5. Grounding!ContextIsRelevant
    <2>1. Len(<<>>) <= FinalTopK
        BY <1>3 DEF Grounding!GroundingAssumption
    <2> QED BY <1>1, <1>3, <2>1, Zenon DEF Grounding!ContextIsRelevant
<1> QED BY <1>1, <1>2, <1>4, <1>5, Zenon DEF GroundingInv

\* A step that changes neither what was found nor what is cited.
GoesOnWith ==
    /\ mode' = mode /\ retrieved' = retrieved /\ used' = used
    /\ context' = context /\ citations' = citations
    /\ phase' \in {"start", "rewritten", "retrieved", "asking", "ended"}
    /\ \/ status' \in {"none", "insufficient_context", "grounding_failed", "error"}
       \/ status' = status
       \/ ~Grounding!Grounded /\ status' = "answered"
    /\ phase' # "ended" => status' = "none"
    /\ asked' \in BOOLEAN /\ (asked' => phase' \in {"asking", "ended"})
    /\ asked' => asked \/ (Grounding!Grounded => context # <<>>)

\* Such a step keeps what the answer rests on.
LEMMA AnswerStays ==
    ASSUME GroundingInv, GoesOnWith
    PROVE  GroundingInv'
<1> USE DEF GoesOnWith
<1>1. Grounding!TypeOK /\ Grounding!TypeOK'
    BY Zenon DEF GroundingInv, Grounding!TypeOK
<1>2. Grounding!Grounded' <=> Grounding!Grounded
    BY Zenon DEF Grounding!Grounded
<1>3. Grounding!AnsweredIsProved'
    <2>1. Grounding!Grounded' /\ status' = "answered" => Grounding!Grounded /\ status = "answered"
        BY <1>2
    <2> QED BY <2>1, Zenon DEF GroundingInv, Grounding!AnsweredIsProved
<1>4. Grounding!ContextIsRelevant'
    BY <1>2, Zenon DEF GroundingInv, Grounding!ContextIsRelevant
<1> QED BY <1>1, <1>3, <1>4, Zenon DEF GroundingInv

LEMMA RetrievalHolds ==
    ASSUME Grounding!GroundingAssumption, GroundingInv,
           Grounding!RetrievePlain \/ \E merging \in BOOLEAN : Grounding!RetrieveImproved(merging)
    PROVE  GroundingInv'
<1>1. /\ phase = "rewritten" /\ phase' = "retrieved"
      /\ mode' = mode /\ citations' = citations /\ status' = status /\ asked' = asked
    BY Zenon DEF Grounding!RetrievePlain, Grounding!RetrieveImproved
<1>2. status = "none" /\ ~asked
    BY <1>1 DEF GroundingInv
<1>3. /\ citations \in Seq(Grounding!Citation) /\ asked \in BOOLEAN
      /\ mode \in {"plain", "improved", "grounded", "chat"}
    BY Zenon DEF GroundingInv, Grounding!TypeOK
<1>4. Grounding!AnsweredIsProved'
    <2>1. status' # "answered"
        BY <1>1, <1>2
    <2> QED BY <2>1, Zenon DEF Grounding!AnsweredIsProved
<1>5. RetrievalTopK \in Nat /\ FinalTopK \in Nat
    BY DEF Grounding!GroundingAssumption
<1>6. /\ retrieved' \in Seq(Grounding!Candidate) /\ used' \subseteq Chunks
      /\ context' \in Seq(Chunks) /\ Grounding!ContextIsRelevant'
    <2>1. CASE Grounding!RetrievePlain
        <3>1. mode = "plain" /\ used' = Grounding!Range(context')
            BY <2>1, Zenon DEF Grounding!RetrievePlain
        <3>2. PICK score \in [Chunks -> Scores] : \E hits \in Grounding!Search(score, FinalTopK) :
                  retrieved' = hits /\ context' = [i \in DOMAIN hits |-> hits[i].chunk]
            BY <2>1, Zenon DEF Grounding!RetrievePlain
        <3> PICK hits \in Grounding!Search(score, FinalTopK) :
                  retrieved' = hits /\ context' = [i \in DOMAIN hits |-> hits[i].chunk]
            BY <3>2
        <3>3. hits \in Seq(Grounding!Candidate)
            BY <1>5, SearchIs
        <3>4. \A i \in 1 .. Len(hits) : hits[i].chunk \in Chunks
            <4>1. \A r \in Grounding!Candidate : r.chunk \in Chunks
                BY DEF Grounding!Candidate
            <4>2. \A i \in 1 .. Len(hits) : hits[i] \in Grounding!Candidate
                BY <3>3
            <4> QED BY <4>1, <4>2
        <3>5. context' \in Seq(Chunks)
            BY <3>3, <3>4
        <3>6. Grounding!Range(context') \subseteq Chunks
            BY <3>5 DEF Grounding!Range
        <3>7. Grounding!ContextIsRelevant'
            BY <1>1, <3>1 DEF Grounding!ContextIsRelevant
        <3> QED BY <3>1, <3>3, <3>5, <3>6, <3>7
    <2>2. CASE \E merging \in BOOLEAN : Grounding!RetrieveImproved(merging)
        <3>1. PICK candidates \in Seq(Grounding!Candidate) :
                  Distinct(candidates) /\ Grounding!Prepared(candidates)
            <4>1. PICK merging \in BOOLEAN, score \in [Chunks -> Scores] :
                    \E hits \in Grounding!Search(score, RetrievalTopK) :
                    IF merging
                    THEN \E other \in [Chunks -> Scores] :
                            \E more \in Grounding!Search(other, RetrievalTopK) :
                            \E merged \in Grounding!Merged(hits, more) : Grounding!Prepared(merged)
                    ELSE Grounding!Prepared(hits)
                BY <2>2, Zenon DEF Grounding!RetrieveImproved
            <4>0. PICK hits \in Grounding!Search(score, RetrievalTopK) :
                    IF merging
                    THEN \E other \in [Chunks -> Scores] :
                            \E more \in Grounding!Search(other, RetrievalTopK) :
                            \E merged \in Grounding!Merged(hits, more) : Grounding!Prepared(merged)
                    ELSE Grounding!Prepared(hits)
                BY <4>1, Zenon
            <4>2. hits \in Seq(Grounding!Candidate) /\ Distinct(hits)
                BY <1>5, <4>0, SearchIs
            <4>3. CASE ~merging
                BY <4>0, <4>2, <4>3, Zenon
            <4>4. CASE merging
                <5>1. PICK other \in [Chunks -> Scores] :
                          \E more \in Grounding!Search(other, RetrievalTopK) :
                          \E merged \in Grounding!Merged(hits, more) : Grounding!Prepared(merged)
                    BY <4>0, <4>4, Zenon
                <5>4. PICK more \in Grounding!Search(other, RetrievalTopK) :
                          \E merged \in Grounding!Merged(hits, more) : Grounding!Prepared(merged)
                    BY <5>1, Zenon
                <5>5. PICK merged \in Grounding!Merged(hits, more) : Grounding!Prepared(merged)
                    BY <5>4, Zenon
                <5>2. more \in Seq(Grounding!Candidate)
                    BY <1>5, <5>1, <5>4, SearchIs
                <5>3. merged \in Seq(Grounding!Candidate) /\ Distinct(merged)
                    BY <4>2, <5>2, <5>5, MergedIs
                <5> QED BY <5>3, <5>5, Zenon
            <4> QED BY <4>3, <4>4
        <3> DEFINE Found(c) == \E r \in Grounding!Range(retrieved') :
                 /\ r.score >= Threshold
                 /\ \/ r.chunk = c
                    \/ /\ mode = "chat" /\ r.score >= ExpansionMin
                       /\ c \in Grounding!Range(Neighbors[r.chunk])
        <3>2. /\ retrieved' \in Seq(Grounding!Candidate) /\ used' \subseteq Chunks
              /\ context' \in Seq(Chunks) /\ Len(context') <= FinalTopK
              /\ Grounding!Range(context') \subseteq used'
              /\ \A c \in Grounding!Range(context') : Found(c)
            BY <3>1, PreparedIs, Zenon
        <3>3. Grounding!ContextIsRelevant'
            BY <1>1, <1>2, <3>2, Zenon DEF Grounding!ContextIsRelevant
        <3> QED BY <3>2, <3>3
    <2> QED BY <2>1, <2>2
<1>7. Grounding!TypeOK'
    BY <1>1, <1>2, <1>3, <1>6, Zenon DEF Grounding!TypeOK
<1> QED BY <1>1, <1>2, <1>4, <1>6, <1>7, Zenon DEF GroundingInv

LEMMA ValidateHolds ==
    ASSUME GroundingInv, NEW n \in 1 .. MaxEvidence, MaxEvidence \in Nat,
           NEW items \in [1 .. n -> Grounding!Item],
           NEW malformed \in BOOLEAN, Grounding!Validate(items, malformed)
    PROVE  GroundingInv'
<1> DEFINE all == [i \in DOMAIN items |-> Grounding!ToCitation(items[i])]
           valid == {c \in Grounding!Citation : c.valid}
           proved == Grounding!Kept(all, valid)
<1>1. /\ phase' = "ended" /\ mode' = mode /\ retrieved' = retrieved /\ used' = used
      /\ context' = context /\ asked' = asked /\ Grounding!Grounded
      /\ \/ proved = all /\ citations' = all /\ status' = "answered"
         \/ proved # <<>> /\ citations' = proved /\ status' = "answered"
         \/ citations' = all /\ status' = "grounding_failed"
    BY Zenon DEF Grounding!Validate
<1>2. /\ context \in Seq(Chunks) /\ retrieved \in Seq(Grounding!Candidate) /\ used \subseteq Chunks
      /\ asked \in BOOLEAN /\ mode \in {"plain", "improved", "grounded", "chat"}
    BY Zenon DEF GroundingInv, Grounding!TypeOK
<1>3. n \in Nat /\ n >= 1 /\ DOMAIN items = 1 .. n
    OBVIOUS
<1>4. \A i \in 1 .. n : items[i] \in Grounding!Item
    OBVIOUS
<1>5. \A i \in 1 .. n : /\ Grounding!ToCitation(items[i]) \in Grounding!Citation
                        /\ Grounding!ToCitation(items[i]).valid =>
                              /\ Grounding!ToCitation(items[i]).chunk \in Grounding!Range(context)
                              /\ Grounding!ToCitation(items[i]).quote
                                    \in Text[Grounding!ToCitation(items[i]).chunk]
    BY <1>2, <1>4, CitationIs, Zenon
<1>6. /\ all \in [1 .. n -> Grounding!Citation]
      /\ \A i \in 1 .. n : all[i].valid =>
             all[i].chunk \in Grounding!Range(context) /\ all[i].quote \in Text[all[i].chunk]
    BY <1>3, <1>5, Zenon
<1> HIDE DEF all
<1>7. all \in Seq(Grounding!Citation) /\ Len(all) = n /\ all # <<>>
    BY <1>3, <1>6
<1>8. /\ proved \in Seq(Grounding!Citation)
      /\ \A k \in 1 .. Len(proved) : proved[k].valid /\ \E i \in 1 .. n : proved[k] = all[i]
    <2>1. Grounding!Kept(all, valid) = Kept(all, valid)
        BY DEF Grounding!Kept, Kept, Grounding!Cardinality, Cardinality
    <2> DEFINE kept == Kept(all, valid)
    <2>4. \A c \in valid : c.valid
        BY Zenon
    <2>5. all \in Seq(Grounding!Citation)
        BY <1>7
    <2> HIDE DEF valid
    <2>2. PICK at_ \in [1 .. Len(kept) -> 1 .. Len(all)] :
              /\ kept \in Seq(Grounding!Citation)
              /\ \A k \in 1 .. Len(kept) : kept[k] = all[at_[k]] /\ kept[k] \in valid
              /\ \A k, l \in 1 .. Len(kept) : k < l => at_[k] < at_[l]
        BY <2>5, KeptIsInOrder, Zenon
    <2> HIDE DEF kept
    <2>3. proved = kept
        BY <2>1 DEF kept
    <2> QED BY <1>7, <2>2, <2>3, <2>4, Zenon
<1> HIDE DEF proved, valid
<1>9. \A k \in 1 .. Len(proved) :
          /\ proved[k].valid /\ proved[k].chunk \in Grounding!Range(context)
          /\ proved[k].quote \in Text[proved[k].chunk]
    BY <1>6, <1>8, Zenon
<1>10. \A c \in Grounding!Range(proved) :
           c.valid /\ c.chunk \in Grounding!Range(context) /\ c.quote \in Text[c.chunk]
    <2>1. DOMAIN proved = 1 .. Len(proved)
        BY <1>8
    <2> QED BY <1>9, <2>1, Zenon DEF Grounding!Range
<1>11. citations' \in Seq(Grounding!Citation)
    BY <1>1, <1>7, <1>8
<1>12. status' = "answered" => citations' = proved /\ proved # <<>>
    <2>1. "answered" # "grounding_failed"
        OBVIOUS
    <2> QED BY <1>1, <1>7, <2>1, Zenon
<1>13. Grounding!AnsweredIsProved'
    BY <1>1, <1>10, <1>12, Zenon DEF Grounding!AnsweredIsProved
<1>14. Grounding!ContextIsRelevant'
    BY <1>1, Zenon DEF GroundingInv, Grounding!ContextIsRelevant, Grounding!Grounded
<1>15. Grounding!TypeOK'
    BY <1>1, <1>2, <1>11, Zenon DEF Grounding!TypeOK
<1> QED BY <1>1, <1>13, <1>14, <1>15, Zenon DEF GroundingInv

LEMMA GroundingStep ==
    ASSUME Grounding!GroundingAssumption
    PROVE  GroundingInv /\ [Grounding!Next]_(Grounding!vars) => GroundingInv'
<1> SUFFICES ASSUME GroundingInv, [Grounding!Next]_(Grounding!vars) PROVE GroundingInv'
    OBVIOUS
<1>1. CASE UNCHANGED Grounding!vars
    BY <1>1, Zenon DEF GroundingInv, Grounding!vars, Grounding!TypeOK, Grounding!AnsweredIsProved,
                       Grounding!ContextIsRelevant, Grounding!Grounded
<1>2. /\ asked \in BOOLEAN /\ (phase # "ended" => status = "none")
      /\ (asked => phase \in {"asking", "ended"})
    BY Zenon DEF GroundingInv, Grounding!TypeOK
<1>3. CASE Grounding!Rewrite
    <2>1. GoesOnWith
        BY <1>2, <1>3, Zenon DEF Grounding!Rewrite, GoesOnWith
    <2> QED BY <2>1, AnswerStays
<1>4. CASE \/ Grounding!RetrievalFails \/ Grounding!GenerationFails \/ Grounding!Refuse
           \/ Grounding!AnswerUnusable \/ Grounding!ModelRefuses
    <2>1. /\ UNCHANGED <<mode, retrieved, used, context, citations, asked>> /\ phase' = "ended"
          /\ status' \in {"none", "insufficient_context", "grounding_failed", "error"}
        BY <1>4, Zenon DEF Grounding!RetrievalFails, Grounding!GenerationFails,
               Grounding!Refuse, Grounding!AnswerUnusable, Grounding!ModelRefuses,
               Grounding!Fails
    <2>2. GoesOnWith
        BY <1>2, <2>1, Zenon DEF GoesOnWith
    <2> QED BY <2>2, AnswerStays
<1>5. CASE Grounding!AnswerFreely
    <2>1. GoesOnWith
        BY <1>2, <1>5, Zenon DEF Grounding!AnswerFreely, GoesOnWith
    <2> QED BY <2>1, AnswerStays
<1>6. CASE Grounding!Ask
    <2>1. GoesOnWith
        BY <1>2, <1>6, Zenon DEF Grounding!Ask, Grounding!GatePasses, GoesOnWith
    <2> QED BY <2>1, AnswerStays
<1>7. CASE Grounding!RetrievePlain \/ \E merging \in BOOLEAN : Grounding!RetrieveImproved(merging)
    BY <1>7, RetrievalHolds
<1>8. CASE \E n \in 1 .. MaxEvidence : \E items \in [1 .. n -> Grounding!Item] :
               \E malformed \in BOOLEAN : Grounding!Validate(items, malformed)
    <2>1. PICK n \in 1 .. MaxEvidence : \E items \in [1 .. n -> Grounding!Item] :
               \E malformed \in BOOLEAN : Grounding!Validate(items, malformed)
        BY <1>8, Zenon
    <2>3. PICK items \in [1 .. n -> Grounding!Item], malformed \in BOOLEAN :
               Grounding!Validate(items, malformed)
        BY <2>1, Zenon
    <2>2. MaxEvidence \in Nat
        BY DEF Grounding!GroundingAssumption
    <2> QED BY <2>2, <2>3, ValidateHolds
<1>9. Grounding!Next => \/ Grounding!Rewrite \/ Grounding!RetrievalFails \/ Grounding!GenerationFails
                        \/ Grounding!Refuse \/ Grounding!AnswerUnusable \/ Grounding!ModelRefuses
                        \/ Grounding!AnswerFreely \/ Grounding!Ask \/ Grounding!RetrievePlain
                        \/ \E merging \in BOOLEAN : Grounding!RetrieveImproved(merging)
                        \/ \E n \in 1 .. MaxEvidence : \E items \in [1 .. n -> Grounding!Item] :
                               \E malformed \in BOOLEAN : Grounding!Validate(items, malformed)
    BY Zenon DEF Grounding!Next
<1> QED BY <1>1, <1>3, <1>4, <1>5, <1>6, <1>7, <1>8, <1>9, Zenon

LEMMA GroundingInductive == Spec => []GroundingInv
<1>1. Grounding!GroundingAssumption
    BY ServicesConstants DEF ServicesAssumption
<1>2. Init => GroundingInv
    <2>1. Init => Grounding!Init
        BY Zenon DEF Init
    <2> QED BY <1>1, <2>1, GroundingInit
<1>3. [Next]_vars => [Grounding!Next]_(Grounding!vars)
    BY Zenon DEF Next, Only, vars, Grounding!vars, answerVars
<1>4. GroundingInv /\ [Next]_vars => GroundingInv'
    BY <1>1, <1>3, GroundingStep
<1> QED BY <1>2, <1>4, PTL DEF Spec

\* For every index, every pair of scorings and whatever the model cites: a grounded
\* answer cites only quotes that are verbatim in chunks the model was shown, and every
\* chunk it was shown reached the threshold or is next to one that did
\* (_select_context, the gate and validate_grounding).
THEOREM AnswersHaveGrounds == Spec => []AnswersAreGrounded
<1>1. GroundingInv => AnswersAreGrounded
    BY Zenon DEF GroundingInv, AnswersAreGrounded, Of
<1> QED BY GroundingInductive, <1>1, PTL

----------------------------------------------------------------------------
(* Structural chunks.                                                      *)

\* s adds up w: s[g] is the sum of its first g.
Totals(w, n, s) ==
    s \in [0 .. n -> Nat] /\ s[0] = 0 /\ \A g \in 1 .. n : s[g] = s[g - 1] + w[g]

LEMMA TotalsExist ==
    ASSUME NEW n \in Nat, NEW w \in [1 .. n -> Nat]
    PROVE  \E s : Totals(w, n, s)
<1> DEFINE step == [g \in 1 .. n |-> [x \in Nat |-> x + w[g]]]
<1>1. step \in [1 .. n -> [Nat -> Nat]]
    OBVIOUS
<1>2. \A g \in 1 .. n : \A x \in Nat : step[g][x] = x + w[g]
    OBVIOUS
<1> HIDE DEF step
<1>3. PICK s : Made(Nat, 0, n, step, s)
    BY <1>1, StepsExist
<1>4. s \in [0 .. n -> Nat] /\ s[0] = 0 /\ \A g \in 1 .. n : s[g] = step[g][s[g - 1]]
    BY <1>3, Zenon DEF Made
<1>5. \A g \in 1 .. n : s[g] = s[g - 1] + w[g]
    <2> TAKE g \in 1 .. n
    <2>1. g - 1 \in 0 .. n
        OBVIOUS
    <2>2. s[g - 1] \in Nat
        BY <1>4, <2>1
    <2> QED BY <1>2, <1>4, <2>2
<1> QED BY <1>4, <1>5, Zenon DEF Totals

Begins(v, k, w, n) ==
    w \in [1 .. n -> Nat] /\ v \in [1 .. k -> Nat] /\ \A g \in 1 .. k : v[g] = w[g]

\* The sum of the first k depends on these alone.
LEMMA TotalsAgree ==
    ASSUME NEW n \in Nat, NEW k \in 0 .. n, NEW w, NEW v, Begins(v, k, w, n),
           NEW s, NEW t, Totals(w, n, s), Totals(v, k, t)
    PROVE  s[k] = t[k]
<1> DEFINE f == [g \in 0 .. k |-> s[g] - t[g]]
           Zero == {0}
<1>1. /\ s \in [0 .. n -> Nat] /\ s[0] = 0 /\ \A g \in 1 .. n : s[g] = s[g - 1] + w[g]
      /\ t \in [0 .. k -> Nat] /\ t[0] = 0 /\ \A g \in 1 .. k : t[g] = t[g - 1] + v[g]
    BY Zenon DEF Totals
<1> w \in [1 .. n -> Nat] /\ v \in [1 .. k -> Nat] /\ \A g \in 1 .. k : v[g] = w[g]
    BY Zenon DEF Begins
<1>2. f[0] \in Zero
    BY <1>1
<1>3. \A g \in 1 .. k : f[g - 1] \in Zero => f[g] \in Zero
    <2> TAKE g \in 1 .. k
    <2>1. g \in 0 .. k /\ g - 1 \in 0 .. k /\ g \in 1 .. n /\ g \in 0 .. n /\ g - 1 \in 0 .. n
        OBVIOUS
    <2>2. s[g - 1] \in Nat /\ t[g - 1] \in Nat /\ v[g] \in Nat
        BY <1>1, <2>1
    <2>3. s[g] = s[g - 1] + v[g] /\ t[g] = t[g - 1] + v[g]
        BY <1>1, <2>1
    <2>4. f[g - 1] = s[g - 1] - t[g - 1] /\ f[g] = s[g] - t[g]
        BY <2>1
    <2> QED BY <2>2, <2>3, <2>4
<1>4. k \in Nat /\ \A g \in 0 .. k : f[g] = s[g] - t[g]
    OBVIOUS
<1> HIDE DEF f, Zero
<1>5. \A g \in 0 .. k : f[g] \in Zero
    BY <1>2, <1>3, <1>4, StepsKeep
<1>6. k \in 0 .. k /\ k \in 0 .. n /\ s[k] \in Nat /\ t[k] \in Nat
    BY <1>1, <1>4
<1>7. f[k] = 0 /\ f[k] = s[k] - t[k]
    BY <1>4, <1>5, <1>6 DEF Zero
<1> QED BY <1>6, <1>7

\* What a group adds to what is held of a segment.
Weight(p, i) == IF p.cut /\ p.from = i THEN p.size ELSE 0
Weights(list, i) == [g \in 1 .. Len(list) |-> Weight(list[g], i)]

LEMMA WeightsAre ==
    ASSUME NEW list \in Seq(Structural!Group), NEW i
    PROVE  /\ Weights(list, i) \in [1 .. Len(list) -> Nat]
           /\ \A g \in 1 .. Len(list) : Weights(list, i)[g] = Weight(list[g], i)
<1>1. \A p \in Structural!Group : Weight(p, i) \in Nat
    BY DEF Weight, Structural!Group
<1>2. \A g \in 1 .. Len(list) : list[g] \in Structural!Group
    OBVIOUS
<1> QED BY <1>1, <1>2, Zenon DEF Weights

LEMMA HeldIs ==
    ASSUME NEW list \in Seq(Structural!Group), NEW i, NEW s,
           Totals(Weights(list, i), Len(list), s)
    PROVE  Structural!Held(list, i) = s[Len(list)]
<1> DEFINE n == Len(list)
           Plus(x, g) == x + (IF list[g].cut /\ list[g].from = i THEN list[g].size ELSE 0)
           sum[g \in 0 .. n] == IF g = 0 THEN 0 ELSE Plus(sum[g - 1], g)
           f == [g \in 0 .. n |-> IF sum[g] = s[g] THEN 0 ELSE 1]
           Zero == {0}
<1>1. n \in Nat /\ \A g \in 0 .. n : g # 0 => g \in 1 .. n /\ g - 1 \in 0 .. n
    OBVIOUS
<1>2. /\ s \in [0 .. n -> Nat] /\ s[0] = 0
      /\ \A g \in 1 .. n : s[g] = s[g - 1] + Weights(list, i)[g]
    BY Zenon DEF Totals, n
<1>3. \A g \in 1 .. n : s[g] = Plus(s[g - 1], g)
    <2>1. \A g \in 1 .. n : Weights(list, i)[g] = Weight(list[g], i)
        BY WeightsAre, Zenon
    <2> QED BY <1>2, <2>1, Zenon DEF Weight
<1> HIDE DEF n, Plus
<1>4. s = [g \in 0 .. n |-> IF g = 0 THEN 0 ELSE Plus(s[g - 1], g)]
    <2>1. \A g \in 0 .. n : s[g] = IF g = 0 THEN 0 ELSE Plus(s[g - 1], g)
        BY <1>1, <1>2, <1>3, Zenon
    <2> QED BY <1>2, <2>1, Zenon
<1>5. sum = [g \in 0 .. n |-> IF g = 0 THEN 0 ELSE Plus(sum[g - 1], g)]
    BY <1>4, Zenon DEF sum
<1>6. Structural!Held(list, i) = sum[n]
    BY Zenon DEF Structural!Held, sum, n, Plus
<1> HIDE DEF sum
<1>7. f[0] \in Zero
    <2>1. 0 \in 0 .. n
        BY <1>1
    <2> QED BY <1>2, <1>5, <2>1, Zenon
<1>8. \A g \in 1 .. n : f[g - 1] \in Zero => f[g] \in Zero
    <2> TAKE g \in 1 .. n
    <2>1. g \in 0 .. n /\ g # 0 /\ g - 1 \in 0 .. n
        BY <1>1
    <2>2. sum[g] = Plus(sum[g - 1], g) /\ s[g] = Plus(s[g - 1], g)
        BY <1>3, <1>5, <2>1, Zenon
    <2>3. f[g - 1] \in Zero => sum[g - 1] = s[g - 1]
        <3>1. 0 # 1
            OBVIOUS
        <3> QED BY <2>1, <3>1, Zenon
    <2>4. sum[g] = s[g] => f[g] \in Zero
        BY <2>1, Zenon
    <2> QED BY <2>2, <2>3, <2>4, Zenon
<1>9. \A g \in 0 .. n : f[g] = IF sum[g] = s[g] THEN 0 ELSE 1
    BY Zenon
<1> HIDE DEF f, Zero
<1>10. \A g \in 0 .. n : f[g] \in Zero
    BY <1>1, <1>7, <1>8, StepsKeep
<1>11. n \in 0 .. n
    BY <1>1
<1>12. sum[n] = s[n]
    <2>1. f[n] = 0 /\ 0 # 1
        BY <1>10, <1>11 DEF Zero
    <2> QED BY <1>9, <1>11, <2>1, Zenon
<1> QED BY <1>6, <1>12, Zenon DEF n

\* One more group adds what it holds.
LEMMA HeldGrows ==
    ASSUME NEW list \in Seq(Structural!Group), NEW p \in Structural!Group, NEW i
    PROVE  /\ Structural!Held(list, i) \in Nat
           /\ Structural!Held(Append(list, p), i) = Structural!Held(list, i) + Weight(p, i)
<1> DEFINE n == Len(list)
           longer == Append(list, p)
           w == Weights(list, i)
           v == Weights(longer, i)
<1>1. /\ longer \in Seq(Structural!Group) /\ Len(longer) = n + 1 /\ n \in Nat
      /\ \A g \in 1 .. n : longer[g] = list[g]
      /\ longer[n + 1] = p
    OBVIOUS
<1> HIDE DEF longer
<1>2. /\ w \in [1 .. n -> Nat] /\ v \in [1 .. n + 1 -> Nat]
      /\ \A g \in 1 .. n : w[g] = v[g]
      /\ v[n + 1] = Weight(p, i)
    <2>1. w \in [1 .. n -> Nat] /\ \A g \in 1 .. n : w[g] = Weight(list[g], i)
        BY WeightsAre, Zenon
    <2>2. v \in [1 .. Len(longer) -> Nat] /\ \A g \in 1 .. Len(longer) : v[g] = Weight(longer[g], i)
        BY <1>1, WeightsAre, Zenon
    <2>3. \A g \in 1 .. n : g \in 1 .. n + 1
        BY <1>1
    <2>4. n + 1 \in 1 .. n + 1
        BY <1>1
    <2> HIDE DEF w, v, n
    <2> QED BY <1>1, <2>1, <2>2, <2>3, <2>4, Zenon
<1> HIDE DEF w, v
<1>3. PICK s : Totals(w, n, s)
    BY <1>1, <1>2, TotalsExist
<1>4. PICK t : Totals(v, n + 1, t)
    <2>1. n + 1 \in Nat
        BY <1>1
    <2> QED BY <1>2, <2>1, TotalsExist
<1>5. t[n] = s[n]
    <2> DEFINE m == n + 1
    <2>1. m \in Nat /\ n \in 0 .. m
        BY <1>1
    <2>2. Totals(v, m, t) /\ Begins(w, n, v, m)
        BY <1>2, <1>4, Zenon DEF Begins
    <2> HIDE DEF m, n
    <2> QED BY <1>3, <2>1, <2>2, TotalsAgree
<1>6. Structural!Held(list, i) = s[n] /\ Structural!Held(longer, i) = t[n + 1]
    BY <1>1, <1>3, <1>4, HeldIs DEF w, v
<1>7. t[n + 1] = t[n] + v[n + 1] /\ s[n] \in Nat
    <2>1. /\ \A g \in 1 .. n + 1 : t[g] = t[g - 1] + v[g]
          /\ s \in [0 .. n -> Nat]
        BY <1>3, <1>4, Zenon DEF Totals
    <2>2. n + 1 \in 1 .. n + 1 /\ n \in 0 .. n /\ (n + 1) - 1 = n
        BY <1>1
    <2> QED BY <2>1, <2>2
<1> QED BY <1>2, <1>5, <1>6, <1>7 DEF longer

\* How many groups count, of one more.
LEMMA PartsGrow ==
    ASSUME NEW list \in Seq(Structural!Group), NEW p \in Structural!Group, NEW i
    PROVE  /\ Structural!Parts(list, i) \in Nat
           /\ Structural!Parts(Append(list, p), i)
                  = Structural!Parts(list, i) + (IF p.cut /\ p.from = i THEN 1 ELSE 0)
<1> DEFINE n == Len(list)
           longer == Append(list, p)
           Counts(q) == q.cut /\ q.from = i
           P == {g \in 1 .. n : Counts(list[g])}
           Q == {g \in 1 .. n + 1 : Counts(longer[g])}
<1>1. /\ DOMAIN longer = 1 .. n + 1 /\ DOMAIN list = 1 .. n /\ n \in Nat
      /\ \A g \in 1 .. n : longer[g] = list[g]
      /\ longer[n + 1] = p
    OBVIOUS
<1>2. \A g : g \in 1 .. n + 1 <=> g \in 1 .. n \/ g = n + 1
    BY <1>1
<1>3. n + 1 \notin 1 .. n
    BY <1>1
<1> HIDE DEF n, longer, Counts
<1>4. IsFiniteSet(P) /\ Cardinality(P) \in Nat
    <2>1. IsFiniteSet(1 .. n)
        BY <1>1, FS_Interval
    <2>2. P \subseteq 1 .. n
        BY <1>1, Zenon
    <2> QED BY <2>1, <2>2, FS_Subset, FS_CardinalityType
<1>5. n + 1 \notin P
    BY <1>1, <1>3, Zenon
<1>6. Structural!Parts(list, i) = Cardinality(P) /\ Structural!Parts(longer, i) = Cardinality(Q)
    BY <1>1 DEF Structural!Parts, Structural!Cardinality, Cardinality, Counts
<1>7. CASE Counts(p)
    <2>1. Q = P \cup {n + 1}
        BY <1>1, <1>2, <1>7, Zenon
    <2> HIDE DEF P, Q
    <2>2. Cardinality(Q) = Cardinality(P) + 1
        BY <1>4, <1>5, <2>1, FS_AddElement
    <2> QED BY <1>4, <1>6, <1>7, <2>2 DEF longer, Counts
<1>8. CASE ~Counts(p)
    <2>1. Q = P
        BY <1>1, <1>2, <1>3, <1>8, Zenon
    <2> HIDE DEF P, Q
    <2> QED BY <1>4, <1>6, <1>8, <2>1 DEF longer, Counts
<1> QED BY <1>7, <1>8

LEMMA NothingHeld ==
    ASSUME NEW list \in Seq(Structural!Group), NEW i,
           \A g \in 1 .. Len(list) : ~(list[g].cut /\ list[g].from = i)
    PROVE  Structural!Held(list, i) = 0 /\ Structural!Parts(list, i) = 0
<1> DEFINE n == Len(list)
           w == Weights(list, i)
           Zero == {0}
<1>1. n \in Nat /\ w \in [1 .. n -> Nat]
    BY WeightsAre
<1>2. \A g \in 1 .. n : w[g] = 0
    BY WeightsAre, Zenon DEF Weight
<1> HIDE DEF w
<1>3. PICK s : Totals(w, n, s)
    BY <1>1, TotalsExist
<1>4. s \in [0 .. n -> Nat] /\ s[0] = 0 /\ \A g \in 1 .. n : s[g] = s[g - 1] + w[g]
    BY <1>3, Zenon DEF Totals
<1>5. s[0] \in Zero /\ \A g \in 1 .. n : s[g - 1] \in Zero => s[g] \in Zero
    BY <1>2, <1>4
<1> HIDE DEF n, Zero
<1>6. \A g \in 0 .. n : s[g] \in Zero
    BY <1>1, <1>5, StepsKeep
<1>7. Structural!Held(list, i) = s[n]
    BY <1>3, HeldIs DEF w, n
<1>8. Structural!Held(list, i) = 0
    <2>1. n \in 0 .. n
        BY <1>1
    <2> QED BY <1>6, <1>7, <2>1 DEF Zero
<1>9. Structural!Parts(list, i) = 0
    <2>1. {g \in DOMAIN list : list[g].cut /\ list[g].from = i} = {}
        OBVIOUS
    <2>2. Cardinality({}) = 0
        BY FS_EmptySet
    <2> QED BY <2>1, <2>2 DEF Structural!Parts, Structural!Cardinality, Cardinality
<1> QED BY <1>8, <1>9

\* What the groups so far end with.
Grouped == IF groups = <<>> THEN 0 ELSE groups[Len(groups)].to

IsShort(p) == ~p.cut /\ p.size + StructuralSeparator < MinChars

\* The groups are in order, and a whole one shares no segment with a later one.
InLine ==
    /\ \A g \in 1 .. Len(groups) :
          /\ 1 <= groups[g].from /\ groups[g].from <= groups[g].to /\ groups[g].to <= Grouped
          /\ groups[g].size <= MaxChars
          /\ groups[g].cut => groups[g].from = groups[g].to
          /\ groups[g].cut \/ g = Len(groups) \/ groups[g].to < Grouped
    /\ groups # <<>> => groups[1].from = 1
    /\ \A g \in 2 .. Len(groups) :
          \/ groups[g].from = groups[g - 1].to + 1
          \/ groups[g].from = groups[g - 1].to /\ groups[g].cut /\ groups[g - 1].cut

\* What is read and in no group is in the open group, or is being cut.
Ready ==
    /\ Structural!Open =>
          /\ current.from = Grouped + 1 /\ current.to = Len(segments) /\ Grouped < Len(segments)
          /\ StructuralSeparator < chars /\ chars <= MaxChars + StructuralSeparator
          /\ ~pieces.on /\ ~closed
    /\ ~Structural!Open /\ ~pieces.on =>
          /\ Grouped = Len(segments)
          /\ closed \/ groups = <<>> \/ groups[Len(groups)].cut
    /\ pieces.on =>
          /\ ~closed /\ Len(segments) > 0
          /\ \/ Grouped = Len(segments) - 1
             \/ Grouped = Len(segments) /\ groups # <<>> /\ groups[Len(groups)].cut

\* A short group has a reason, but for the last one while what is next is cut.
Justified ==
    \A g \in 1 .. Len(groups) :
        IsShort(groups[g]) /\ groups[g].to < Len(segments) =>
            \/ groups[g].size + segments[groups[g].to + 1].size + 2 * StructuralSeparator > MaxChars
            \/ pieces.on /\ g = Len(groups) /\ groups[g].to + 1 = Len(segments)

\* What the pieces of a segment hold, with what is left of the one being cut.
Pieced(i, left) ==
    /\ Structural!Held(groups, i) + Structural!Parts(groups, i) + left + segments[i].spare
          = segments[i].size
    /\ Structural!Parts(groups, i) + segments[i].spare >= 0

Whole(i) ==
    Structural!Parts(groups, i) > 0 =>
        Structural!Held(groups, i) + Structural!Parts(groups, i) + segments[i].spare
            = segments[i].size + 1

Adds ==
    /\ pieces.on =>
          /\ pieces.buffer <= MaxChars
          /\ pieces.rest = 0 \/ (pieces.rest > MaxChars /\ pieces.buffer = 0)
          /\ segments[Len(segments)].size # 0 => pieces.buffer + pieces.rest # 0
          /\ Pieced(Len(segments), pieces.buffer + pieces.rest)
    /\ ~pieces.on => pieces.rest = 0
    /\ \A i \in 1 .. Len(segments) : (pieces.on /\ i = Len(segments)) \/ Whole(i)

StructuralInv == Structural!TypeOK /\ InLine /\ Ready /\ Justified /\ Adds

LEMMA GroupIs ==
    ASSUME NEW p \in Structural!Group
    PROVE  p.from \in Nat /\ p.to \in Nat /\ p.size \in Nat /\ p.cut \in BOOLEAN
BY DEF Structural!Group

LEMMA StructuralConstants ==
    ASSUME Structural!StructuralAssumption
    PROVE  /\ MaxChars \in Nat /\ MaxChars >= 1 /\ MinChars \in Nat
           /\ StructuralSeparator \in Nat /\ Sizes \subseteq Nat /\ \A n \in Sizes : n >= 1
           /\ Blanks \subseteq Nat
BY DEF Structural!StructuralAssumption

LEMMA StructuralTypes ==
    ASSUME Structural!TypeOK
    PROVE  /\ segments \in Seq(Structural!Segment) /\ \A i \in 1 .. Len(segments) : segments[i].size \in Nat
           /\ current.from \in Nat /\ current.to \in Nat /\ chars \in Nat
           /\ pieces.sentences \in Nat /\ pieces.buffer \in Nat /\ pieces.rest \in Nat
           /\ groups \in Seq(Structural!Group)
           /\ Len(groups) \in Nat /\ Len(segments) \in Nat /\ Grouped \in Nat
           /\ \A g \in 1 .. Len(groups) : groups[g] \in Structural!Group
           /\ \A g \in 1 .. Len(groups) : /\ groups[g].from \in Nat /\ groups[g].to \in Nat
                                          /\ groups[g].size \in Nat
           /\ \A i \in 1 .. Len(segments) : segments[i].spare \in Int
<1>1. segments \in Seq(Structural!Segment) /\ groups \in Seq(Structural!Group)
    BY Zenon DEF Structural!TypeOK
<1>2. /\ current \in [from : Nat, to : Nat] /\ chars \in Nat
      /\ pieces \in [on : BOOLEAN, sentences : Nat, buffer : Nat, rest : Nat]
    BY Zenon DEF Structural!TypeOK
<1>3. \A s \in Structural!Segment : s.size \in Nat /\ s.spare \in Int
    BY DEF Structural!Segment
<1>4. \A i \in 1 .. Len(segments) : segments[i].size \in Nat /\ segments[i].spare \in Int
    <2>1. \A i \in 1 .. Len(segments) : segments[i] \in Structural!Segment
        BY <1>1
    <2> QED BY <1>3, <2>1, Zenon
<1>5. \A g \in 1 .. Len(groups) : groups[g] \in Structural!Group
    BY <1>1
<1>6. \A g \in 1 .. Len(groups) : /\ groups[g].from \in Nat /\ groups[g].to \in Nat
                                  /\ groups[g].size \in Nat
    BY <1>5, GroupIs, Zenon
<1>7. Len(groups) \in Nat /\ Len(segments) \in Nat
    BY <1>1
<1>8. Grouped \in Nat
    <2>1. groups # <<>> => Len(groups) \in 1 .. Len(groups)
        BY <1>1
    <2> QED BY <1>6, <2>1 DEF Grouped
<1>9. /\ current.from \in Nat /\ current.to \in Nat /\ chars \in Nat
      /\ pieces.sentences \in Nat /\ pieces.buffer \in Nat /\ pieces.rest \in Nat
    BY <1>2
<1> QED BY <1>1, <1>4, <1>5, <1>6, <1>7, <1>8, <1>9, Zenon

LEMMA GroupAdded ==
    ASSUME Structural!TypeOK, InLine, NEW p \in Structural!Group, groups' = Append(groups, p),
           p.size <= MaxChars, p.from <= p.to, p.cut => p.from = p.to,
           \/ p.from = Grouped + 1
           \/ p.from = Grouped /\ p.cut /\ groups # <<>> /\ groups[Len(groups)].cut
    PROVE  /\ InLine' /\ Grouped' = p.to /\ groups' \in Seq(Structural!Group)
           /\ groups' # <<>> /\ groups'[Len(groups')] = p
           /\ Len(groups') = Len(groups) + 1
           /\ \A g \in 1 .. Len(groups) : groups'[g] = groups[g]
<1> DEFINE n == Len(groups)
<1>1. /\ groups' \in Seq(Structural!Group) /\ Len(groups') = n + 1 /\ n \in Nat
      /\ groups' # <<>> /\ groups'[n + 1] = p
      /\ \A g \in 1 .. n : groups'[g] = groups[g]
      /\ groups = <<>> <=> n = 0
    BY StructuralTypes
<1>2. Grouped' = p.to
    BY <1>1 DEF Grouped
<1>3. /\ p.from \in Nat /\ p.to \in Nat /\ Grouped \in Nat
      /\ \A g \in 1 .. n : groups[g].from \in Nat /\ groups[g].to \in Nat /\ groups[g].size \in Nat
    BY GroupIs, StructuralTypes
<1>4. /\ \A g \in 1 .. n :
          /\ 1 <= groups[g].from /\ groups[g].from <= groups[g].to /\ groups[g].to <= Grouped
          /\ groups[g].size <= MaxChars
          /\ groups[g].cut => groups[g].from = groups[g].to
          /\ groups[g].cut \/ g = n \/ groups[g].to < Grouped
      /\ n # 0 => groups[1].from = 1
      /\ \A g \in 2 .. n :
          \/ groups[g].from = groups[g - 1].to + 1
          \/ groups[g].from = groups[g - 1].to /\ groups[g].cut /\ groups[g - 1].cut
    BY <1>1 DEF InLine
<1>5. /\ n = 0 => Grouped = 0
      /\ n # 0 => n \in 1 .. n /\ Grouped = groups[n].to
    BY <1>1 DEF Grouped
<1>6. Grouped <= p.to /\ 1 <= p.from
    BY <1>1, <1>3, <1>4, <1>5
<1>7. n # 0 => \/ p.from = groups[n].to + 1
               \/ p.from = groups[n].to /\ p.cut /\ groups[n].cut
    BY <1>1, <1>5
<1>8. \A g \in 1 .. n + 1 : g \in 1 .. n \/ g = n + 1
    BY <1>1
<1>9. \A g \in 1 .. n + 1 :
          /\ 1 <= groups'[g].from /\ groups'[g].from <= groups'[g].to /\ groups'[g].to <= p.to
          /\ groups'[g].size <= MaxChars
          /\ groups'[g].cut => groups'[g].from = groups'[g].to
          /\ groups'[g].cut \/ g = n + 1 \/ groups'[g].to < p.to
    <2> TAKE g \in 1 .. n + 1
    <2>1. CASE g = n + 1
        BY <1>1, <1>3, <1>6, <2>1
    <2>2. CASE g \in 1 .. n
        <3>1. groups'[g] = groups[g]
            BY <1>1, <2>2
        <3>2. groups[g].to <= p.to
            BY <1>3, <1>4, <1>6, <2>2
        <3>3. groups[g].cut \/ groups[g].to < p.to
            <4>1. CASE groups[g].cut
                BY <4>1
            <4>2. CASE groups[g].to < Grouped
                BY <1>3, <1>6, <2>2, <4>2
            <4>3. CASE g = n /\ ~groups[g].cut
                <5>1. p.from = groups[n].to + 1
                    BY <1>7, <2>2, <4>3
                <5> QED BY <1>3, <2>2, <4>3, <5>1
            <4> QED BY <1>4, <2>2, <4>1, <4>2, <4>3
        <3> QED BY <1>4, <2>2, <3>1, <3>2, <3>3
    <2> QED BY <1>8, <2>1, <2>2
<1>10. groups'[1].from = 1
    <2>1. CASE n = 0
        <3>1. p.from = 1
            BY <1>1, <1>5, <2>1
        <3> QED BY <1>1, <2>1, <3>1
    <2>2. CASE n # 0
        <3>1. 1 \in 1 .. n
            BY <1>1, <2>2
        <3> QED BY <1>1, <1>4, <2>2, <3>1
    <2> QED BY <2>1, <2>2
<1>11. \A g \in 2 .. n + 1 :
          \/ groups'[g].from = groups'[g - 1].to + 1
          \/ groups'[g].from = groups'[g - 1].to /\ groups'[g].cut /\ groups'[g - 1].cut
    <2> TAKE g \in 2 .. n + 1
    <2>1. CASE g = n + 1
        <3>1. n # 0 /\ n \in 1 .. n /\ g - 1 = n
            BY <1>1, <2>1
        <3>2. groups'[g] = p /\ groups'[g - 1] = groups[n]
            BY <1>1, <2>1, <3>1
        <3> QED BY <1>7, <3>1, <3>2
    <2>2. CASE g # n + 1
        <3>1. g \in 2 .. n /\ g \in 1 .. n /\ g - 1 \in 1 .. n
            BY <1>1, <2>2
        <3>2. groups'[g] = groups[g] /\ groups'[g - 1] = groups[g - 1]
            BY <1>1, <3>1
        <3> QED BY <1>4, <3>1, <3>2
    <2> QED BY <2>1, <2>2
<1>12. InLine'
    BY <1>1, <1>2, <1>9, <1>10, <1>11 DEF InLine
<1> QED BY <1>1, <1>2, <1>12

\* What closing the open group, if there is one, comes to.
FlushDone ==
    /\ InLine' /\ groups' \in Seq(Structural!Group) /\ Grouped' = Len(segments)
    /\ \A i \in Nat : /\ Structural!Held(groups', i) = Structural!Held(groups, i)
                      /\ Structural!Parts(groups', i) = Structural!Parts(groups, i)
    /\ \A g \in 1 .. Len(groups') : IsShort(groups'[g]) =>
          \/ g \in 1 .. Len(groups) /\ groups'[g] = groups[g] /\ groups[g].to < Len(segments)
          \/ /\ Structural!Open /\ g = Len(groups') /\ groups'[g].to = Len(segments)
             /\ groups'[g].size = chars - StructuralSeparator

LEMMA FlushedIs ==
    ASSUME Structural!StructuralAssumption, StructuralInv, ~pieces.on, ~closed,
           groups' = Structural!Flushed
    PROVE  FlushDone
<1>1. Structural!TypeOK /\ InLine /\ Ready
    BY Zenon DEF StructuralInv
<1> DEFINE n == Len(groups)
<1>2. /\ n \in Nat /\ Len(segments) \in Nat /\ Grouped \in Nat /\ chars \in Nat
      /\ groups \in Seq(Structural!Group)
      /\ \A g \in 1 .. n : groups[g] \in Structural!Group /\ groups[g].to \in Nat
      /\ current.from \in Nat /\ current.to \in Nat
    BY <1>1, StructuralTypes
<1>3. CASE ~Structural!Open
    <2>1. groups' = groups
        BY <1>3, Zenon DEF Structural!Flushed
    <2>2. Grouped = Len(segments) /\ (groups = <<>> \/ groups[n].cut)
        BY <1>1, <1>3, Zenon DEF Ready
    <2>3. InLine' /\ Grouped' = Grouped
        BY <1>1, <2>1, Zenon DEF InLine, Grouped
    <2>4. ASSUME NEW g \in 1 .. n, IsShort(groups[g]) PROVE groups[g].to < Len(segments)
        <3>1. ~groups[g].cut
            BY <2>4, Zenon DEF IsShort
        <3>2. groups # <<>>
            BY <1>2
        <3>3. g # n
            BY <2>2, <3>1, <3>2
        <3> QED BY <1>1, <2>2, <3>1, <3>3 DEF InLine
    <2> QED BY <1>2, <2>1, <2>2, <2>3, <2>4, Zenon DEF FlushDone
<1>4. CASE Structural!Open
    <2> DEFINE p == [from |-> current.from, to |-> current.to,
                     size |-> chars - StructuralSeparator, cut |-> FALSE]
    <2>1. groups' = Append(groups, p)
        BY <1>4, Zenon DEF Structural!Flushed
    <2>2. /\ current.from = Grouped + 1 /\ current.to = Len(segments) /\ Grouped < Len(segments)
          /\ StructuralSeparator < chars /\ chars <= MaxChars + StructuralSeparator
        BY <1>1, <1>4, Zenon DEF Ready
    <2>3. /\ p.from = Grouped + 1 /\ p.to = Len(segments) /\ p.size = chars - StructuralSeparator
          /\ ~p.cut
        BY <2>2
    <2>4. p \in Structural!Group /\ p.size <= MaxChars /\ p.from <= p.to
        <3>1. chars - StructuralSeparator \in Nat /\ chars - StructuralSeparator <= MaxChars
            BY <1>2, <2>2, StructuralConstants
        <3> QED BY <1>2, <2>2, <3>1 DEF Structural!Group
    <2> HIDE DEF p
    <2>5. /\ InLine' /\ Grouped' = p.to /\ groups' \in Seq(Structural!Group)
          /\ groups'[Len(groups')] = p
          /\ Len(groups') = n + 1
          /\ \A g \in 1 .. n : groups'[g] = groups[g]
        BY <1>1, <2>1, <2>3, <2>4, GroupAdded
    <2>6. \A i \in Nat : /\ Structural!Held(groups', i) = Structural!Held(groups, i)
                         /\ Structural!Parts(groups', i) = Structural!Parts(groups, i)
        <3> TAKE i \in Nat
        <3>1. Weight(p, i) = 0
            BY <2>3, Zenon DEF Weight
        <3>2. /\ Structural!Held(groups, i) \in Nat
              /\ Structural!Held(groups', i) = Structural!Held(groups, i) + 0
            BY <1>2, <2>1, <2>4, <3>1, HeldGrows
        <3>3. /\ Structural!Parts(groups, i) \in Nat
              /\ Structural!Parts(groups', i) = Structural!Parts(groups, i) + 0
            BY <1>2, <2>1, <2>3, <2>4, PartsGrow
        <3> QED BY <3>2, <3>3
    <2>7. ASSUME NEW g \in 1 .. n PROVE groups[g].to < Len(segments)
        BY <1>1, <1>2, <2>2 DEF InLine
    <2>8. \A g \in 1 .. Len(groups') : g \in 1 .. n \/ g = Len(groups')
        BY <1>2, <2>5
    <2> QED BY <1>4, <2>3, <2>5, <2>6, <2>7, <2>8, Zenon DEF FlushDone
<1> QED BY <1>3, <1>4

\* What one more piece of the segment being cut comes to.
PieceDone(size) ==
    /\ InLine' /\ groups' \in Seq(Structural!Group) /\ Grouped' = Len(segments)
    /\ groups' # <<>> /\ groups'[Len(groups')].cut
    /\ Structural!Held(groups', Len(segments)) = Structural!Held(groups, Len(segments)) + size
    /\ Structural!Parts(groups', Len(segments)) = Structural!Parts(groups, Len(segments)) + 1
    /\ \A i \in 1 .. Len(segments) : i # Len(segments) =>
          /\ Structural!Held(groups', i) = Structural!Held(groups, i)
          /\ Structural!Parts(groups', i) = Structural!Parts(groups, i)
    /\ \A g \in 1 .. Len(groups') : IsShort(groups'[g]) =>
          g \in 1 .. Len(groups) /\ groups'[g] = groups[g]

LEMMA PieceIs ==
    ASSUME Structural!StructuralAssumption, StructuralInv, pieces.on,
           NEW size \in Nat, size <= MaxChars,
           groups' = Append(groups, Structural!Piece(size))
    PROVE  PieceDone(size)
<1>1. Structural!TypeOK /\ InLine /\ Ready
    BY Zenon DEF StructuralInv
<1> DEFINE n == Len(groups)
           last == Len(segments)
           p == Structural!Piece(size)
<1>2. /\ n \in Nat /\ last \in Nat /\ Grouped \in Nat
      /\ groups \in Seq(Structural!Group)
    BY <1>1, StructuralTypes
<1>3. \/ Grouped = last - 1
      \/ Grouped = last /\ groups # <<>> /\ groups[n].cut
    BY <1>1, Zenon DEF Ready
<1>4. /\ p \in Structural!Group /\ p.from = last /\ p.to = last /\ p.size = size /\ p.cut
    BY <1>2 DEF Structural!Piece, Structural!Group
<1> HIDE DEF p
<1>5. p.from = Grouped + 1 \/ (p.from = Grouped /\ p.cut /\ groups # <<>> /\ groups[n].cut)
    <2>1. Grouped = last - 1 => last = Grouped + 1
        BY <1>2
    <2> QED BY <1>3, <1>4, <2>1, Zenon
<1>6. groups' = Append(groups, p)
    BY DEF p
<1>7. /\ InLine' /\ Grouped' = p.to /\ groups' \in Seq(Structural!Group)
      /\ groups' # <<>> /\ groups'[Len(groups')] = p
      /\ Len(groups') = n + 1
      /\ \A g \in 1 .. n : groups'[g] = groups[g]
    <2>1. p.size <= MaxChars /\ p.from <= p.to
        BY <1>2, <1>4
    <2> QED BY <1>1, <1>4, <1>5, <1>6, <2>1, GroupAdded
<1>8. /\ Structural!Held(groups', last) = Structural!Held(groups, last) + size
      /\ Structural!Parts(groups', last) = Structural!Parts(groups, last) + 1
    <2>1. Weight(p, last) = size
        BY <1>4, Zenon DEF Weight
    <2> QED BY <1>2, <1>4, <1>6, <2>1, HeldGrows, PartsGrow
<1>9. ASSUME NEW i \in 1 .. last, i # last
      PROVE  /\ Structural!Held(groups', i) = Structural!Held(groups, i)
             /\ Structural!Parts(groups', i) = Structural!Parts(groups, i)
    <2>1. Weight(p, i) = 0
        BY <1>4, <1>9, Zenon DEF Weight
    <2>2. /\ Structural!Held(groups, i) \in Nat
          /\ Structural!Held(groups', i) = Structural!Held(groups, i) + 0
        BY <1>2, <1>4, <1>6, <2>1, HeldGrows
    <2>3. /\ Structural!Parts(groups, i) \in Nat
          /\ Structural!Parts(groups', i) = Structural!Parts(groups, i) + 0
        BY <1>2, <1>4, <1>6, <1>9, PartsGrow
    <2> QED BY <2>2, <2>3
<1>10. \A g \in 1 .. Len(groups') : g \in 1 .. n \/ g = Len(groups')
    BY <1>2, <1>7
<1>11. ~IsShort(p)
    BY <1>4, Zenon DEF IsShort
<1> QED BY <1>4, <1>7, <1>8, <1>9, <1>10, <1>11, Zenon DEF PieceDone

\* A segment that is read now is in no group.
LEMMA NewIsFree ==
    ASSUME Structural!TypeOK, InLine, Grouped <= Len(segments)
    PROVE  /\ Structural!Held(groups, Len(segments) + 1) = 0
           /\ Structural!Parts(groups, Len(segments) + 1) = 0
<1>1. /\ groups \in Seq(Structural!Group) /\ Len(segments) \in Nat /\ Grouped \in Nat
      /\ \A g \in 1 .. Len(groups) : groups[g].from \in Nat /\ groups[g].to \in Nat
    BY StructuralTypes
<1>2. \A g \in 1 .. Len(groups) : groups[g].from # Len(segments) + 1
    BY <1>1 DEF InLine
<1>3. \A g \in 1 .. Len(groups) : ~(groups[g].cut /\ groups[g].from = Len(segments) + 1)
    BY <1>2, Zenon
<1> QED BY <1>1, <1>3, NothingHeld

LEMMA GroupedIsRead ==
    ASSUME Structural!TypeOK, Ready
    PROVE  Grouped <= Len(segments)
<1>1. Grouped \in Nat /\ Len(segments) \in Nat
    BY StructuralTypes
<1>2. \/ Grouped < Len(segments) \/ Grouped = Len(segments) \/ Grouped = Len(segments) - 1
    BY Zenon DEF Ready
<1> QED BY <1>1, <1>2

\* The whole segments stay whole when a segment is read and no piece is made.
LEMMA WholeStay ==
    ASSUME StructuralInv, ~pieces.on, NEW s \in Structural!Segment, segments' = Append(segments, s),
           \A i \in Nat : /\ Structural!Held(groups', i) = Structural!Held(groups, i)
                          /\ Structural!Parts(groups', i) = Structural!Parts(groups, i)
    PROVE  /\ Len(segments') = Len(segments) + 1 /\ segments' \in Seq(Structural!Segment)
           /\ segments'[Len(segments) + 1] = s
           /\ \A i \in 1 .. Len(segments) : segments'[i] = segments[i]
           /\ Structural!Held(groups', Len(segments) + 1) = 0
           /\ Structural!Parts(groups', Len(segments) + 1) = 0
           /\ \A i \in 1 .. Len(segments') : Whole(i)'
<1>1. Structural!TypeOK /\ InLine /\ Ready /\ Adds
    BY Zenon DEF StructuralInv
<1>2. segments \in Seq(Structural!Segment) /\ Len(segments) \in Nat
    BY <1>1, StructuralTypes
<1>3. /\ Len(segments') = Len(segments) + 1 /\ segments' \in Seq(Structural!Segment)
      /\ segments'[Len(segments) + 1] = s
      /\ \A i \in 1 .. Len(segments) : segments'[i] = segments[i]
    BY <1>2
<1>4. /\ Structural!Held(groups', Len(segments) + 1) = 0
      /\ Structural!Parts(groups', Len(segments) + 1) = 0
    <2>1. Len(segments) + 1 \in Nat
        BY <1>2
    <2>2. /\ Structural!Held(groups, Len(segments) + 1) = 0
          /\ Structural!Parts(groups, Len(segments) + 1) = 0
        BY <1>1, NewIsFree, GroupedIsRead
    <2> QED BY <2>1, <2>2, Zenon
<1>5. \A i \in 1 .. Len(segments) : Whole(i)
    BY <1>1, Zenon DEF Adds
<1>6. ASSUME NEW i \in 1 .. Len(segments') PROVE Whole(i)'
    <2>1. CASE i = Len(segments) + 1
        <3>1. ~(Structural!Parts(groups', i) > 0)
            BY <1>4, <2>1
        <3> QED BY <3>1, Zenon DEF Whole
    <2>2. CASE i \in 1 .. Len(segments)
        <3>1. i \in Nat
            BY <2>2
        <3> QED BY <1>3, <1>5, <2>2, <3>1, Zenon DEF Whole
    <2> QED BY <1>2, <1>3, <2>1, <2>2
<1> QED BY <1>3, <1>4, <1>6

LEMMA AddHoldsGroups ==
    ASSUME Structural!StructuralAssumption, StructuralInv,
           NEW s \in [size : Sizes, section : Sections \cup {NoSection}, heading : BOOLEAN, spare : {0}],
           Structural!Add(s)
    PROVE  StructuralInv'
<1> DEFINE n == Len(segments) + 1
           Joins == Structural!Open /\ ~Structural!AtBoundary(s) /\ ~Structural!Overflow(s)
<1>1. /\ ~closed /\ ~pieces.on /\ s.size <= MaxChars
      /\ segments' = Append(segments, s) /\ pieces' = pieces /\ closed' = closed
      /\ Joins => /\ current' = [current EXCEPT !.to = n]
                  /\ chars' = chars + s.size + StructuralSeparator
                  /\ section' = IF section = NoSection THEN s.section ELSE section
                  /\ groups' = groups
      /\ ~Joins => /\ groups' = Structural!Flushed
                   /\ current' = [from |-> n, to |-> n]
                   /\ chars' = s.size + StructuralSeparator
                   /\ section' = s.section
    BY Zenon DEF Structural!Add, Structural!MayRead
<1>2. Structural!TypeOK /\ InLine /\ Ready /\ Justified /\ Adds
    BY Zenon DEF StructuralInv
<1>3. /\ segments \in Seq(Structural!Segment) /\ Len(segments) \in Nat /\ Grouped \in Nat
      /\ chars \in Nat /\ current.from \in Nat /\ current.to \in Nat
      /\ groups \in Seq(Structural!Group) /\ Len(groups) \in Nat
      /\ \A g \in 1 .. Len(groups) : groups[g].to \in Nat /\ groups[g].size \in Nat
    BY <1>2, StructuralTypes
<1>4. /\ MaxChars \in Nat /\ MinChars \in Nat /\ StructuralSeparator \in Nat
    BY StructuralConstants
<1>5. s \in Structural!Segment /\ s.size \in Nat /\ s.size >= 1 /\ s.section \in Sections \cup {NoSection}
    BY StructuralConstants DEF Structural!Segment
<1>6. /\ current \in [from : Nat, to : Nat] /\ section \in Sections \cup {NoSection}
      /\ pieces \in [on : BOOLEAN, sentences : Nat, buffer : Nat, rest : Nat] /\ closed \in BOOLEAN
    BY <1>2, Zenon DEF Structural!TypeOK
<1>7. CASE Joins
    <2>1. \A i \in Nat : /\ Structural!Held(groups', i) = Structural!Held(groups, i)
                         /\ Structural!Parts(groups', i) = Structural!Parts(groups, i)
        BY <1>1, <1>7, Zenon
    <2>2. /\ Len(segments') = n /\ segments' \in Seq(Structural!Segment)
          /\ segments'[n] = s
          /\ \A i \in 1 .. Len(segments) : segments'[i] = segments[i]
          /\ \A i \in 1 .. Len(segments') : Whole(i)'
        BY <1>1, <1>5, <2>1, WholeStay
    <2>3. /\ current'.from = current.from /\ current'.to = n /\ current' \in [from : Nat, to : Nat]
        <3>1. n \in Nat
            BY <1>3
        <3> QED BY <1>1, <1>6, <1>7, <3>1
    <2>4. InLine' /\ Grouped' = Grouped
        BY <1>1, <1>2, <1>7, Zenon DEF InLine, Grouped
    <2>5. /\ current.from = Grouped + 1 /\ Grouped < Len(segments)
          /\ StructuralSeparator < chars
        BY <1>2, <1>7, Zenon DEF Ready
    <2>6. StructuralSeparator < chars' /\ chars' <= MaxChars /\ chars' \in Nat
        <3>1. ~(chars + s.size + StructuralSeparator > MaxChars)
            BY <1>7, Zenon DEF Structural!Overflow
        <3> QED BY <1>1, <1>3, <1>4, <1>5, <1>7, <2>5, <3>1
    <2>7. Structural!Open'
        <3>1. current'.from # 0
            BY <1>3, <2>3, <2>5
        <3> QED BY <3>1 DEF Structural!Open, Structural!Nobody
    <2>8. Ready'
        <3>1. /\ current'.from = Grouped' + 1 /\ current'.to = Len(segments') /\ Grouped' < Len(segments')
              /\ chars' <= MaxChars + StructuralSeparator
            BY <1>3, <1>4, <2>2, <2>3, <2>4, <2>5, <2>6
        <3>2. ~pieces'.on /\ ~closed'
            BY <1>1, Zenon
        <3> QED BY <2>6, <2>7, <3>1, <3>2, Zenon DEF Ready
    <2>9. Justified'
        <3> SUFFICES ASSUME NEW g \in 1 .. Len(groups), IsShort(groups[g])
                     PROVE  groups[g].size + segments'[groups[g].to + 1].size
                                + 2 * StructuralSeparator > MaxChars
            BY <1>1, <1>7, Zenon DEF Justified, IsShort
        <3>1. groups[g].to < Len(segments)
            BY <1>2, <1>3, <2>5 DEF InLine
        <3>2. /\ groups[g].to + 1 \in 1 .. Len(segments)
            BY <1>3, <3>1
        <3>3. groups[g].size + segments[groups[g].to + 1].size + 2 * StructuralSeparator > MaxChars
            BY <1>1, <1>2, <3>1, Zenon DEF Justified
        <3> QED BY <2>2, <3>2, <3>3
    <2>10. Adds'
        <3>1. ~pieces'.on /\ pieces'.rest = 0
            BY <1>1, <1>2, Zenon DEF Adds
        <3> QED BY <2>2, <3>1, Zenon DEF Adds
    <2>11. Structural!TypeOK'
        <3>1. section' \in Sections \cup {NoSection}
            BY <1>1, <1>5, <1>6, <1>7, Zenon
        <3> QED BY <1>1, <1>3, <1>6, <1>7, <2>2, <2>3, <2>6, <3>1, Zenon DEF Structural!TypeOK
    <2> QED BY <2>4, <2>8, <2>9, <2>10, <2>11, Zenon DEF StructuralInv
<1>8. CASE ~Joins
    <2>1. FlushDone
        BY <1>1, <1>8, FlushedIs
    <2>2. /\ InLine' /\ groups' \in Seq(Structural!Group) /\ Grouped' = Len(segments)
          /\ \A i \in Nat : /\ Structural!Held(groups', i) = Structural!Held(groups, i)
                            /\ Structural!Parts(groups', i) = Structural!Parts(groups, i)
          /\ \A g \in 1 .. Len(groups') : IsShort(groups'[g]) =>
                \/ g \in 1 .. Len(groups) /\ groups'[g] = groups[g] /\ groups[g].to < Len(segments)
                \/ /\ Structural!Open /\ g = Len(groups') /\ groups'[g].to = Len(segments)
                   /\ groups'[g].size = chars - StructuralSeparator
        BY <2>1, Zenon DEF FlushDone
    <2>3. /\ Len(segments') = n /\ segments' \in Seq(Structural!Segment)
          /\ segments'[n] = s
          /\ \A i \in 1 .. Len(segments) : segments'[i] = segments[i]
          /\ \A i \in 1 .. Len(segments') : Whole(i)'
        BY <1>1, <1>5, <2>2, WholeStay
    <2>4. current'.from = n /\ current'.to = n /\ current' \in [from : Nat, to : Nat]
        BY <1>1, <1>3, <1>8
    <2>5. StructuralSeparator < chars' /\ chars' <= MaxChars + StructuralSeparator /\ chars' \in Nat
        BY <1>1, <1>3, <1>4, <1>5, <1>8
    <2>6. Structural!Open'
        <3>1. current'.from # 0
            BY <1>3, <2>4
        <3> QED BY <3>1 DEF Structural!Open, Structural!Nobody
    <2>7. Ready'
        <3>1. current'.from = Grouped' + 1 /\ current'.to = Len(segments') /\ Grouped' < Len(segments')
            BY <1>3, <2>2, <2>3, <2>4
        <3>2. ~pieces'.on /\ ~closed'
            BY <1>1, Zenon
        <3> QED BY <2>5, <2>6, <3>1, <3>2, Zenon DEF Ready
    <2>8. Justified'
        <3> SUFFICES ASSUME NEW g \in 1 .. Len(groups'), IsShort(groups'[g])
                     PROVE  groups'[g].size + segments'[groups'[g].to + 1].size
                                + 2 * StructuralSeparator > MaxChars
            BY Zenon DEF Justified, IsShort
        <3>1. CASE g \in 1 .. Len(groups) /\ groups'[g] = groups[g] /\ groups[g].to < Len(segments)
            <4>1. groups[g].to + 1 \in 1 .. Len(segments)
                BY <1>3, <3>1
            <4>2. groups[g].size + segments[groups[g].to + 1].size + 2 * StructuralSeparator > MaxChars
                BY <1>1, <1>2, <3>1, Zenon DEF Justified
            <4> QED BY <2>3, <3>1, <4>1, <4>2
        <3>2. CASE /\ Structural!Open /\ groups'[g].to = Len(segments)
                   /\ groups'[g].size = chars - StructuralSeparator
            <4>1. segments'[groups'[g].to + 1] = s
                BY <2>3, <3>2
            <4>2. CASE Structural!AtBoundary(s)
                <5>1. chars >= MinChars
                    BY <4>2, Zenon DEF Structural!AtBoundary
                <5>2. (chars - StructuralSeparator) + StructuralSeparator < MinChars
                    BY <3>2, Zenon DEF IsShort
                <5> QED BY <1>3, <1>4, <5>1, <5>2
            <4>3. CASE Structural!Overflow(s)
                <5>1. chars + s.size + StructuralSeparator > MaxChars
                    BY <4>3, Zenon DEF Structural!Overflow
                <5> QED BY <1>3, <1>4, <1>5, <3>2, <4>1, <5>1
            <4> QED BY <1>8, <3>2, <4>2, <4>3, Zenon
        <3> QED BY <2>2, <3>1, <3>2, Zenon
    <2>9. Adds'
        <3>1. ~pieces'.on /\ pieces'.rest = 0
            BY <1>1, <1>2, Zenon DEF Adds
        <3> QED BY <2>3, <3>1, Zenon DEF Adds
    <2>10. Structural!TypeOK'
        BY <1>1, <1>5, <1>6, <1>8, <2>2, <2>3, <2>4, <2>5, Zenon DEF Structural!TypeOK
    <2> QED BY <2>2, <2>7, <2>8, <2>9, <2>10, Zenon DEF StructuralInv
<1> QED BY <1>7, <1>8

LEMMA AddLongHolds ==
    ASSUME Structural!StructuralAssumption, StructuralInv, Structural!AddLong
    PROVE  StructuralInv'
<1> DEFINE n == Len(segments) + 1
           s == [size |-> 0, section |-> NoSection, heading |-> FALSE, spare |-> 0]
<1>1. /\ ~closed /\ ~pieces.on /\ segments' = Append(segments, s) /\ closed' = closed
      /\ groups' = Structural!Flushed
      /\ current' = Structural!Nobody /\ chars' = 0 /\ section' = NoSection
    BY Zenon DEF Structural!AddLong, Structural!MayRead
<1>2. pieces' = [Structural!NoPieces EXCEPT !.on = TRUE, !.sentences = pieces.sentences]
    BY Zenon DEF Structural!AddLong
<1>3. /\ pieces'.on /\ pieces'.buffer = 0 /\ pieces'.rest = 0
      /\ pieces' \in [on : BOOLEAN, sentences : Nat, buffer : Nat, rest : Nat]
    <2>1. pieces.sentences \in Nat
        BY StructuralTypes, Zenon DEF StructuralInv
    <2> QED BY <1>2, <2>1 DEF Structural!NoPieces
<1>4. Structural!TypeOK /\ InLine /\ Ready /\ Justified /\ Adds
    BY Zenon DEF StructuralInv
<1>5. /\ Len(segments) \in Nat /\ Len(groups) \in Nat
      /\ \A g \in 1 .. Len(groups) : groups[g].to \in Nat /\ groups[g].size \in Nat
    BY <1>4, StructuralTypes
<1>6. s \in Structural!Segment /\ s.size = 0 /\ s.spare = 0
    BY DEF Structural!Segment
<1> HIDE DEF s
<1>7. FlushDone
    BY <1>1, FlushedIs
<1>8. /\ InLine' /\ groups' \in Seq(Structural!Group) /\ Grouped' = Len(segments)
      /\ \A i \in Nat : /\ Structural!Held(groups', i) = Structural!Held(groups, i)
                        /\ Structural!Parts(groups', i) = Structural!Parts(groups, i)
      /\ \A g \in 1 .. Len(groups') : IsShort(groups'[g]) =>
            \/ g \in 1 .. Len(groups) /\ groups'[g] = groups[g] /\ groups[g].to < Len(segments)
            \/ g = Len(groups') /\ groups'[g].to = Len(segments)
    BY <1>7, Zenon DEF FlushDone
<1>9. /\ Len(segments') = n /\ segments' \in Seq(Structural!Segment)
      /\ segments'[n] = s
      /\ \A i \in 1 .. Len(segments) : segments'[i] = segments[i]
      /\ Structural!Held(groups', n) = 0 /\ Structural!Parts(groups', n) = 0
      /\ \A i \in 1 .. Len(segments') : Whole(i)'
    BY <1>1, <1>4, <1>6, <1>8, WholeStay
<1>10. ~Structural!Open'
    BY <1>1, Zenon DEF Structural!Open
<1>11. Ready'
    <2>1. Len(segments') > 0 /\ Grouped' = Len(segments') - 1
        BY <1>5, <1>8, <1>9
    <2>2. ~closed'
        BY <1>1, Zenon
    <2> QED BY <1>3, <1>10, <2>1, <2>2, Zenon DEF Ready
<1>12. Justified'
    <2> SUFFICES ASSUME NEW g \in 1 .. Len(groups'), IsShort(groups'[g])
                 PROVE  \/ groups'[g].size + segments'[groups'[g].to + 1].size
                               + 2 * StructuralSeparator > MaxChars
                        \/ g = Len(groups') /\ groups'[g].to + 1 = Len(segments')
        BY <1>3, Zenon DEF Justified, IsShort
    <2>1. CASE g \in 1 .. Len(groups) /\ groups'[g] = groups[g] /\ groups[g].to < Len(segments)
        <3>1. groups[g].to + 1 \in 1 .. Len(segments)
            BY <1>5, <2>1
        <3>2. groups[g].size + segments[groups[g].to + 1].size + 2 * StructuralSeparator > MaxChars
            BY <1>1, <1>4, <2>1, Zenon DEF Justified
        <3> QED BY <1>9, <2>1, <3>1, <3>2
    <2>2. CASE g = Len(groups') /\ groups'[g].to = Len(segments)
        BY <1>9, <2>2
    <2> QED BY <1>8, <2>1, <2>2, Zenon
<1>13. Adds'
    <2>1. pieces'.buffer + pieces'.rest = 0 /\ pieces'.buffer <= MaxChars
        BY <1>3, StructuralConstants
    <2>2. segments'[Len(segments')].size = 0 /\ segments'[Len(segments')].spare = 0
        BY <1>6, <1>9
    <2>3. Pieced(Len(segments), pieces.buffer + pieces.rest)'
        BY <1>9, <2>1, <2>2 DEF Pieced
    <2> QED BY <1>3, <1>9, <2>1, <2>2, <2>3, Zenon DEF Adds
<1>14. Structural!TypeOK'
    <2>1. current' \in [from : Nat, to : Nat] /\ chars' \in Nat
        BY <1>1 DEF Structural!Nobody
    <2>2. section' \in Sections \cup {NoSection} /\ closed' \in BOOLEAN
        BY <1>1, <1>4, Zenon DEF Structural!TypeOK
    <2> QED BY <1>3, <1>8, <1>9, <2>1, <2>2, Zenon DEF Structural!TypeOK
<1> QED BY <1>8, <1>11, <1>12, <1>13, <1>14, Zenon DEF StructuralInv

\* What is the same while a segment is cut.
LEMMA WhileCut ==
    ASSUME StructuralInv, pieces.on
    PROVE  /\ ~closed /\ ~Structural!Open /\ Len(segments) \in 1 .. Len(segments)
           /\ pieces.buffer \in Nat /\ pieces.rest \in Nat /\ pieces.buffer <= MaxChars
           /\ pieces.rest = 0 \/ (pieces.rest > MaxChars /\ pieces.buffer = 0)
           /\ segments[Len(segments)].size # 0 => pieces.buffer + pieces.rest # 0
           /\ Pieced(Len(segments), pieces.buffer + pieces.rest)
           /\ segments[Len(segments)].size \in Nat /\ segments[Len(segments)].spare \in Int
           /\ Structural!Held(groups, Len(segments)) \in Nat
           /\ Structural!Parts(groups, Len(segments)) \in Nat
           /\ pieces.buffer + pieces.rest <= segments[Len(segments)].size
<1>1. Structural!TypeOK /\ Ready /\ Adds
    BY Zenon DEF StructuralInv
<1>2. /\ ~closed /\ ~Structural!Open /\ Len(segments) > 0
      /\ pieces.buffer <= MaxChars
      /\ pieces.rest = 0 \/ (pieces.rest > MaxChars /\ pieces.buffer = 0)
      /\ segments[Len(segments)].size # 0 => pieces.buffer + pieces.rest # 0
      /\ Pieced(Len(segments), pieces.buffer + pieces.rest)
    BY <1>1, Zenon DEF Ready, Adds
<1>3. /\ Len(segments) \in Nat /\ pieces.buffer \in Nat /\ pieces.rest \in Nat
      /\ \A i \in 1 .. Len(segments) : segments[i].size \in Nat /\ segments[i].spare \in Int
      /\ groups \in Seq(Structural!Group)
    BY <1>1, StructuralTypes
<1>4. Len(segments) \in 1 .. Len(segments)
    BY <1>2, <1>3
<1>5. [from |-> 0, to |-> 0, size |-> 0, cut |-> FALSE] \in Structural!Group
    BY DEF Structural!Group
<1>6. /\ Structural!Held(groups, Len(segments)) \in Nat
      /\ Structural!Parts(groups, Len(segments)) \in Nat
    BY <1>3, <1>5, HeldGrows, PartsGrow
<1>7. pieces.buffer + pieces.rest <= segments[Len(segments)].size
    <2> DEFINE held == Structural!Held(groups, Len(segments))
               parts == Structural!Parts(groups, Len(segments))
               left == pieces.buffer + pieces.rest
               size == segments[Len(segments)].size
               spare == segments[Len(segments)].spare
    <2>1. held + parts + left + spare = size /\ parts + spare >= 0
        BY <1>2, Zenon DEF Pieced
    <2>2. left \in Nat /\ size \in Nat /\ spare \in Int
        BY <1>3, <1>4
    <2>3. held \in Nat /\ parts \in Nat
        BY <1>6
    <2> HIDE DEF held, parts, left, size, spare
    <2>4. left <= size
        BY <2>1, <2>2, <2>3
    <2> QED BY <2>4 DEF left, size
<1> QED BY <1>2, <1>3, <1>4, <1>6, <1>7

\* A group that was justified is, when the segment being cut has grown, and one
\* that was excused is, when it is too long to be added.
LEMMA StaysJustified ==
    ASSUME StructuralInv, pieces.on, Len(segments') = Len(segments),
           \A i \in 1 .. Len(segments) : /\ segments'[i].size \in Nat
                                         /\ segments[i].size <= segments'[i].size,
           Structural!StructuralAssumption,
           NEW g \in 1 .. Len(groups), IsShort(groups[g]), groups[g].to < Len(segments)
    PROVE  \/ groups[g].size + segments'[groups[g].to + 1].size + 2 * StructuralSeparator > MaxChars
           \/ /\ g = Len(groups) /\ groups[g].to + 1 = Len(segments)
              /\ ~(segments'[Len(segments)].size > MaxChars)
<1>1. Structural!TypeOK /\ InLine /\ Justified
    BY Zenon DEF StructuralInv
<1>2. /\ Len(segments) \in Nat /\ groups[g].to \in Nat /\ groups[g].size \in Nat
      /\ \A i \in 1 .. Len(segments) : segments[i].size \in Nat
    BY <1>1, StructuralTypes
<1>3. MaxChars \in Nat /\ StructuralSeparator \in Nat
    BY StructuralConstants
<1>4. groups[g].to + 1 \in 1 .. Len(segments)
    BY <1>2
<1>5. \/ groups[g].size + segments[groups[g].to + 1].size + 2 * StructuralSeparator > MaxChars
      \/ g = Len(groups) /\ groups[g].to + 1 = Len(segments)
    BY <1>1, Zenon DEF Justified
<1>6. CASE groups[g].size + segments[groups[g].to + 1].size + 2 * StructuralSeparator > MaxChars
    <2> DEFINE i == groups[g].to + 1
               a == groups[g].size
               b == segments[i].size
               c == segments'[i].size
    <2>1. a \in Nat /\ b \in Nat /\ c \in Nat /\ b <= c
        <3> HIDE DEF i
        <3>1. i \in 1 .. Len(segments)
            BY <1>4 DEF i
        <3> QED BY <1>2, <3>1
    <2>2. a + b + 2 * StructuralSeparator > MaxChars
        BY <1>6
    <2> HIDE DEF a, b, c
    <2>3. a + c + 2 * StructuralSeparator > MaxChars
        BY <1>3, <2>1, <2>2
    <2> QED BY <2>3, Zenon DEF a, c, i
<1>7. CASE g = Len(groups) /\ groups[g].to + 1 = Len(segments)
    <2> DEFINE a == groups[g].size
               c == segments'[Len(segments)].size
    <2>1. a \in Nat /\ c \in Nat
        <3>1. Len(segments) \in 1 .. Len(segments)
            BY <1>4, <1>7
        <3> QED BY <1>2, <3>1
    <2> HIDE DEF a, c
    <2>2. c > MaxChars => a + c + 2 * StructuralSeparator > MaxChars
        BY <1>3, <2>1
    <2> QED BY <1>7, <2>2, Zenon DEF a, c
<1> QED BY <1>5, <1>6, <1>7

LEMMA SentenceHolds ==
    ASSUME Structural!StructuralAssumption, StructuralInv, NEW n \in Sizes, NEW w \in Blanks,
           Structural!Sentence(n, w)
    PROVE  StructuralInv'
<1> DEFINE last == Len(segments)
           size == segments[last].size
           spare == segments[last].spare
           more == IF size = 0 THEN n ELSE size + w + n
           extra == IF size = 0 THEN spare ELSE spare + w - 1
           candidate == IF pieces.buffer = 0 THEN n ELSE pieces.buffer + 1 + n
           Fits == candidate <= MaxChars
           buffer == IF Fits THEN candidate ELSE IF n <= MaxChars THEN n ELSE 0
           rest == IF Fits \/ n <= MaxChars THEN 0 ELSE n
<1>1. /\ pieces.on /\ pieces.rest = 0 /\ w > 0
      /\ segments' = Structural!Grown(n, w)
      /\ Fits => groups' = groups
      /\ ~Fits => groups' = Structural!Emitted
      /\ pieces' = [pieces EXCEPT !.sentences = @ + 1, !.buffer = buffer, !.rest = rest]
      /\ current' = current /\ chars' = chars /\ section' = section /\ closed' = closed
    BY Zenon DEF Structural!Sentence
<1>2. Structural!TypeOK /\ InLine /\ Ready /\ Justified /\ Adds
    BY Zenon DEF StructuralInv
<1>3. /\ ~closed /\ ~Structural!Open /\ last \in 1 .. last
      /\ pieces.buffer \in Nat /\ pieces.buffer <= MaxChars
      /\ size # 0 => pieces.buffer + pieces.rest # 0
      /\ Pieced(last, pieces.buffer + pieces.rest)
      /\ size \in Nat /\ spare \in Int
      /\ Structural!Held(groups, last) \in Nat /\ Structural!Parts(groups, last) \in Nat
      /\ pieces.buffer + pieces.rest <= size
    BY <1>1, WhileCut, Zenon
<1>4. /\ segments \in Seq(Structural!Segment) /\ last \in Nat /\ Len(groups) \in Nat
      /\ pieces.sentences \in Nat /\ groups \in Seq(Structural!Group)
      /\ \A i \in 1 .. last : segments[i].size \in Nat
      /\ \A g \in 1 .. Len(groups) : groups[g].to \in Nat /\ groups[g].size \in Nat
    BY <1>2, StructuralTypes
<1>5. n \in Nat /\ n >= 1 /\ w \in Nat /\ w >= 1 /\ MaxChars \in Nat /\ MaxChars >= 1 /\ StructuralSeparator \in Nat
    <2>1. w \in Nat
        BY StructuralConstants
    <2> QED BY <1>1, <2>1, StructuralConstants
<1>6. more \in Nat /\ more # 0 /\ size <= more /\ candidate \in Nat /\ candidate <= more
    <2>1. /\ pieces.buffer \in Nat /\ size \in Nat /\ n \in Nat /\ n >= 1
          /\ size # 0 => pieces.buffer # 0
          /\ pieces.buffer <= size
        <3>1. pieces.rest = 0
            BY <1>1
        <3> QED BY <1>3, <1>5, <3>1
    <2>2. PICK b : b = pieces.buffer
        OBVIOUS
    <2>3. /\ b \in Nat /\ (size # 0 => b # 0) /\ b <= size
          /\ candidate = IF b = 0 THEN n ELSE b + 1 + n
        BY <2>1, <2>2, Zenon
    <2> HIDE DEF size, candidate
    <2> QED BY <1>5, <2>1, <2>3
<1> HIDE DEF candidate
<1>7. /\ buffer \in Nat /\ rest \in Nat /\ buffer <= MaxChars /\ buffer + rest # 0
      /\ rest = 0 \/ (rest > MaxChars /\ buffer = 0)
      /\ buffer + rest = IF Fits THEN candidate ELSE n
    <2>1. candidate \in Nat /\ candidate # 0
        <3>1. PICK b : b = pieces.buffer
            OBVIOUS
        <3>2. b \in Nat /\ candidate = IF b = 0 THEN n ELSE b + 1 + n
            BY <1>3, <3>1, Zenon DEF candidate
        <3> QED BY <1>5, <3>2
    <2> HIDE DEF more, size
    <2>2. CASE candidate <= MaxChars
        BY <1>5, <2>1, <2>2
    <2>3. CASE ~(candidate <= MaxChars) /\ n <= MaxChars
        BY <1>5, <2>1, <2>3
    <2>4. CASE ~(candidate <= MaxChars) /\ ~(n <= MaxChars)
        BY <1>5, <2>1, <2>4
    <2> QED BY <2>2, <2>3, <2>4
<1>8. /\ pieces' \in [on : BOOLEAN, sentences : Nat, buffer : Nat, rest : Nat]
      /\ pieces'.on /\ pieces'.buffer = buffer /\ pieces'.rest = rest
    <2>1. pieces \in [on : BOOLEAN, sentences : Nat, buffer : Nat, rest : Nat]
        BY <1>2, Zenon DEF Structural!TypeOK
    <2> HIDE DEF buffer, rest
    <2>2. pieces'.buffer = buffer /\ pieces'.rest = rest /\ pieces'.on = pieces.on
        BY <1>1, <2>1
    <2>3. pieces' \in [on : BOOLEAN, sentences : Nat, buffer : Nat, rest : Nat]
        <3> DEFINE Flag == BOOLEAN
        <3>1. pieces \in [on : Flag, sentences : Nat, buffer : Nat, rest : Nat]
            BY <2>1
        <3> HIDE DEF Flag
        <3>2. pieces' \in [on : Flag, sentences : Nat, buffer : Nat, rest : Nat]
            <4>1. pieces' = [pieces EXCEPT !.sentences = pieces.sentences + 1, !.buffer = buffer,
                                           !.rest = rest]
                BY <1>1
            <4>2. buffer \in Nat /\ rest \in Nat
                BY <1>7
            <4>3. pieces.sentences + 1 \in Nat
                BY <1>4
            <4> HIDE DEF size, more
            <4> QED BY <3>1, <4>1, <4>2, <4>3
        <3> QED BY <3>2 DEF Flag
    <2> QED BY <1>1, <2>2, <2>3, Zenon
<1>9. /\ segments' \in Seq(Structural!Segment) /\ Len(segments') = last
      /\ segments'[last].size = more /\ segments'[last].spare = extra
      /\ \A i \in 1 .. last : i # last => segments'[i] = segments[i]
    <2>1. segments[last] \in Structural!Segment
        BY <1>3, <1>4
    <2> DEFINE s == IF size = 0 THEN [segments[last] EXCEPT !.size = more]
                    ELSE [segments[last] EXCEPT !.size = more, !.spare = extra]
    <2>2. segments' = [segments EXCEPT ![last] = s]
        BY <1>1 DEF Structural!Grown
    <2>3. extra \in Int
        BY <1>3, <1>5
    <2>4. s \in Structural!Segment /\ s.size = more /\ s.spare = extra
        <3> DEFINE Flag == BOOLEAN
        <3>1. Structural!Segment = [size : Nat, section : Sections \cup {NoSection}, heading : Flag,
                                    spare : Int]
            BY DEF Structural!Segment
        <3> HIDE DEF Flag, more
        <3>2. CASE size = 0
            BY <1>6, <2>1, <3>1, <3>2
        <3>3. CASE size # 0
            <4>1. s = [segments[last] EXCEPT !.size = more, !.spare = extra]
                BY <3>3
            <4> HIDE DEF extra, s
            <4> QED BY <1>6, <2>1, <2>3, <3>1, <4>1
        <3> QED BY <3>2, <3>3
    <2> HIDE DEF s, more, extra
    <2> QED BY <1>3, <1>4, <2>2, <2>4
<1>10. \A i \in 1 .. last : segments'[i].size \in Nat /\ segments[i].size <= segments'[i].size
    <2> TAKE i \in 1 .. last
    <2>1. CASE i = last
        BY <1>6, <1>9, <2>1
    <2>2. CASE i # last
        BY <1>4, <1>9, <2>2
    <2> QED BY <2>1, <2>2
<1> HIDE DEF buffer, rest, more, extra
<1>11. ASSUME NEW i \in 1 .. last, i # last,
              Structural!Held(groups', i) = Structural!Held(groups, i),
              Structural!Parts(groups', i) = Structural!Parts(groups, i)
       PROVE  Whole(i)'
    <2>1. Whole(i)
        BY <1>2, <1>11, Zenon DEF Adds
    <2> QED BY <1>9, <1>11, <2>1, Zenon DEF Whole
<1>12. CASE groups' = groups /\ (Fits \/ pieces.buffer = 0)
    <2>1. InLine' /\ Grouped' = Grouped
        BY <1>2, <1>12, Zenon DEF InLine, Grouped
    <2>2. Ready'
        BY <1>1, <1>2, <1>3, <1>8, <1>9, <1>12, <2>1, Zenon DEF Ready, Structural!Open
    <2>3. Justified'
        <3> SUFFICES ASSUME NEW g \in 1 .. Len(groups), IsShort(groups[g]), groups[g].to < last
                     PROVE  \/ groups[g].size + segments'[groups[g].to + 1].size
                                   + 2 * StructuralSeparator > MaxChars
                            \/ g = Len(groups) /\ groups[g].to + 1 = last
            BY <1>8, <1>9, <1>12, Zenon DEF Justified, IsShort
        <3> QED BY <1>1, <1>9, <1>10, StaysJustified
    <2>4. Pieced(Len(segments), pieces.buffer + pieces.rest)'
        <3>1. /\ Structural!Held(groups, last) + Structural!Parts(groups, last)
                    + (pieces.buffer + pieces.rest) + spare = size
              /\ Structural!Parts(groups, last) + spare >= 0
            BY <1>3, Zenon DEF Pieced
        <3>2. /\ Structural!Held(groups, last) + Structural!Parts(groups, last)
                    + (buffer + rest) + extra = more
              /\ Structural!Parts(groups, last) + extra >= 0
            <4> DEFINE held == Structural!Held(groups, last)
                       parts == Structural!Parts(groups, last)
                       new == buffer + rest
            <4>1. PICK b : b = pieces.buffer
                OBVIOUS
            <4>2. /\ held \in Nat /\ parts \in Nat /\ b \in Nat /\ size \in Nat /\ spare \in Int
                  /\ held + parts + b + spare = size /\ parts + spare >= 0
                  /\ size # 0 => b # 0
                <5>1. pieces.rest = 0 /\ pieces.buffer \in Nat
                    BY <1>1, <1>3
                <5>2. pieces.buffer + pieces.rest = b
                    BY <4>1, <5>1
                <5> QED BY <1>3, <3>1, <4>1, <5>2, Zenon
            <4>3. new = IF b = 0 THEN n ELSE b + 1 + n
                BY <1>7, <1>12, <4>1 DEF candidate
            <4>4. /\ more = IF size = 0 THEN n ELSE size + w + n
                  /\ extra = IF size = 0 THEN spare ELSE spare + w - 1
                BY DEF more, extra
            <4> HIDE DEF size, spare, held, parts, new
            <4>5. held + parts + new + extra = more /\ parts + extra >= 0
                BY <1>5, <4>2, <4>3, <4>4
            <4> QED BY <4>5, Zenon DEF held, parts, new
        <3>3. pieces'.buffer + pieces'.rest = buffer + rest
            BY <1>8
        <3> QED BY <1>9, <1>12, <3>2, <3>3, Zenon DEF Pieced
    <2>5. Adds'
        BY <1>6, <1>7, <1>8, <1>9, <1>11, <1>12, <2>4, Zenon DEF Adds
    <2>6. Structural!TypeOK'
        BY <1>1, <1>2, <1>8, <1>9, <1>12, Zenon DEF Structural!TypeOK
    <2> QED BY <2>1, <2>2, <2>3, <2>5, <2>6, Zenon DEF StructuralInv
<1>13. CASE ~Fits /\ pieces.buffer # 0
    <2>1. groups' = Append(groups, Structural!Piece(pieces.buffer))
        BY <1>1, <1>3, <1>13 DEF Structural!Emitted
    <2>2. PieceDone(pieces.buffer)
        BY <1>1, <1>3, <2>1, PieceIs
    <2>3. /\ InLine' /\ groups' \in Seq(Structural!Group) /\ Grouped' = last
          /\ groups' # <<>> /\ groups'[Len(groups')].cut
          /\ Structural!Held(groups', last) = Structural!Held(groups, last) + pieces.buffer
          /\ Structural!Parts(groups', last) = Structural!Parts(groups, last) + 1
          /\ \A i \in 1 .. last : i # last =>
                /\ Structural!Held(groups', i) = Structural!Held(groups, i)
                /\ Structural!Parts(groups', i) = Structural!Parts(groups, i)
          /\ \A g \in 1 .. Len(groups') : IsShort(groups'[g]) =>
                g \in 1 .. Len(groups) /\ groups'[g] = groups[g]
        BY <2>2, Zenon DEF PieceDone
    <2>4. Ready'
        <3>1. last > 0
            BY <1>3
        <3> QED BY <1>1, <1>3, <1>8, <1>9, <2>3, <3>1, Zenon DEF Ready, Structural!Open
    <2>5. more > MaxChars
        BY <1>5, <1>6, <1>13
    <2>6. Justified'
        <3> SUFFICES ASSUME NEW g \in 1 .. Len(groups), IsShort(groups[g]), groups[g].to < last
                     PROVE  groups[g].size + segments'[groups[g].to + 1].size
                                + 2 * StructuralSeparator > MaxChars
            BY <1>9, <2>3, Zenon DEF Justified, IsShort
        <3> QED BY <1>1, <1>9, <1>10, <2>5, StaysJustified
    <2>7. Pieced(Len(segments), pieces.buffer + pieces.rest)'
        <3>1. /\ Structural!Held(groups, last) + Structural!Parts(groups, last)
                    + (pieces.buffer + pieces.rest) + spare = size
              /\ Structural!Parts(groups, last) + spare >= 0
            BY <1>3, Zenon DEF Pieced
        <3>2. buffer + rest = n /\ size # 0
            <4>1. pieces.rest = 0 /\ pieces.buffer \in Nat
                BY <1>1, <1>3
            <4>2. pieces.buffer + pieces.rest = pieces.buffer
                BY <4>1
            <4> DEFINE b == pieces.buffer
            <4>3. b \in Nat /\ b <= size /\ b # 0 /\ size \in Nat
                BY <1>3, <1>13, <4>1, <4>2
            <4> HIDE DEF b, size
            <4>4. size # 0
                BY <4>3
            <4> QED BY <1>7, <1>13, <4>4
        <3>3. /\ Structural!Held(groups', last) + Structural!Parts(groups', last)
                    + (buffer + rest) + extra = more
              /\ Structural!Parts(groups', last) + extra >= 0
            <4> DEFINE held == Structural!Held(groups, last)
                       parts == Structural!Parts(groups, last)
                       held1 == Structural!Held(groups', last)
                       parts1 == Structural!Parts(groups', last)
            <4>1. PICK b : b = pieces.buffer
                OBVIOUS
            <4>2. /\ held \in Nat /\ parts \in Nat /\ b \in Nat /\ size \in Nat /\ spare \in Int
                  /\ held + parts + b + spare = size /\ parts + spare >= 0
                <5>1. pieces.rest = 0 /\ pieces.buffer \in Nat
                    BY <1>1, <1>3
                <5>2. pieces.buffer + pieces.rest = b
                    BY <4>1, <5>1
                <5> QED BY <1>3, <3>1, <4>1, <5>2, Zenon
            <4>3. held1 = held + b /\ parts1 = parts + 1
                BY <2>3, <4>1, Zenon
            <4>4. /\ size # 0
                  /\ more = IF size = 0 THEN n ELSE size + w + n
                  /\ extra = IF size = 0 THEN spare ELSE spare + w - 1
                BY <3>2 DEF more, extra
            <4> HIDE DEF size, spare, held, parts, held1, parts1
            <4>5. held1 + parts1 + n + extra = more /\ parts1 + extra >= 0
                BY <1>5, <4>2, <4>3, <4>4
            <4> QED BY <3>2, <4>5, Zenon DEF held1, parts1
        <3>4. pieces'.buffer + pieces'.rest = buffer + rest
            BY <1>8
        <3> QED BY <1>9, <3>3, <3>4, Zenon DEF Pieced
    <2>8. Adds'
        BY <1>6, <1>7, <1>8, <1>9, <1>11, <2>3, <2>7, Zenon DEF Adds
    <2>9. Structural!TypeOK'
        BY <1>1, <1>2, <1>8, <1>9, <2>3, Zenon DEF Structural!TypeOK
    <2> QED BY <2>3, <2>4, <2>6, <2>8, <2>9, Zenon DEF StructuralInv
<1>14. \/ groups' = groups /\ (Fits \/ pieces.buffer = 0)
       \/ ~Fits /\ pieces.buffer # 0
    BY <1>1, <1>3 DEF Structural!Emitted
<1> QED BY <1>12, <1>13, <1>14

LEMMA CutHolds ==
    ASSUME Structural!StructuralAssumption, StructuralInv, NEW k \in 1 .. MaxChars,
           NEW w \in Blanks, Structural!Cut(k, w)
    PROVE  StructuralInv'
<1> DEFINE last == Len(segments)
           size == segments[last].size
           spare == segments[last].spare
           left == pieces.rest - (k + w)
           rest == IF left > MaxChars THEN left ELSE 0
           buffer == IF left > MaxChars THEN 0 ELSE left
<1>1. /\ pieces.rest > MaxChars /\ k + w < pieces.rest
      /\ groups' = Append(groups, Structural!Piece(k))
      /\ pieces' = [pieces EXCEPT !.rest = rest, !.buffer = buffer]
      /\ segments' = [segments EXCEPT ![last].spare = @ + w - 1]
      /\ current' = current /\ chars' = chars /\ section' = section /\ closed' = closed
    BY Zenon DEF Structural!Cut
<1>2. Structural!TypeOK /\ InLine /\ Ready /\ Justified /\ Adds
    BY Zenon DEF StructuralInv
<1>3. /\ MaxChars \in Nat /\ MaxChars >= 1 /\ k \in Nat /\ k >= 1 /\ k <= MaxChars
      /\ w \in Nat /\ StructuralSeparator \in Nat
    BY StructuralConstants
<1>4. pieces.rest \in Nat /\ pieces.sentences \in Nat /\ pieces.buffer \in Nat
    BY <1>2, StructuralTypes
<1>5. pieces.on
    <2>1. pieces.rest # 0
        BY <1>1, <1>3
    <2>2. ~pieces.on => pieces.rest = 0
        BY <1>2, Zenon DEF Adds
    <2> QED BY <2>1, <2>2
<1>6. /\ ~closed /\ ~Structural!Open /\ last \in 1 .. last
      /\ pieces.rest = 0 \/ (pieces.rest > MaxChars /\ pieces.buffer = 0)
      /\ Pieced(last, pieces.buffer + pieces.rest)
      /\ size \in Nat /\ spare \in Int
      /\ Structural!Held(groups, last) \in Nat /\ Structural!Parts(groups, last) \in Nat
      /\ pieces.buffer + pieces.rest <= size
    BY <1>5, WhileCut, Zenon
<1>7. pieces.buffer = 0
    BY <1>1, <1>3, <1>4, <1>6
<1>8. /\ left \in Nat /\ left # 0
      /\ buffer \in Nat /\ rest \in Nat /\ buffer <= MaxChars /\ buffer + rest = left
      /\ rest = 0 \/ (rest > MaxChars /\ buffer = 0)
    <2>1. left \in Nat /\ left # 0
        <3>1. PICK r : r = pieces.rest
            OBVIOUS
        <3>2. r \in Nat /\ k + w < r
            BY <1>1, <1>4, <3>1, Zenon
        <3>3. r - (k + w) \in Nat \ {0}
            BY <1>3, <3>2
        <3> QED BY <3>1, <3>3
    <2> HIDE DEF left
    <2> QED BY <1>3, <2>1
<1>9. pieces.rest = left + k + w
    <2>1. PICK r : r = pieces.rest
        OBVIOUS
    <2>2. r \in Nat /\ left = r - (k + w)
        BY <1>4, <2>1, Zenon
    <2>3. r = left + k + w
        BY <1>3, <2>2
    <2> QED BY <2>1, <2>3, Zenon
<1> HIDE DEF left, rest, buffer
<1>10. /\ pieces' \in [on : BOOLEAN, sentences : Nat, buffer : Nat, rest : Nat]
       /\ pieces'.on /\ pieces'.buffer = buffer /\ pieces'.rest = rest
    <2>1. pieces \in [on : BOOLEAN, sentences : Nat, buffer : Nat, rest : Nat]
        BY <1>2, Zenon DEF Structural!TypeOK
    <2>2. pieces'.buffer = buffer /\ pieces'.rest = rest /\ pieces'.on = pieces.on
        BY <1>1, <2>1
    <2>3. pieces' \in [on : BOOLEAN, sentences : Nat, buffer : Nat, rest : Nat]
        <3> DEFINE Flag == BOOLEAN
        <3>1. pieces \in [on : Flag, sentences : Nat, buffer : Nat, rest : Nat]
            BY <2>1
        <3> HIDE DEF Flag
        <3>2. pieces' \in [on : Flag, sentences : Nat, buffer : Nat, rest : Nat]
            BY <1>1, <1>8, <3>1
        <3> QED BY <3>2 DEF Flag
    <2> QED BY <1>5, <2>2, <2>3, Zenon
<1>11. PieceDone(k)
    BY <1>1, <1>3, <1>5, PieceIs
<1>12. /\ InLine' /\ groups' \in Seq(Structural!Group) /\ Grouped' = last
       /\ groups' # <<>> /\ groups'[Len(groups')].cut
       /\ Structural!Held(groups', last) = Structural!Held(groups, last) + k
       /\ Structural!Parts(groups', last) = Structural!Parts(groups, last) + 1
       /\ \A i \in 1 .. last : i # last =>
             /\ Structural!Held(groups', i) = Structural!Held(groups, i)
             /\ Structural!Parts(groups', i) = Structural!Parts(groups, i)
       /\ \A g \in 1 .. Len(groups') : IsShort(groups'[g]) =>
             g \in 1 .. Len(groups) /\ groups'[g] = groups[g]
    BY <1>11, Zenon DEF PieceDone
<1>13. /\ segments' \in Seq(Structural!Segment) /\ Len(segments') = last
       /\ segments'[last].size = size /\ segments'[last].spare = spare + w - 1
       /\ \A i \in 1 .. last : segments'[i].size = segments[i].size
       /\ \A i \in 1 .. last : i # last => segments'[i] = segments[i]
    <2>1. segments \in Seq(Structural!Segment) /\ segments[last] \in Structural!Segment
        BY <1>2, <1>6, StructuralTypes
    <2> DEFINE s == [segments[last] EXCEPT !.spare = spare + w - 1]
    <2>2. segments' = [segments EXCEPT ![last] = s]
        BY <1>1
    <2>3. s \in Structural!Segment /\ s.size = size /\ s.spare = spare + w - 1
        <3> DEFINE Flag == BOOLEAN
        <3>1. Structural!Segment = [size : Nat, section : Sections \cup {NoSection}, heading : Flag,
                                    spare : Int]
            BY DEF Structural!Segment
        <3>2. spare + w - 1 \in Int
            BY <1>3, <1>6
        <3> HIDE DEF Flag
        <3> QED BY <2>1, <3>1, <3>2
    <2> HIDE DEF s, spare
    <2> QED BY <1>6, <2>1, <2>2, <2>3
<1>14. /\ Ready'
       /\ \A i \in 1 .. last : /\ segments'[i].size \in Nat
                               /\ segments[i].size <= segments'[i].size
    <2>1. last > 0
        BY <1>6
    <2>2. Ready'
        BY <1>1, <1>6, <1>10, <1>12, <1>13, <2>1, Zenon DEF Ready, Structural!Open
    <2>3. \A i \in 1 .. last : segments[i].size \in Nat
        BY <1>2, StructuralTypes
    <2>4. ASSUME NEW i \in 1 .. last
          PROVE  segments'[i].size \in Nat /\ segments[i].size <= segments'[i].size
        BY <1>13, <2>3
    <2> QED BY <2>2, <2>4
<1>15. Justified'
    <2> SUFFICES ASSUME NEW g \in 1 .. Len(groups), IsShort(groups[g]), groups[g].to < last
                 PROVE  groups[g].size + segments'[groups[g].to + 1].size
                            + 2 * StructuralSeparator > MaxChars
        BY <1>12, <1>13, Zenon DEF Justified, IsShort
    <2>1. size > MaxChars
        <3>1. PICK r : r = pieces.rest
            OBVIOUS
        <3>2. r \in Nat /\ r > MaxChars
            BY <1>1, <1>4, <3>1, Zenon
        <3>3. r <= size /\ size \in Nat
            <4>1. pieces.buffer + pieces.rest = r
                BY <1>4, <1>7, <3>1
            <4> QED BY <1>6, <4>1, Zenon
        <3> HIDE DEF size
        <3> QED BY <1>3, <3>2, <3>3
    <2>2. \/ groups[g].size + segments'[groups[g].to + 1].size + 2 * StructuralSeparator > MaxChars
          \/ /\ g = Len(groups) /\ groups[g].to + 1 = Len(segments)
             /\ ~(segments'[Len(segments)].size > MaxChars)
        BY <1>5, <1>13, <1>14, StaysJustified
    <2> QED BY <1>13, <2>1, <2>2, Zenon
<1>16. Pieced(Len(segments), pieces.buffer + pieces.rest)'
    <2>1. /\ Structural!Held(groups, last) + Structural!Parts(groups, last)
                + (pieces.buffer + pieces.rest) + spare = size
          /\ Structural!Parts(groups, last) + spare >= 0
        BY <1>6, Zenon DEF Pieced
    <2>2. /\ Structural!Held(groups', last) + Structural!Parts(groups', last)
                + left + (spare + w - 1) = size
          /\ Structural!Parts(groups', last) + (spare + w - 1) >= 0
        <3> DEFINE held == Structural!Held(groups, last)
                   parts == Structural!Parts(groups, last)
                   held1 == Structural!Held(groups', last)
                   parts1 == Structural!Parts(groups', last)
        <3>1. PICK r : r = pieces.rest
            OBVIOUS
        <3>2. /\ held \in Nat /\ parts \in Nat /\ r \in Nat /\ size \in Nat /\ spare \in Int
              /\ held + parts + r + spare = size /\ parts + spare >= 0
            <4>1. pieces.buffer + pieces.rest = r
                BY <1>4, <1>7, <3>1
            <4> QED BY <1>4, <1>6, <2>1, <3>1, <4>1, Zenon
        <3>3. held1 = held + k /\ parts1 = parts + 1 /\ r = left + k + w
            BY <1>9, <1>12, <3>1, Zenon
        <3>4. left \in Nat
            BY <1>8
        <3> HIDE DEF size, spare, held, parts, held1, parts1
        <3>5. held1 + parts1 + left + (spare + w - 1) = size /\ parts1 + (spare + w - 1) >= 0
            BY <1>3, <3>2, <3>3, <3>4
        <3> QED BY <3>5, Zenon DEF held1, parts1
    <2>3. pieces'.buffer + pieces'.rest = left
        BY <1>8, <1>10
    <2> QED BY <1>13, <2>2, <2>3, Zenon DEF Pieced
<1>17. \A i \in 1 .. last : i = last \/ Whole(i)'
    <2>1. \A i \in 1 .. last : i = last \/ Whole(i)
        BY <1>2, Zenon DEF Adds
    <2> QED BY <1>12, <1>13, <2>1, Zenon DEF Whole
<1>18. Adds'
    <2>1. buffer + rest # 0
        BY <1>8
    <2> QED BY <1>8, <1>10, <1>13, <1>16, <1>17, <2>1, Zenon DEF Adds
<1>19. Structural!TypeOK'
    BY <1>1, <1>2, <1>10, <1>12, <1>13, Zenon DEF Structural!TypeOK
<1> QED BY <1>12, <1>14, <1>15, <1>18, <1>19, Zenon DEF StructuralInv

LEMMA EndLongHolds ==
    ASSUME Structural!StructuralAssumption, StructuralInv, Structural!EndLong
    PROVE  StructuralInv'
<1> DEFINE last == Len(segments)
           size == segments[last].size
<1>1. /\ pieces.on /\ pieces.rest = 0 /\ size > MaxChars
      /\ groups' = Structural!Emitted
      /\ pieces' = [Structural!NoPieces EXCEPT !.sentences = pieces.sentences]
      /\ segments' = segments /\ current' = current /\ chars' = chars /\ section' = section
      /\ closed' = closed
    BY Zenon DEF Structural!EndLong
<1>2. Structural!TypeOK /\ InLine /\ Ready /\ Justified /\ Adds
    BY Zenon DEF StructuralInv
<1>3. MaxChars \in Nat /\ StructuralSeparator \in Nat
    BY StructuralConstants
<1>4. /\ ~closed /\ ~Structural!Open /\ last \in 1 .. last
      /\ pieces.buffer \in Nat /\ pieces.buffer <= MaxChars
      /\ size # 0 => pieces.buffer + pieces.rest # 0
      /\ Pieced(last, pieces.buffer + pieces.rest)
      /\ size \in Nat /\ segments[last].spare \in Int
      /\ Structural!Held(groups, last) \in Nat /\ Structural!Parts(groups, last) \in Nat
    BY <1>1, WhileCut, Zenon
<1>5. pieces.buffer # 0
    <2>1. size # 0
        BY <1>1, <1>3
    <2>2. pieces.rest = 0
        BY <1>1
    <2> HIDE DEF size
    <2> QED BY <1>4, <2>1, <2>2
<1>6. groups' = Append(groups, Structural!Piece(pieces.buffer))
    BY <1>1, <1>4, <1>5 DEF Structural!Emitted
<1>7. PieceDone(pieces.buffer)
    BY <1>1, <1>4, <1>6, PieceIs
<1>8. /\ InLine' /\ groups' \in Seq(Structural!Group) /\ Grouped' = last
      /\ groups' # <<>> /\ groups'[Len(groups')].cut
      /\ Structural!Held(groups', last) = Structural!Held(groups, last) + pieces.buffer
      /\ Structural!Parts(groups', last) = Structural!Parts(groups, last) + 1
      /\ \A i \in 1 .. last : i # last =>
            /\ Structural!Held(groups', i) = Structural!Held(groups, i)
            /\ Structural!Parts(groups', i) = Structural!Parts(groups, i)
      /\ \A g \in 1 .. Len(groups') : IsShort(groups'[g]) =>
            g \in 1 .. Len(groups) /\ groups'[g] = groups[g]
    BY <1>7, Zenon DEF PieceDone
<1>9. /\ pieces' \in [on : BOOLEAN, sentences : Nat, buffer : Nat, rest : Nat]
      /\ ~pieces'.on /\ pieces'.rest = 0
    <2>1. pieces.sentences \in Nat
        BY <1>2, StructuralTypes
    <2> QED BY <1>1, <2>1 DEF Structural!NoPieces
<1>10. Ready'
    BY <1>1, <1>4, <1>8, <1>9, Zenon DEF Ready, Structural!Open
<1>11. \A i \in 1 .. last : segments'[i].size \in Nat /\ segments[i].size <= segments'[i].size
    <2>1. \A i \in 1 .. last : segments[i].size \in Nat
        BY <1>2, StructuralTypes
    <2> QED BY <1>1, <2>1
<1>12. Justified'
    <2> SUFFICES ASSUME NEW g \in 1 .. Len(groups), IsShort(groups[g]), groups[g].to < last
                 PROVE  groups[g].size + segments[groups[g].to + 1].size
                            + 2 * StructuralSeparator > MaxChars
        BY <1>1, <1>8, Zenon DEF Justified, IsShort
    <2>1. \/ groups[g].size + segments'[groups[g].to + 1].size + 2 * StructuralSeparator > MaxChars
          \/ /\ g = Len(groups) /\ groups[g].to + 1 = Len(segments)
             /\ ~(segments'[Len(segments)].size > MaxChars)
        BY <1>1, <1>11, StaysJustified
    <2> QED BY <1>1, <2>1, Zenon
<1>13. Whole(last)'
    <2> DEFINE spare == segments[last].spare
    <2>1. Structural!Held(groups, last) + Structural!Parts(groups, last)
              + (pieces.buffer + pieces.rest) + spare = size
        BY <1>4, Zenon DEF Pieced
    <2>2. Structural!Held(groups', last) + Structural!Parts(groups', last) + spare = size + 1
        <3> DEFINE held == Structural!Held(groups, last)
                   parts == Structural!Parts(groups, last)
                   held1 == Structural!Held(groups', last)
                   parts1 == Structural!Parts(groups', last)
        <3>1. PICK b : b = pieces.buffer
            OBVIOUS
        <3>2. /\ held \in Nat /\ parts \in Nat /\ b \in Nat /\ size \in Nat /\ spare \in Int
              /\ held + parts + b + spare = size
            <4>1. pieces.buffer + pieces.rest = b
                BY <1>1, <1>4, <3>1
            <4> QED BY <1>4, <2>1, <3>1, <4>1, Zenon
        <3>3. held1 = held + b /\ parts1 = parts + 1
            BY <1>8, <3>1, Zenon
        <3> HIDE DEF size, spare, held, parts, held1, parts1
        <3>4. held1 + parts1 + spare = size + 1
            BY <3>2, <3>3
        <3> QED BY <3>4, Zenon DEF held1, parts1
    <2> QED BY <1>1, <2>2, Zenon DEF Whole
<1>14. \A i \in 1 .. last : Whole(i)'
    <2>1. \A i \in 1 .. last : i = last \/ Whole(i)
        BY <1>2, Zenon DEF Adds
    <2>2. ASSUME NEW i \in 1 .. last, i # last PROVE Whole(i)'
        BY <1>1, <1>8, <2>1, <2>2, Zenon DEF Whole
    <2>3. ASSUME NEW i \in 1 .. last, i = last PROVE Whole(i)'
        BY <1>1, <1>13, <2>3, Zenon DEF Whole
    <2> QED BY <2>2, <2>3
<1>15. Adds'
    BY <1>1, <1>9, <1>14, Zenon DEF Adds
<1>16. Structural!TypeOK'
    BY <1>1, <1>2, <1>8, <1>9, Zenon DEF Structural!TypeOK
<1> QED BY <1>8, <1>10, <1>12, <1>15, <1>16, Zenon DEF StructuralInv

LEMMA EndHoldsGroups ==
    ASSUME Structural!StructuralAssumption, StructuralInv, Structural!End
    PROVE  StructuralInv'
<1>1. /\ ~closed /\ ~pieces.on /\ groups' = Structural!Flushed
      /\ current' = Structural!Nobody /\ chars' = 0 /\ section' = NoSection /\ closed' = TRUE
      /\ segments' = segments /\ pieces' = pieces
    BY Zenon DEF Structural!End
<1>2. Structural!TypeOK /\ Justified /\ Adds
    BY Zenon DEF StructuralInv
<1>3. /\ Len(segments) \in Nat /\ Len(groups) \in Nat
      /\ \A g \in 1 .. Len(groups) : groups[g].to \in Nat
    BY <1>2, StructuralTypes
<1>4. FlushDone
    BY <1>1, FlushedIs
<1>5. /\ InLine' /\ groups' \in Seq(Structural!Group) /\ Grouped' = Len(segments)
      /\ \A i \in Nat : /\ Structural!Held(groups', i) = Structural!Held(groups, i)
                        /\ Structural!Parts(groups', i) = Structural!Parts(groups, i)
      /\ \A g \in 1 .. Len(groups') : IsShort(groups'[g]) =>
            \/ g \in 1 .. Len(groups) /\ groups'[g] = groups[g] /\ groups[g].to < Len(segments)
            \/ groups'[g].to = Len(segments)
    BY <1>4, Zenon DEF FlushDone
<1>6. Ready'
    BY <1>1, <1>5, Zenon DEF Ready, Structural!Open
<1>7. Justified'
    <2> SUFFICES ASSUME NEW g \in 1 .. Len(groups'), IsShort(groups'[g]), groups'[g].to < Len(segments)
                 PROVE  groups'[g].size + segments[groups'[g].to + 1].size
                            + 2 * StructuralSeparator > MaxChars
        BY <1>1, Zenon DEF Justified, IsShort
    <2>1. groups'[g].to # Len(segments)
        BY <1>3
    <2> QED BY <1>1, <1>2, <1>5, <2>1, Zenon DEF Justified
<1>8. Adds'
    <2>1. \A i \in 1 .. Len(segments) : i \in Nat
        OBVIOUS
    <2>2. /\ pieces.rest = 0
          /\ \A i \in 1 .. Len(segments) : Whole(i) /\ i \in Nat
        BY <1>1, <1>2, <2>1, Zenon DEF Adds
    <2> QED BY <1>1, <1>5, <2>2, Zenon DEF Adds, Whole
<1>9. Structural!TypeOK'
    <2>1. current' \in [from : Nat, to : Nat] /\ chars' \in Nat
        BY <1>1 DEF Structural!Nobody
    <2> QED BY <1>1, <1>2, <1>5, <2>1, Zenon DEF Structural!TypeOK
<1> QED BY <1>5, <1>6, <1>7, <1>8, <1>9, Zenon DEF StructuralInv

LEMMA StructuralInit == ASSUME Structural!StructuralAssumption PROVE Structural!Init => StructuralInv
<1> SUFFICES ASSUME Structural!Init PROVE StructuralInv
    OBVIOUS
<1>1. /\ segments = <<>> /\ groups = <<>> /\ current = Structural!Nobody /\ chars = 0
      /\ section = NoSection /\ pieces = Structural!NoPieces /\ closed = FALSE
    BY Zenon DEF Structural!Init
<1>2. /\ Len(<<>>) = 0 /\ 1 .. Len(<<>>) = {} /\ 2 .. Len(<<>>) = {}
      /\ <<>> \in Seq(Structural!Segment) /\ <<>> \in Seq(Structural!Group)
    OBVIOUS
<1>3. Structural!TypeOK
    <2>1. current \in [from : Nat, to : Nat] /\ chars \in Nat
        BY <1>1 DEF Structural!Nobody
    <2>2. pieces \in [on : BOOLEAN, sentences : Nat, buffer : Nat, rest : Nat]
        BY <1>1 DEF Structural!NoPieces
    <2> QED BY <1>1, <1>2, <2>1, <2>2, Zenon DEF Structural!TypeOK
<1>4. ~pieces.on /\ pieces.rest = 0 /\ ~Structural!Open
    <2>1. ~pieces.on /\ pieces.rest = 0
        BY <1>1 DEF Structural!NoPieces
    <2> QED BY <1>1, <2>1, Zenon DEF Structural!Open
<1>5. InLine /\ Ready /\ Justified /\ Adds
    BY <1>1, <1>2, <1>4, Zenon DEF InLine, Ready, Grouped, Justified, Adds
<1> QED BY <1>3, <1>5, Zenon DEF StructuralInv

LEMMA StructuralStep ==
    ASSUME Structural!StructuralAssumption
    PROVE  StructuralInv /\ [Structural!Next]_(Structural!vars) => StructuralInv'
<1> SUFFICES ASSUME StructuralInv, [Structural!Next]_(Structural!vars) PROVE StructuralInv'
    OBVIOUS
<1>1. CASE UNCHANGED Structural!vars
    BY <1>1, Zenon DEF StructuralInv, Structural!vars, Structural!TypeOK, InLine, Grouped, Ready,
                       Justified, Adds, Pieced, Whole, Structural!Open
<1>2. CASE \E s \in [size : Sizes, section : Sections \cup {NoSection}, heading : BOOLEAN,
                      spare : {0}] : Structural!Add(s)
    BY <1>2, AddHoldsGroups
<1>3. CASE Structural!AddLong \/ Structural!EndLong \/ Structural!End
    BY <1>3, AddLongHolds, EndLongHolds, EndHoldsGroups
<1>4. CASE \E w \in Blanks, n \in Sizes : Structural!Sentence(n, w)
    BY <1>4, SentenceHolds
<1>5. CASE \E w \in Blanks, k \in 1 .. MaxChars : Structural!Cut(k, w)
    BY <1>5, CutHolds
<1> QED BY <1>1, <1>2, <1>3, <1>4, <1>5, Zenon DEF Structural!Next

LEMMA StructuralInductive == Spec => []StructuralInv
<1>1. Structural!StructuralAssumption
    BY ServicesConstants DEF ServicesAssumption
<1>2. Init => StructuralInv
    <2>1. Init => Structural!Init
        BY Zenon DEF Init
    <2> QED BY <1>1, <2>1, StructuralInit
<1>3. [Next]_vars => [Structural!Next]_(Structural!vars)
    BY Zenon DEF Next, Only, vars, Structural!vars, structuralVars, chunkVars
<1>4. StructuralInv /\ [Next]_vars => StructuralInv'
    BY <1>1, <1>3, StructuralStep
<1> QED BY <1>2, <1>4, PTL DEF Spec

\* For every document and every limit: fixed chunks leave nothing out and repeat only
\* the overlap; structural chunks keep to the limit and hold the segments in their
\* order, whole or cut at blanks, and a short one ends only before what does not fit
\* (FixedChunker.chunk, StructuralChunker.chunk and _split_long_text).
THEOREM TextIsKept == Spec => []ChunksKeepText
<1>1. ASSUME Structural!StructuralAssumption, StructuralInv
      PROVE  Structural!WithinLimit /\ Structural!SegmentsAreKept /\ Structural!ShortIsForced
    <2>1. Structural!TypeOK /\ InLine /\ Ready /\ Justified /\ Adds
        BY <1>1, Zenon DEF StructuralInv
    <2>2. /\ groups \in Seq(Structural!Group) /\ segments \in Seq(Structural!Segment)
          /\ Len(groups) \in Nat /\ Len(segments) \in Nat /\ Grouped \in Nat
          /\ DOMAIN groups = 1 .. Len(groups) /\ DOMAIN segments = 1 .. Len(segments)
          /\ \A g \in 1 .. Len(groups) : groups[g].to \in Nat /\ groups[g].from \in Nat
        BY <2>1, StructuralTypes
    <2>3. Structural!WithinLimit
        BY <2>1, <2>2, Zenon DEF Structural!WithinLimit, InLine
    <2>4. Structural!ShortIsForced
        <3> SUFFICES ASSUME NEW g \in 1 .. Len(groups) - 1, IsShort(groups[g])
                     PROVE  groups[g].size + segments[groups[g].to + 1].size
                                + 2 * StructuralSeparator > MaxChars
            BY Zenon DEF Structural!ShortIsForced, IsShort
        <3>1. g \in 1 .. Len(groups) /\ g # Len(groups)
            BY <2>2
        <3>2. ~groups[g].cut
            BY Zenon DEF IsShort
        <3>3. groups[g].to < Grouped
            BY <2>1, <3>1, <3>2, Zenon DEF InLine
        <3>4. groups[g].to < Len(segments)
            <4>1. Grouped <= Len(segments)
                BY <2>1, GroupedIsRead
            <4>2. groups[g].to \in Nat /\ Grouped \in Nat /\ Len(segments) \in Nat
                BY <2>2, <3>1, Zenon
            <4> QED BY <3>3, <4>1, <4>2
        <3> QED BY <2>1, <3>1, <3>4, Zenon DEF Justified
    <2>5. ASSUME closed PROVE Structural!SegmentsAreKept
        <3>1. ~pieces.on /\ Grouped = Len(segments)
            BY <2>1, <2>5, Zenon DEF Ready
        <3>2. (groups = <<>>) = (segments = <<>>)
            <4>1. groups = <<>> => Len(segments) = 0
                BY <3>1 DEF Grouped
            <4>2. groups # <<>> => Len(segments) # 0
                <5>1. groups # <<>> => Len(groups) \in 1 .. Len(groups) /\ Grouped = groups[Len(groups)].to
                    BY <2>2 DEF Grouped
                <5>2. groups # <<>> => /\ 1 <= groups[Len(groups)].from
                                       /\ groups[Len(groups)].from <= groups[Len(groups)].to
                    BY <2>1, <5>1, Zenon DEF InLine
                <5>3. groups # <<>> => groups[Len(groups)].from \in Nat /\ groups[Len(groups)].to \in Nat
                    BY <2>2, <5>1, Zenon
                <5> QED BY <3>1, <5>1, <5>2, <5>3
            <4>3. segments = <<>> <=> Len(segments) = 0
                BY <2>2
            <4> QED BY <4>1, <4>2, <4>3
        <3>3. groups # <<>> => groups[1].from = 1 /\ groups[Len(groups)].to = Len(segments)
            BY <2>1, <3>1, Zenon DEF InLine, Grouped
        <3>4. \A i \in 1 .. Len(segments) : Whole(i)
            BY <2>1, <3>1, Zenon DEF Adds
        <3>5. \A i \in DOMAIN segments : Structural!Parts(groups, i) > 0 =>
                  Structural!Held(groups, i) + Structural!Parts(groups, i) + segments[i].spare
                      = segments[i].size + 1
            BY <2>2, <3>4, Zenon DEF Whole
        <3>6. \A g \in 2 .. Len(groups) :
                  \/ groups[g].from = groups[g - 1].to + 1
                  \/ groups[g].from = groups[g - 1].to /\ groups[g].cut /\ groups[g - 1].cut
            BY <2>1, Zenon DEF InLine
        <3> QED BY <3>2, <3>3, <3>5, <3>6, Zenon DEF Structural!SegmentsAreKept
    <2> QED BY <2>3, <2>4, <2>5, Zenon DEF Structural!SegmentsAreKept
<1>2. Structural!StructuralAssumption
    BY ServicesConstants DEF ServicesAssumption
<1>3. FixedInv => Fixed!NothingLeftOut /\ Fixed!OnlyOverlapRepeats /\ Fixed!SourcesAreNamed
    BY Zenon DEF FixedInv
<1>4. FixedInv /\ StructuralInv => ChunksKeepText
    BY <1>1, <1>2, <1>3, Zenon DEF ChunksKeepText, Of
<1> QED BY <1>4, FixedInductive, StructuralInductive, PTL
=============================================================================
