------------------------------ MODULE Sublist ------------------------------
(***************************************************************************)
(* The elements of a list that are in a set, in their order: what SelectSeq *)
(* returns, said by counting, so that it can be reasoned about.            *)
(***************************************************************************)
EXTENDS Naturals, Sequences, FiniteSets

Kept(list, S) ==
    LET places == {i \in DOMAIN list : list[i] \in S}
        UpTo(i) == Cardinality({j \in places : j <= i})
        At(k) == CHOOSE i \in places : UpTo(i) = k
    IN  [k \in 1 .. Cardinality(places) |-> list[At(k)]]
=============================================================================
