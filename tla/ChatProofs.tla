----------------------------- MODULE ChatProofs -----------------------------
(***************************************************************************)
(* The chats of Days 15 and 25, for any sessions and overlapping turns.    *)
(*                                                                         *)
(* A turn of the journal finds its own messages again because it counts    *)
(* how many were dropped. The tables of Day 25 agree because a turn that   *)
(* passed its first commit has a question that nobody answered yet. A      *)
(* turn alone in its chat, that no death cut, is the only one to write     *)
(* there: what it holds is what the tables have.                           *)
(***************************************************************************)
EXTENDS ToolProofs

----------------------------------------------------------------------------
(* The journal of Day 15.                                                  *)

TurnState == [at : {"idle", "works", "continues"}, since : 0 .. Keep, intact : BOOLEAN]

JournalTyped ==
    /\ journal \in Seq(Journal!Message) /\ Len(journal) <= Keep
    /\ journalTurn \in [JournalTurns -> TurnState]

JournalInv == JournalTyped /\ Journal!PlaceIsRemembered /\ Journal!TurnIsDelivered

LEMMA SaysIsMessage ==
    ASSUME NEW t \in JournalTurns, NEW kind \in Journal!Kinds PROVE Journal!Says(t, kind) \in Journal!Message
BY SMT DEF Journal!Says, Journal!Message

\* Cutting the journal to its last messages changes nothing below the limit.
LEMMA KeptIsShort ==
    ASSUME Journal!KeepAssumption, NEW list \in Seq(Journal!Message)
    PROVE  /\ Journal!Kept(list) \in Seq(Journal!Message) /\ Len(Journal!Kept(list)) <= Keep
           /\ Len(list) <= Keep => Journal!Kept(list) = list
<1>1. Len(list) \in Nat
    BY SMT
<1>2. CASE Len(list) <= Keep
    <2>1. Journal!Kept(list) = list
        BY <1>1, <1>2, SMT DEF Journal!Kept, Journal!KeepAssumption
    <2> QED BY <1>2, <2>1, Zenon
<1>3. CASE ~(Len(list) <= Keep)
    <2> DEFINE from == Len(list) - Keep + 1
    <2>1. Journal!Kept(list) = SubSeq(list, from, Len(list))
        BY <1>1, <1>3, SMT DEF Journal!Kept, Journal!From, Journal!KeepAssumption
    <2>2. from \in 1 .. Len(list) + 1 /\ Len(list) - from + 1 = Keep
        BY <1>1, <1>3, SMT DEF Journal!KeepAssumption
    <2>3. SubSeq(list, from, Len(list)) \in Seq(Journal!Message)
          /\ Len(SubSeq(list, from, Len(list))) = Len(list) - from + 1
        <3> HIDE DEF from
        <3> QED BY <1>1, <2>2, SMT
    <2> QED BY <1>3, <2>1, <2>2, <2>3, SMT DEF Journal!KeepAssumption
<1> QED BY <1>2, <1>3

\* One more message: the old ones stay where they are unless the journal is full.
LEMMA OneMessageMore ==
    ASSUME Journal!KeepAssumption, NEW list \in Seq(Journal!Message), NEW m \in Journal!Message
    PROVE  /\ Journal!Kept(Append(list, m)) \in Seq(Journal!Message)
           /\ Len(Journal!Kept(Append(list, m))) <= Keep
           /\ Len(list) + 1 <= Keep =>
                /\ Journal!Kept(Append(list, m)) = Append(list, m)
                /\ Len(Append(list, m)) = Len(list) + 1
                /\ Append(list, m)[Len(list) + 1] = m
                /\ \A i \in 1 .. Len(list) : Append(list, m)[i] = list[i]
<1>1. Append(list, m) \in Seq(Journal!Message) /\ Len(Append(list, m)) = Len(list) + 1
      /\ Append(list, m)[Len(list) + 1] = m
      /\ \A i \in 1 .. Len(list) : Append(list, m)[i] = list[i]
    BY SMT
<1> DEFINE more == Append(list, m)
<1>2. /\ Journal!Kept(more) \in Seq(Journal!Message) /\ Len(Journal!Kept(more)) <= Keep
      /\ Len(more) <= Keep => Journal!Kept(more) = more
    BY <1>1, KeptIsShort, Zenon
<1>3. Len(list) + 1 <= Keep => Len(more) <= Keep
    BY <1>1, Zenon
<1> QED BY <1>1, <1>2, <1>3, Zenon

\* What follows a place begins after it and ends where the whole ends.
LEMMA EndsOfRest ==
    ASSUME NEW list \in Seq(Journal!Message), NEW since \in Nat, since < Len(list)
    PROVE  /\ Head(Journal!From(list, since)) = list[since + 1]
           /\ Journal!From(list, since)[Len(Journal!From(list, since))] = list[Len(list)]
<1> DEFINE rest == SubSeq(list, since + 1, Len(list))
           size == Len(list) - since
<1>1. Len(list) \in Nat /\ size \in Nat /\ size > 0 /\ since + 1 \in 1 .. Len(list)
      /\ size = Len(list) - (since + 1) + 1
      /\ since + size = Len(list) /\ 1 \in 1 .. size /\ size \in 1 .. size
    BY SMT
<1>2. rest \in Seq(Journal!Message) /\ Len(rest) = size
    BY <1>1, SMT
<1>3. \A i \in 1 .. size : rest[i] = list[since + i]
    BY <1>1, SMT
<1> HIDE DEF rest, size
<1>4. Head(rest) = rest[1]
    BY <1>1, <1>2, SMT
<1>5. Head(rest) = list[since + 1] /\ rest[Len(rest)] = list[Len(list)]
    BY <1>1, <1>2, <1>3, <1>4, Zenon
<1> QED BY <1>5, Zenon DEF Journal!From, rest

\* The journal after one more message.
LEMMA JournalAdds ==
    ASSUME Journal!KeepAssumption, NEW old \in Seq(Journal!Message), NEW m \in Journal!Message
    PROVE  /\ Journal!Kept(Append(old, m)) \in Seq(Journal!Message) /\ Len(Journal!Kept(Append(old, m))) <= Keep
           /\ Len(old) + 1 <= Keep =>
                  /\ Len(Journal!Kept(Append(old, m))) = Len(old) + 1
                  /\ Journal!Kept(Append(old, m))[Len(old) + 1] = m
                  /\ Len(old) <= Len(Journal!Kept(Append(old, m)))
                  /\ Len(old) < Len(Journal!Kept(Append(old, m)))
                  /\ \A i \in 1 .. Len(old) : Journal!Kept(Append(old, m))[i] = old[i]
<1> DEFINE new == Journal!Kept(Append(old, m))
<1>1. new \in Seq(Journal!Message) /\ Len(new) <= Keep
    BY OneMessageMore, Zenon
<1>2. ASSUME Len(old) + 1 <= Keep
      PROVE  /\ Len(new) = Len(old) + 1 /\ new[Len(old) + 1] = m
             /\ \A i \in 1 .. Len(old) : new[i] = old[i]
    <2>1. new = Append(old, m)
        BY <1>2, OneMessageMore, Zenon
    <2>2. /\ Len(Append(old, m)) = Len(old) + 1 /\ Append(old, m)[Len(old) + 1] = m
          /\ \A i \in 1 .. Len(old) : Append(old, m)[i] = old[i]
        BY SMT
    <2> QED BY <2>1, <2>2, Zenon
<1>3. Len(old) \in Nat
    BY SMT
<1>4. Len(new) = Len(old) + 1 => Len(old) <= Len(new) /\ Len(old) < Len(new)
    BY <1>3, SMT
<1> QED BY <1>1, <1>2, <1>4, Zenon

\* What is lost is not forgotten, and nothing else changes.
LEMMA DisturbedTurn ==
    ASSUME JournalTyped, NEW u \in JournalTurns, NEW lost \in BOOLEAN
    PROVE  /\ Journal!Disturbed(lost)[u] \in TurnState
           /\ Journal!Disturbed(lost)[u].at = journalTurn[u].at /\ Journal!Disturbed(lost)[u].since = journalTurn[u].since
           /\ Journal!Disturbed(lost)[u].intact => journalTurn[u].intact /\ ~lost
<1> DEFINE flag == journalTurn[u].intact /\ ~lost
           state == journalTurn[u]
<1>1. flag \in BOOLEAN
    OBVIOUS
<1>2. Journal!Disturbed(lost)[u] = [state EXCEPT !.intact = flag]
    BY Zenon DEF Journal!Disturbed
<1>3. state \in TurnState
    BY Zenon DEF JournalTyped
<1>4. ASSUME NEW s \in TurnState, NEW f \in BOOLEAN
      PROVE  /\ [s EXCEPT !.intact = f] \in TurnState
             /\ [s EXCEPT !.intact = f].at = s.at /\ [s EXCEPT !.intact = f].since = s.since
             /\ [s EXCEPT !.intact = f].intact = f
    BY SMT DEF TurnState
<1> HIDE DEF state
<1>5. /\ Journal!Disturbed(lost)[u] \in TurnState
      /\ Journal!Disturbed(lost)[u].at = state.at /\ Journal!Disturbed(lost)[u].since = state.since
      /\ Journal!Disturbed(lost)[u].intact = flag
    BY <1>1, <1>2, <1>3, <1>4, Zenon
<1> QED BY <1>5, Zenon DEF state

LEMMA JournalInit == ASSUME Journal!KeepAssumption PROVE Journal!Init => JournalInv
BY SMT DEF Journal!Init, JournalInv, JournalTyped, TurnState, Journal!PlaceIsRemembered, Journal!TurnIsDelivered, Journal!Idle, Journal!NoReply, Journal!Reply,
           Journal!KeepAssumption

\* What is added at the end of the journal leaves a turn at its place.
LEMMA PlaceStays ==
    ASSUME Journal!KeepAssumption, JournalTyped, Journal!PlaceIsRemembered, NEW t \in JournalTurns, NEW lost \in BOOLEAN,
           journalTurn'[t].at # "idle" /\ journalTurn'[t].intact =>
               journalTurn[t].at # "idle" /\ journalTurn[t].intact /\ ~lost,
           journalTurn'[t].at # "idle" => journalTurn'[t].since = journalTurn[t].since,
           Len(journal') \in Nat,
           ~lost => /\ Len(journal) <= Len(journal')
                    /\ \A i \in 1 .. Len(journal) : journal'[i] = journal[i]
    PROVE  journalTurn'[t].at # "idle" /\ journalTurn'[t].intact =>
               /\ journalTurn'[t].since < Len(journal')
               /\ journal'[journalTurn'[t].since + 1] = Journal!Says(t, "user")
<1> SUFFICES ASSUME journalTurn'[t].at # "idle", journalTurn'[t].intact
             PROVE  /\ journalTurn'[t].since < Len(journal')
                    /\ journal'[journalTurn'[t].since + 1] = Journal!Says(t, "user")
    OBVIOUS
<1>1. journalTurn[t].at # "idle" /\ journalTurn[t].intact /\ ~lost /\ journalTurn'[t].since = journalTurn[t].since
    OBVIOUS
<1>2. journalTurn[t].since < Len(journal) /\ journal[journalTurn[t].since + 1] = Journal!Says(t, "user")
    BY <1>1, Zenon DEF Journal!PlaceIsRemembered
<1>3. journalTurn[t].since \in Nat /\ Len(journal) \in Nat
    BY SMT DEF JournalTyped, TurnState, Journal!KeepAssumption
<1>4. journalTurn[t].since + 1 \in 1 .. Len(journal) /\ journalTurn[t].since < Len(journal')
    BY <1>1, <1>2, <1>3, SMT
<1> QED BY <1>1, <1>2, <1>4, Zenon

\* The end of a turn that has told `told'.
LEMMA AnswersKeeps ==
    ASSUME Journal!KeepAssumption, JournalInv, NEW t \in JournalTurns, journalTurn[t].at # "idle",
           NEW told \in Seq(Journal!Message), NEW lost \in BOOLEAN, NEW forced,
           ~lost => /\ Len(told) + 1 <= Keep /\ Len(journal) <= Len(told)
                    /\ \A i \in 1 .. Len(journal) : told[i] = journal[i]
                    /\ forced \/ (Len(journal) < Len(told) /\ told[Len(told)] = Journal!Says(t, "work")),
           Journal!Answers(t, told, lost, forced)
    PROVE  JournalInv'
<1> DEFINE debug == Journal!Says(t, "debug")
           traced == Journal!Kept(Append(told, debug))
<1>1. debug \in Journal!Message
    BY SaysIsMessage, SMT DEF Journal!Kinds
<1>2. /\ traced \in Seq(Journal!Message) /\ Len(traced) <= Keep
      /\ Len(told) + 1 <= Keep =>
            /\ traced = Append(told, debug)
            /\ Len(Append(told, debug)) = Len(told) + 1
            /\ Append(told, debug)[Len(told) + 1] = debug
            /\ \A i \in 1 .. Len(told) : Append(told, debug)[i] = told[i]
    BY <1>1, OneMessageMore, Zenon
<1>3. /\ journal' = traced /\ journalTurn' = [Journal!Disturbed(lost) EXCEPT ![t] = Journal!Idle]
      /\ reply'.to = {t} /\ reply'.messages = Journal!From(traced, journalTurn[t].since)
      /\ reply'.answer = Journal!WorkFrom(told, journalTurn[t].since) /\ reply'.forced = forced
      /\ reply'.intact => journalTurn[t].intact /\ ~lost
    <2> DEFINE whole == journalTurn[t].intact /\ ~lost
               answer == Journal!WorkFrom(told, journalTurn[t].since)
               rest == Journal!From(traced, journalTurn[t].since)
    <2>1. /\ journal' = traced /\ journalTurn' = [Journal!Disturbed(lost) EXCEPT ![t] = Journal!Idle]
          /\ reply' = Journal!Reply({t}, rest, answer, whole, forced)
        BY Zenon DEF Journal!Answers
    <2>2. whole => journalTurn[t].intact /\ ~lost
        OBVIOUS
    <2> HIDE DEF whole, answer, rest
    <2>3. /\ reply'.to = {t} /\ reply'.messages = rest /\ reply'.intact = whole
          /\ reply'.answer = answer /\ reply'.forced = forced
        BY <2>1, Zenon DEF Journal!Reply
    <2> QED BY <2>1, <2>2, <2>3, Zenon DEF rest, answer
<1> HIDE DEF traced, debug
<1>4. Len(told) \in Nat /\ Len(journal) \in Nat /\ Len(traced) \in Nat
    BY <1>2, SMT DEF JournalInv, JournalTyped
<1>5. ~lost => /\ Len(traced) = Len(told) + 1 /\ traced[Len(traced)] = debug
               /\ \A i \in 1 .. Len(told) : traced[i] = told[i]
    BY <1>2, Zenon
<1>6. ~lost => /\ Len(journal) < Len(traced)
               /\ \A i \in 1 .. Len(journal) : traced[i] = journal[i]
    BY <1>4, <1>5, SMT
<1>7. \A u \in JournalTurns : journalTurn'[u] = IF u = t THEN Journal!Idle ELSE Journal!Disturbed(lost)[u]
    BY <1>3, Zenon DEF Journal!Disturbed
<1>8. JournalTyped'
    <2>1. Journal!Idle \in TurnState
        BY SMT DEF Journal!Idle, TurnState, Journal!KeepAssumption
    <2>2. \A u \in JournalTurns : journalTurn'[u] \in TurnState
        BY <1>7, <2>1, DisturbedTurn, Zenon DEF JournalInv
    <2>3. journalTurn' = [u \in JournalTurns |-> journalTurn'[u]]
        BY <1>3, Zenon DEF Journal!Disturbed
    <2>4. journalTurn' \in [JournalTurns -> TurnState]
        BY <2>2, <2>3, Zenon
    <2> QED BY <1>2, <1>3, <2>4, Zenon DEF JournalTyped
<1>9. Journal!PlaceIsRemembered'
    <2> SUFFICES ASSUME NEW u \in JournalTurns
                 PROVE  journalTurn'[u].at # "idle" /\ journalTurn'[u].intact =>
                            /\ journalTurn'[u].since < Len(journal')
                            /\ journal'[journalTurn'[u].since + 1] = Journal!Says(u, "user")
        BY Zenon DEF Journal!PlaceIsRemembered
    <2>1. journalTurn'[u].at # "idle" => u # t
        <3>1. Journal!Idle.at = "idle"
            BY SMT DEF Journal!Idle
        <3> QED BY <1>7, <3>1, Zenon
    <2>2. u # t => /\ journalTurn'[u].at = journalTurn[u].at /\ journalTurn'[u].since = journalTurn[u].since
                   /\ journalTurn'[u].intact => journalTurn[u].intact /\ ~lost
        BY <1>7, DisturbedTurn, Zenon DEF JournalInv
    <2>3. Len(journal') \in Nat
        BY <1>3, <1>4, Zenon
    <2>4. ~lost => /\ Len(journal) <= Len(journal')
                   /\ \A i \in 1 .. Len(journal) : journal'[i] = journal[i]
        BY <1>3, <1>4, <1>6, SMT
    <2> QED BY <2>1, <2>2, <2>3, <2>4, PlaceStays, Zenon DEF JournalInv
<1>10. Journal!TurnIsDelivered'
    <2> SUFFICES ASSUME reply'.intact
                 PROVE  /\ Head(reply'.messages) = Journal!Says(t, "user")
                        /\ reply'.messages[Len(reply'.messages)] = debug
                        /\ (\E m \in reply'.answer : m.of = t) \/ reply'.forced
        BY <1>3, Zenon DEF Journal!TurnIsDelivered, debug
    <2>1. journalTurn[t].intact /\ ~lost
        BY <1>3
    <2>2. journalTurn[t].since < Len(journal) /\ journal[journalTurn[t].since + 1] = Journal!Says(t, "user")
        BY <2>1, Zenon DEF JournalInv, Journal!PlaceIsRemembered
    <2>3. journalTurn[t].since \in Nat
        BY SMT DEF JournalInv, JournalTyped, TurnState, Journal!KeepAssumption
    <2>4. traced[journalTurn[t].since + 1] = Journal!Says(t, "user") /\ journalTurn[t].since < Len(traced)
        BY <1>4, <1>6, <2>1, <2>2, <2>3, SMT
    <2>5. /\ Head(Journal!From(traced, journalTurn[t].since)) = traced[journalTurn[t].since + 1]
          /\ Journal!From(traced, journalTurn[t].since)[Len(Journal!From(traced, journalTurn[t].since))] = traced[Len(traced)]
        BY <1>2, <2>3, <2>4, EndsOfRest, Zenon
    <2>6. ASSUME ~forced PROVE \E m \in Journal!WorkFrom(told, journalTurn[t].since) : m.of = t
        <3>1. Len(journal) < Len(told) /\ told[Len(told)] = Journal!Says(t, "work")
            BY <2>1, <2>6
        <3>2. Len(told) \in journalTurn[t].since + 1 .. Len(told)
            BY <1>4, <2>2, <2>3, <3>1, SMT
        <3>3. told[Len(told)].kind = "work" /\ told[Len(told)].of = t
            BY <3>1, SMT DEF Journal!Says
        <3> QED BY <3>2, <3>3, Zenon DEF Journal!WorkFrom
    <2> QED BY <1>3, <1>5, <2>1, <2>4, <2>5, <2>6, Zenon
<1> QED BY <1>8, <1>9, <1>10, Zenon DEF JournalInv

\* A step that answers nobody and adds at most to the end of the journal, for all
\* turns but t.
LEMMA OthersStay ==
    ASSUME Journal!KeepAssumption, JournalInv, NEW t \in JournalTurns, NEW lost \in BOOLEAN, NEW new \in TurnState,
           journalTurn' = [Journal!Disturbed(lost) EXCEPT ![t] = new],
           journal' \in Seq(Journal!Message), Len(journal') <= Keep,
           ~lost => /\ Len(journal) <= Len(journal')
                    /\ \A i \in 1 .. Len(journal) : journal'[i] = journal[i],
           new.at # "idle" /\ new.intact =>
               new.since < Len(journal') /\ journal'[new.since + 1] = Journal!Says(t, "user"),
           reply' = Journal!NoReply
    PROVE  JournalInv'
<1>1. \A u \in JournalTurns : journalTurn'[u] = IF u = t THEN new ELSE Journal!Disturbed(lost)[u]
    BY Zenon DEF Journal!Disturbed
<1>2. JournalTyped'
    <2>1. \A u \in JournalTurns : journalTurn'[u] \in TurnState
        <3>1. \A u \in JournalTurns : Journal!Disturbed(lost)[u] \in TurnState
            BY DisturbedTurn, Zenon DEF JournalInv
        <3> QED BY <1>1, <3>1, Zenon
    <2>2. journalTurn' = [u \in JournalTurns |-> journalTurn'[u]]
        BY Zenon DEF Journal!Disturbed
    <2>3. journalTurn' \in [JournalTurns -> TurnState]
        BY <2>1, <2>2, Zenon
    <2> QED BY <2>3, Zenon DEF JournalTyped
<1>3. Journal!PlaceIsRemembered'
    <2> SUFFICES ASSUME NEW u \in JournalTurns
                 PROVE  journalTurn'[u].at # "idle" /\ journalTurn'[u].intact =>
                            /\ journalTurn'[u].since < Len(journal')
                            /\ journal'[journalTurn'[u].since + 1] = Journal!Says(u, "user")
        BY Zenon DEF Journal!PlaceIsRemembered
    <2>1. CASE u = t
        BY <1>1, <2>1, Zenon
    <2>2. CASE u # t
        <3>1. /\ journalTurn'[u].at = journalTurn[u].at /\ journalTurn'[u].since = journalTurn[u].since
              /\ journalTurn'[u].intact => journalTurn[u].intact /\ ~lost
            BY <1>1, <2>2, DisturbedTurn, Zenon DEF JournalInv
        <3>2. Len(journal') \in Nat
            BY SMT
        <3> QED BY <3>1, <3>2, PlaceStays, Zenon DEF JournalInv
    <2> QED BY <2>1, <2>2
<1>4. Journal!TurnIsDelivered'
    <2>1. reply'.to = {}
        BY SMT DEF Journal!NoReply, Journal!Reply
    <2> QED BY <2>1, Zenon DEF Journal!TurnIsDelivered
<1> QED BY <1>2, <1>3, <1>4, Zenon DEF JournalInv

\* The place and the state of a turn that begins.
LEMMA TurnBegins ==
    ASSUME NEW since \in 0 .. Keep, NEW intact \in BOOLEAN
    PROVE  LET new == [at |-> "works", since |-> since, intact |-> intact]
           IN  new \in TurnState /\ new.since = since /\ new.intact = intact
BY SMT DEF TurnState

\* Either messages are lost when n are added, or there is room for them.
LEMMA LostOrNot ==
    ASSUME Journal!KeepAssumption, Len(journal) \in Nat, NEW n \in Nat
    PROVE  \E lost \in BOOLEAN :
               lost = Journal!Overflows(n) /\ (~lost => Len(journal) + n <= Keep)
<1>1. Journal!Overflows(n) \in BOOLEAN
    BY SMT DEF Journal!Overflows
<1>2. ~Journal!Overflows(n) => Len(journal) + n <= Keep
    BY SMT DEF Journal!Overflows, Journal!KeepAssumption
<1> WITNESS Journal!Overflows(n) \in BOOLEAN
<1> QED BY <1>2

LEMMA ConverseKeeps ==
    ASSUME Journal!KeepAssumption, JournalInv, NEW t \in JournalTurns, Journal!Converse(t) PROVE JournalInv'
<1> DEFINE said == Journal!Says(t, "user")
<1>1. said \in Journal!Message
    BY SaysIsMessage, SMT DEF Journal!Kinds
<1>2. journal \in Seq(Journal!Message) /\ Len(journal) \in Nat /\ Len(journal) \in 0 .. Keep
    BY SMT DEF JournalInv, JournalTyped, Journal!KeepAssumption
<1>0. PICK lost \in BOOLEAN :
          lost = Journal!Overflows(1) /\ (~lost => Len(journal) + 1 <= Keep)
    <2>1. 1 \in Nat
        OBVIOUS
    <2> QED BY <1>2, <2>1, LostOrNot, Zenon
<1>3. ~lost => Len(journal) + 1 <= Keep
    BY <1>0
<1>4. /\ journal' = Journal!Kept(Append(journal, said)) /\ reply' = Journal!NoReply
      /\ journalTurn' = [Journal!Disturbed(lost) EXCEPT
                     ![t] = [at |-> "works", since |-> Len(journal), intact |-> ~lost]]
    BY <1>0, Zenon DEF Journal!Converse, Journal!StartHere
<1> HIDE DEF said
<1>5. /\ journal' \in Seq(Journal!Message) /\ Len(journal') <= Keep
      /\ ~lost => /\ journal'[Len(journal) + 1] = said
                  /\ Len(journal) <= Len(journal') /\ Len(journal) < Len(journal')
                  /\ \A i \in 1 .. Len(journal) : journal'[i] = journal[i]
    <2> DEFINE after == Journal!Kept(Append(journal, said))
    <2>1. /\ after \in Seq(Journal!Message) /\ Len(after) <= Keep
          /\ Len(journal) + 1 <= Keep =>
                 /\ after[Len(journal) + 1] = said
                 /\ Len(journal) <= Len(after) /\ Len(journal) < Len(after)
                 /\ \A i \in 1 .. Len(journal) : after[i] = journal[i]
        BY <1>1, <1>2, JournalAdds, Zenon
    <2> HIDE DEF after
    <2>2. journal' = after
        BY <1>4, Zenon DEF after
    <2> QED BY <1>3, <2>1, <2>2, Zenon
<1> DEFINE new == [at |-> "works", since |-> Len(journal), intact |-> ~lost]
<1>7. (~lost) \in BOOLEAN
    BY <1>3
<1>8. new \in TurnState /\ new.since = Len(journal) /\ new.intact = ~lost
    BY <1>2, <1>7, TurnBegins, Zenon
<1> HIDE DEF new
<1>9. new.intact =>
          new.since < Len(journal') /\ journal'[new.since + 1] = Journal!Says(t, "user")
    BY <1>5, <1>8, Zenon DEF said
<1>10. journalTurn' = [Journal!Disturbed(lost) EXCEPT ![t] = new]
    BY <1>4, Zenon DEF new
<1>11. ~lost => /\ Len(journal) <= Len(journal')
                /\ \A i \in 1 .. Len(journal) : journal'[i] = journal[i]
    BY <1>5
<1>12. new.at # "idle" /\ new.intact =>
           new.since < Len(journal') /\ journal'[new.since + 1] = Journal!Says(t, "user")
    BY <1>9
<1>13. journal' \in Seq(Journal!Message) /\ Len(journal') <= Keep /\ reply' = Journal!NoReply
    BY <1>4, <1>5
<1>14. new \in TurnState
    BY <1>8
<1> QED BY <1>10, <1>11, <1>12, <1>13, <1>14, OthersStay, Zenon

LEMMA StartTaskKeeps ==
    ASSUME Journal!KeepAssumption, JournalInv, NEW t \in JournalTurns, Journal!StartTask(t) PROVE JournalInv'
<1> DEFINE first == <<Journal!Says(t, "user"), Journal!Says(t, "work")>>
           new == [at |-> "works", since |-> 0, intact |-> Keep > 1]
<1>1. first \in Seq(Journal!Message) /\ Len(first) = 2 /\ first[1] = Journal!Says(t, "user")
    <2>1. Journal!Says(t, "user") \in Journal!Message /\ Journal!Says(t, "work") \in Journal!Message
        BY SaysIsMessage, SMT DEF Journal!Kinds
    <2> QED BY <2>1, SMT
<1>2. journal' = Journal!Kept(first) /\ reply' = Journal!NoReply
      /\ journalTurn' = [Journal!Disturbed(TRUE) EXCEPT ![t] = new]
    BY Zenon DEF Journal!StartTask
<1> HIDE DEF first
<1>3. Keep > 1 <=> 2 <= Keep
    BY SMT DEF Journal!KeepAssumption
<1>4. /\ journal' \in Seq(Journal!Message) /\ Len(journal') <= Keep
      /\ Keep > 1 => Len(journal') = 2 /\ journal'[1] = Journal!Says(t, "user")
    BY <1>1, <1>2, <1>3, KeptIsShort, Zenon
<1>5. new \in TurnState /\ new.since = 0 /\ new.intact = (Keep > 1)
    BY TurnBegins, SMT DEF Journal!KeepAssumption, TurnState
<1> HIDE DEF new
<1>6. new.intact => new.since < Len(journal') /\ journal'[new.since + 1] = Journal!Says(t, "user")
    <2>1. 0 + 1 = 1 /\ 0 < 2
        BY SMT
    <2> QED BY <1>4, <1>5, <2>1, Zenon
<1>7. TRUE \in BOOLEAN
    OBVIOUS
<1> QED BY <1>2, <1>4, <1>5, <1>6, <1>7, OthersStay, Zenon

LEMMA WorkKeeps ==
    ASSUME Journal!KeepAssumption, JournalInv, NEW t \in JournalTurns, Journal!Work(t) PROVE JournalInv'
<1> DEFINE told == Journal!Says(t, "work")
<1>1. told \in Journal!Message
    BY SaysIsMessage, SMT DEF Journal!Kinds
<1>2. journal \in Seq(Journal!Message) /\ Len(journal) \in Nat
    BY SMT DEF JournalInv, JournalTyped
<1>0. PICK lost \in BOOLEAN :
          lost = Journal!Overflows(1) /\ (~lost => Len(journal) + 1 <= Keep)
    <2>1. 1 \in Nat
        OBVIOUS
    <2> QED BY <1>2, <2>1, LostOrNot, Zenon
<1> DEFINE new == [Journal!Disturbed(lost)[t] EXCEPT !.at = "continues"]
<1>3. ~lost => Len(journal) + 1 <= Keep
    BY <1>0
<1>4. /\ journal' = Journal!Kept(Append(journal, told)) /\ reply' = Journal!NoReply
      /\ journalTurn' = [Journal!Disturbed(lost) EXCEPT ![t] = new] /\ journalTurn[t].at = "works"
    BY <1>0, Zenon DEF Journal!Work
<1> HIDE DEF told
<1>5. /\ journal' \in Seq(Journal!Message) /\ Len(journal') <= Keep
      /\ ~lost => /\ Len(journal) <= Len(journal')
                  /\ \A i \in 1 .. Len(journal) : journal'[i] = journal[i]
    <2> DEFINE after == Journal!Kept(Append(journal, told))
    <2>1. /\ after \in Seq(Journal!Message) /\ Len(after) <= Keep
          /\ Len(journal) + 1 <= Keep =>
                 /\ after[Len(journal) + 1] = told
                 /\ Len(journal) <= Len(after) /\ Len(journal) < Len(after)
                 /\ \A i \in 1 .. Len(journal) : after[i] = journal[i]
        BY <1>1, <1>2, JournalAdds, Zenon
    <2> HIDE DEF after
    <2>2. journal' = after
        BY <1>4, Zenon DEF after
    <2> QED BY <1>3, <2>1, <2>2, Zenon
<1>7. /\ Journal!Disturbed(lost)[t] \in TurnState /\ Journal!Disturbed(lost)[t].since = journalTurn[t].since
      /\ Journal!Disturbed(lost)[t].intact => journalTurn[t].intact /\ ~lost
    BY <1>3, DisturbedTurn, Zenon DEF JournalInv
<1>8. new \in TurnState /\ new.since = journalTurn[t].since /\ (new.intact => journalTurn[t].intact /\ ~lost)
    <2>1. ASSUME NEW s \in TurnState
          PROVE  /\ [s EXCEPT !.at = "continues"] \in TurnState
                 /\ [s EXCEPT !.at = "continues"].since = s.since
                 /\ [s EXCEPT !.at = "continues"].intact = s.intact
        BY SMT DEF TurnState
    <2> QED BY <1>7, <2>1, Zenon
<1>9. journalTurn'[t] = new
    BY <1>4, Zenon DEF Journal!Disturbed
<1> HIDE DEF new
<1>10. Len(journal') \in Nat
    BY <1>5, SMT
<1>11. journalTurn'[t].at # "idle" /\ journalTurn'[t].intact =>
           journalTurn'[t].since < Len(journal') /\ journal'[journalTurn'[t].since + 1] = Journal!Says(t, "user")
    BY <1>3, <1>4, <1>5, <1>8, <1>9, <1>10, PlaceStays, Zenon DEF JournalInv
<1>12. new.at # "idle" /\ new.intact =>
           new.since < Len(journal') /\ journal'[new.since + 1] = Journal!Says(t, "user")
    BY <1>9, <1>11, Zenon
<1> QED BY <1>3, <1>4, <1>5, <1>8, <1>12, OthersStay, Zenon

LEMMA RespondKeeps ==
    ASSUME Journal!KeepAssumption, JournalInv, NEW t \in JournalTurns, Journal!Respond(t) PROVE JournalInv'
<1> DEFINE work == Journal!Says(t, "work")
           told == Journal!Kept(Append(journal, work))
<1>1. work \in Journal!Message
    BY SaysIsMessage, SMT DEF Journal!Kinds
<1>2. journal \in Seq(Journal!Message) /\ Len(journal) \in Nat
    BY SMT DEF JournalInv, JournalTyped
<1>0. PICK lost \in BOOLEAN :
          lost = Journal!Overflows(2) /\ (~lost => Len(journal) + 2 <= Keep)
    <2>1. 2 \in Nat
        OBVIOUS
    <2> QED BY <1>2, <2>1, LostOrNot, Zenon
<1>3. ~lost => Len(journal) + 1 <= Keep /\ Len(journal) + 1 + 1 <= Keep
    BY <1>0, <1>2, SMT DEF Journal!KeepAssumption
<1>4. Journal!Answers(t, told, lost, FALSE) /\ journalTurn[t].at # "idle"
    BY <1>0, Zenon DEF Journal!Respond
<1> HIDE DEF work
<1>5. /\ told \in Seq(Journal!Message)
      /\ ~lost => /\ Len(told) = Len(journal) + 1 /\ told[Len(journal) + 1] = work
                  /\ \A i \in 1 .. Len(journal) : told[i] = journal[i]
    BY <1>1, <1>2, <1>3, JournalAdds, Zenon
<1> HIDE DEF told
<1>6. ~lost => /\ Len(told) + 1 <= Keep /\ Len(journal) <= Len(told)
              /\ Len(journal) < Len(told) /\ told[Len(told)] = work
    BY <1>2, <1>3, <1>5, SMT
<1> QED BY <1>3, <1>4, <1>5, <1>6, AnswersKeeps, Zenon DEF work

LEMMA RespondForcedKeeps ==
    ASSUME Journal!KeepAssumption, JournalInv, NEW t \in JournalTurns, Journal!RespondForced(t) PROVE JournalInv'
<1>1. journal \in Seq(Journal!Message) /\ Len(journal) \in Nat
    BY SMT DEF JournalInv, JournalTyped
<1>2. Journal!Overflows(1) \in BOOLEAN /\ (~Journal!Overflows(1) => Len(journal) + 1 <= Keep)
    BY <1>1, SMT DEF Journal!Overflows, Journal!KeepAssumption
<1>3. Journal!Answers(t, journal, Journal!Overflows(1), TRUE) /\ journalTurn[t].at = "works"
    BY Zenon DEF Journal!RespondForced
<1>4. Len(journal) <= Len(journal) /\ journalTurn[t].at # "idle"
    BY <1>1, <1>3, SMT
<1> QED BY <1>1, <1>2, <1>3, <1>4, AnswersKeeps, Zenon

\* A turn that ends without a reply leaves the others where they are.
LEMMA FailKeeps ==
    ASSUME Journal!KeepAssumption, JournalInv, NEW t \in JournalTurns, Journal!Fail(t) PROVE JournalInv'
<1>1. journalTurn' = [journalTurn EXCEPT ![t] = Journal!Idle] /\ journal' = journal /\ reply' = Journal!NoReply
    BY Zenon DEF Journal!Fail
<1>2. Journal!Idle \in TurnState /\ Journal!Idle.at = "idle"
    BY SMT DEF Journal!Idle, TurnState, Journal!KeepAssumption
<1>3. \A u \in JournalTurns : journalTurn'[u] = IF u = t THEN Journal!Idle ELSE journalTurn[u]
    BY <1>1, Zenon DEF JournalInv, JournalTyped
<1>4. journalTurn' \in [JournalTurns -> TurnState]
    BY <1>1, <1>2, SMT DEF JournalInv, JournalTyped
<1>5. reply'.to = {}
    BY <1>1, SMT DEF Journal!NoReply, Journal!Reply
<1>6. JournalTyped'
    BY <1>1, <1>4, Zenon DEF JournalInv, JournalTyped
<1>7. Journal!PlaceIsRemembered'
    BY <1>1, <1>2, <1>3, Zenon DEF JournalInv, Journal!PlaceIsRemembered
<1>8. Journal!TurnIsDelivered'
    BY <1>5, Zenon DEF Journal!TurnIsDelivered
<1> QED BY <1>6, <1>7, <1>8, Zenon DEF JournalInv

\* A journal that is replaced disturbs every turn.
LEMMA ReplaceKeeps == ASSUME Journal!KeepAssumption, JournalInv, Journal!Replace PROVE JournalInv'
<1>1. journalTurn' = Journal!Disturbed(TRUE) /\ journal' = <<>> /\ reply' = Journal!NoReply
    BY Zenon DEF Journal!Replace
<1>2. \A u \in JournalTurns : journalTurn'[u] \in TurnState /\ ~journalTurn'[u].intact
    BY <1>1, DisturbedTurn, Zenon DEF JournalInv
<1>3. journalTurn' = [u \in JournalTurns |-> journalTurn'[u]]
    BY <1>1, Zenon DEF Journal!Disturbed
<1>4. journalTurn' \in [JournalTurns -> TurnState]
    BY <1>2, <1>3, Zenon
<1>5. journal' \in Seq(Journal!Message) /\ Len(journal') <= Keep
    BY <1>1, SMT DEF Journal!KeepAssumption
<1>6. reply'.to = {}
    BY <1>1, SMT DEF Journal!NoReply, Journal!Reply
<1> QED BY <1>2, <1>4, <1>5, <1>6, Zenon DEF JournalInv, JournalTyped, Journal!PlaceIsRemembered, Journal!TurnIsDelivered

LEMMA JournalStep ==
    ASSUME Journal!KeepAssumption PROVE JournalInv /\ [Journal!Next]_(Journal!vars) => JournalInv'
<1> SUFFICES ASSUME JournalInv, [Journal!Next]_(Journal!vars) PROVE JournalInv'
    OBVIOUS
<1>1. CASE UNCHANGED Journal!vars
    BY <1>1, Zenon DEF Journal!vars, JournalInv, JournalTyped, Journal!PlaceIsRemembered, Journal!TurnIsDelivered
<1>2. CASE Journal!Next
    BY <1>2, ConverseKeeps, StartTaskKeeps, WorkKeeps, RespondKeeps, RespondForcedKeeps,
       FailKeeps, ReplaceKeeps, Zenon DEF Journal!Next
<1> QED BY <1>1, <1>2

LEMMA JournalInductive == Spec => []JournalInv
<1>1. Journal!KeepAssumption
    BY ServicesConstants DEF ServicesAssumption
<1>2. Init => JournalInv
    BY <1>1, JournalInit DEF Init
<1>3. [Next]_vars => [Journal!Next]_(Journal!vars)
    BY Zenon DEF Next, Only, vars, Journal!vars, journalVars
<1>4. JournalInv /\ [Next]_vars => JournalInv'
    BY <1>1, <1>3, JournalStep
<1> QED BY <1>2, <1>4, PTL DEF Spec

\* However turns overlap, a turn finds the user's message where it remembers it,
\* as long as the journal dropped nothing and was not replaced
\* (Day15Service.chat keeps the length of the list as its place).
THEOREM TurnKeepsItsPlace == Spec => []Journal!PlaceIsRemembered
<1>1. JournalInv => Journal!PlaceIsRemembered BY DEF JournalInv
<1> QED BY JournalInductive, <1>1, PTL

\* Such a turn replies with everything from the user's message to its trace, and
\* with an answer (the slice at the end of Day15Service.converse).
THEOREM RepliesAreWhole == Spec => []TurnIsDelivered
<1>1. JournalInv => TurnIsDelivered
    BY Zenon DEF JournalInv, TurnIsDelivered, Of
<1> QED BY JournalInductive, <1>1, PTL

----------------------------------------------------------------------------
(* The chat of Day 25.                                                     *)

\* The stages of a turn that was sent and is not over.
Underway == Chat!Stages \ {"new", "done"}

\* No handler runs while another one is between two commits.
Critical == {"title", "reply", "cite", "save"}
OneCritical ==
    \A t, u \in Turns : turn[t].at \in Critical /\ turn[u].at \in Critical => t = u

\* In a chat that nothing disturbed turns do not overlap.
Alone ==
    \A s \in Sessions \ disturbed : \A t, u \in Turns :
        /\ turn[t].at \in Underway /\ turn[t].chat = s
        /\ turn[u].at \in Underway /\ turn[u].chat = s
        => t = u

\* Answers are of turns of their chat that came so far.
AnswersAreOfChat ==
    \A s \in Sessions : \A t \in Chat!Answered(s) :
        turn[t].chat = s /\ turn[t].at \in {"cite", "save", "done"}

UserBegins ==
    \A s \in Sessions : transcript[s] # <<>> => transcript[s][1].role = "user"

\* What the turn will save, as long as no other one saves: the memory as it was read,
\* with the turn's own lessons and without what a change of task drops.
Carries(t, s) ==
    /\ turn[t].at \in {"title", "extract"} => turn[t].mem = saved[s]
    /\ turn[t].at \notin {"title", "extract"} =>
         /\ \A v \in Turns : <<v, "lasting">> \in saved[s].lessons
                                => <<v, "lasting">> \in turn[t].mem.lessons
         /\ \A v \in Turns \ {t}, k \in Chat!Kinds :
                <<v, k>> \in turn[t].mem.lessons => <<v, k>> \in saved[s].lessons
         /\ "lasting" \in turn[t].gave => <<t, "lasting">> \in turn[t].mem.lessons
         /\ turn[t].switched => \A v \in Turns : <<v, "task">> \notin turn[t].mem.lessons

InChat(t, s) ==
    /\ chatStatus[s] # "absent"
    /\ turn[t].at \in {"title", "cite", "save"} => chatStatus[s] = "open"
    /\ chatStatus[s] = "open" =>
         /\ transcript[s] # <<>>
         /\ turn[t].mem.lessons \subseteq (Chat!Answered(s) \cup {t}) \X Chat!Kinds
         /\ s \notin disturbed => Carries(t, s)
    /\ turn[t].at = "title" /\ turn[t].first =>
         Head(transcript[s]) = [role |-> "user", turn |-> t]
    /\ turn[t].at \in {"cite", "save"} =>
         /\ t \in Chat!Answered(s)
         /\ \A i \in Chat!Entries(s, "assistant") :
                transcript[s][i].turn = t => i = Len(transcript[s])

TurnHolds(t) ==
    turn[t].at \in Underway => turn[t].chat \in Sessions /\ InChat(t, turn[t].chat)

ChatInv ==
    /\ Chat!TypeOK
    /\ Chat!RowsHaveSession /\ Chat!EvidenceHasAnswer
    /\ Chat!MemoryOfAnswered /\ Chat!TitleIsFirst
    /\ Chat!NothingForgotten /\ Chat!TasksNotMixed
    /\ OneCritical /\ Alone /\ AnswersAreOfChat /\ UserBegins
    /\ \A t \in Turns : TurnHolds(t)

\* A turn is the record of its fields; it is looked at through IsTurn only.
IsTurn(r, point, chat, first, mem, gave, switched, cites) ==
    r = [at |-> point, chat |-> chat, first |-> first, mem |-> mem, gave |-> gave,
         switched |-> switched, cites |-> cites]

LEMMA TurnIs ==
    ASSUME NEW r \in Chat!Turn
    PROVE  IsTurn(r, r.at, r.chat, r.first, r.mem, r.gave, r.switched, r.cites)
BY ONLY SMT DEF Chat!Turn, IsTurn

LEMMA TurnParts ==
    ASSUME NEW r, NEW a, NEW c, NEW f, NEW m, NEW g, NEW s, NEW q,
           IsTurn(r, a, c, f, m, g, s, q)
    PROVE  /\ r.at = a /\ r.chat = c /\ r.first = f /\ r.mem = m
           /\ r.gave = g /\ r.switched = s /\ r.cites = q
BY SMT DEF IsTurn

LEMMA TurnTyped ==
    ASSUME NEW r, NEW a \in Chat!Stages, NEW c \in Sessions \cup {None}, NEW f \in BOOLEAN,
           NEW m \in Chat!Memory, NEW g \in SUBSET Chat!Kinds, NEW s \in BOOLEAN,
           NEW q \in BOOLEAN, IsTurn(r, a, c, f, m, g, s, q)
    PROVE  r \in Chat!Turn
BY Zenon DEF IsTurn, Chat!Turn

LEMMA TurnSets ==
    ASSUME NEW r, NEW a, NEW c, NEW f, NEW m, NEW g, NEW s, NEW q,
           IsTurn(r, a, c, f, m, g, s, q), NEW v
    PROVE  /\ IsTurn([r EXCEPT !.at = v], v, c, f, m, g, s, q)
           /\ IsTurn([r EXCEPT !.chat = v], a, v, f, m, g, s, q)
           /\ IsTurn([r EXCEPT !.first = v], a, c, v, m, g, s, q)
           /\ IsTurn([r EXCEPT !.mem = v], a, c, f, v, g, s, q)
           /\ IsTurn([r EXCEPT !.gave = v], a, c, f, m, v, s, q)
           /\ IsTurn([r EXCEPT !.switched = v], a, c, f, m, g, v, q)
           /\ IsTurn([r EXCEPT !.cites = v], a, c, f, m, g, s, v)
BY SMT DEF IsTurn

LEMMA TurnGoesOn ==
    ASSUME NEW r \in Chat!Turn
    PROVE  /\ \A v \in Chat!Stages : [r EXCEPT !.at = v] \in Chat!Turn
           /\ \A v \in Sessions \cup {None} : [r EXCEPT !.chat = v] \in Chat!Turn
           /\ \A v \in BOOLEAN : [r EXCEPT !.first = v] \in Chat!Turn
           /\ \A v \in Chat!Memory : [r EXCEPT !.mem = v] \in Chat!Turn
           /\ \A v \in SUBSET Chat!Kinds : [r EXCEPT !.gave = v] \in Chat!Turn
           /\ \A v \in BOOLEAN : [r EXCEPT !.switched = v] \in Chat!Turn
           /\ \A v \in BOOLEAN : [r EXCEPT !.cites = v] \in Chat!Turn
BY SMT DEF Chat!Turn

LEMMA OverIs ==
    ASSUME NEW r, NEW a, NEW c, NEW f, NEW m, NEW g, NEW s, NEW q,
           IsTurn(r, a, c, f, m, g, s, q)
    PROVE  IsTurn(Chat!Over(r), "done", c, FALSE, Chat!EmptyMemory, g, s, FALSE)
<1> DEFINE e == Chat!EmptyMemory
           r1 == [r EXCEPT !.at = "done"]
           r2 == [r1 EXCEPT !.first = FALSE]
           r3 == [r2 EXCEPT !.mem = e]
           r4 == [r3 EXCEPT !.cites = FALSE]
<1>0. Chat!Over(r) = r4
    BY Zenon DEF Chat!Over
<1> HIDE DEF e
<1>1. IsTurn(r1, "done", c, f, m, g, s, q)
    BY TurnSets, Zenon
<1> HIDE DEF r1
<1>2. IsTurn(r2, "done", c, FALSE, m, g, s, q)
    BY <1>1, TurnSets, Zenon
<1> HIDE DEF r2
<1>3. IsTurn(r3, "done", c, FALSE, e, g, s, q)
    BY <1>2, TurnSets, Zenon
<1> HIDE DEF r3
<1>4. IsTurn(r4, "done", c, FALSE, e, g, s, FALSE)
    BY <1>3, TurnSets, Zenon
<1> HIDE DEF r4
<1> QED BY <1>0, <1>4, Zenon DEF e

\* The same for the memory of a turn.
IsMemory(r, goal, lessons) == r = [goal |-> goal, lessons |-> lessons]

LEMMA MemoryParts ==
    ASSUME NEW r, NEW g, NEW l, IsMemory(r, g, l)
    PROVE  r.goal = g /\ r.lessons = l
BY SMT DEF IsMemory

LEMMA SavedMemories ==
    ASSUME NEW r, NEW g, NEW l, IsMemory(r, g, l), NEW v
    PROVE  IsMemory([r EXCEPT !.goal = v], v, l) /\ IsMemory([r EXCEPT !.lessons = v], g, v)
BY SMT DEF IsMemory

LEMMA MemoryIs ==
    ASSUME NEW m \in Chat!Memory
    PROVE  /\ IsMemory(m, m.goal, m.lessons)
           /\ m.goal \in BOOLEAN /\ m.lessons \in SUBSET (Turns \X Chat!Kinds)
<1>1. IsMemory(m, m.goal, m.lessons)
    BY ONLY SMT DEF Chat!Memory, IsMemory
<1>2. m.goal \in BOOLEAN /\ m.lessons \in SUBSET (Turns \X Chat!Kinds)
    BY Zenon DEF Chat!Memory
<1> QED BY <1>1, <1>2

LEMMA MemoryTyped ==
    ASSUME NEW m, NEW goal \in BOOLEAN, NEW lessons \in SUBSET (Turns \X Chat!Kinds),
           IsMemory(m, goal, lessons)
    PROVE  m \in Chat!Memory
BY Zenon DEF IsMemory, Chat!Memory

LastingOf(lessons) == {x \in lessons : x[2] = "lasting"}
TellsLearnt(n, m, t, gave, switch) ==
    LET all == m.lessons \cup ({t} \X gave)
    IN  IF switch /\ m.goal THEN n.lessons = LastingOf(all) ELSE n.lessons = all

\* What a turn learns: the lessons of its message are added, and a change of task
\* leaves the lasting ones.
LEMMA LearntIs ==
    ASSUME NEW t \in Turns, turn[t].mem \in Chat!Memory, NEW goal \in BOOLEAN,
           NEW gave \in SUBSET Chat!Kinds, NEW switch \in BOOLEAN
    PROVE  /\ Chat!Learnt(t, goal, gave, switch) \in Chat!Memory
           /\ TellsLearnt(Chat!Learnt(t, goal, gave, switch), turn[t].mem, t, gave, switch)
<1> DEFINE m == turn[t].mem
           all == m.lessons \cup ({t} \X gave)
           b == m.goal \/ goal
           half == [m EXCEPT !.goal = b]
           more == [half EXCEPT !.lessons = all]
           lasting == {x \in all : x[2] = "lasting"}
           less == [more EXCEPT !.lessons = lasting]
           n == Chat!Learnt(t, goal, gave, switch)
<1>1. IsMemory(m, m.goal, m.lessons) /\ m.goal \in BOOLEAN
      /\ m.lessons \in SUBSET (Turns \X Chat!Kinds)
    BY MemoryIs, Zenon
<1>2. all \in SUBSET (Turns \X Chat!Kinds) /\ lasting \in SUBSET (Turns \X Chat!Kinds)
    <2>1. {t} \X gave \in SUBSET (Turns \X Chat!Kinds)
        BY SMT
    <2> QED BY <1>1, <2>1, Zenon
<1>3. b \in BOOLEAN
    BY Zenon
<1>4. n = IF switch THEN Chat!Reset(m.goal, more) ELSE more
    BY Zenon DEF Chat!Learnt
<1>5. Chat!Reset(m.goal, more) =
          IF m.goal THEN [more EXCEPT !.lessons = {x \in @ : x[2] = "lasting"}] ELSE more
    BY Zenon DEF Chat!Reset
<1>6. IsMemory(half, b, m.lessons)
    <2> HIDE DEF b
    <2> QED BY <1>1, SavedMemories, Zenon
<1> HIDE DEF half, b
<1>7. IsMemory(more, b, all)
    <2> HIDE DEF all
    <2> QED BY <1>6, SavedMemories, Zenon
<1> HIDE DEF more
<1>8. IsMemory(less, b, lasting) /\ more.lessons = all
    <2> HIDE DEF all
    <2>1. more.lessons = all
        BY <1>7, MemoryParts, Zenon
    <2> HIDE DEF lasting
    <2>2. IsMemory(less, b, lasting)
        BY <1>7, SavedMemories, Zenon
    <2> QED BY <2>1, <2>2
<1>9. [more EXCEPT !.lessons = {x \in @ : x[2] = "lasting"}] = less
    BY <1>8, Zenon
<1> HIDE DEF less, all, lasting
<1>10. more \in Chat!Memory /\ less \in Chat!Memory /\ less.lessons = lasting
    BY <1>2, <1>3, <1>7, <1>8, MemoryTyped, MemoryParts, Zenon
<1>11. n = IF switch /\ m.goal THEN less ELSE more
    BY <1>4, <1>5, <1>9, Zenon
<1>12. LastingOf(all) = lasting
    BY Zenon DEF lasting, LastingOf
<1>13. n \in Chat!Memory
    BY <1>10, <1>11, Zenon
<1>14. CASE switch /\ m.goal
    <2>1. n.lessons = LastingOf(all)
        BY <1>10, <1>11, <1>12, <1>14, Zenon
    <2> QED BY <1>13, <1>14, <2>1, Zenon DEF TellsLearnt, all
<1>15. CASE ~(switch /\ m.goal)
    <2>1. n.lessons = all
        BY <1>8, <1>11, <1>15, Zenon
    <2> QED BY <1>13, <1>15, <2>1, Zenon DEF TellsLearnt, all
<1> QED BY <1>14, <1>15

----------------------------------------------------------------------------
(* Steps of one turn.                                                      *)

LEMMA TurnBecomes ==
    ASSUME turn \in [Turns -> Chat!Turn], NEW t \in Turns, NEW r \in Chat!Turn,
           turn' = [turn EXCEPT ![t] = r]
    PROVE  /\ turn' \in [Turns -> Chat!Turn]
           /\ turn'[t] = r
           /\ \A u \in Turns \ {t} : turn'[u] = turn[u]
BY Zenon

\* Going to a stage changes nothing else of the turn.
LEMMA AtIs ==
    ASSUME turn \in [Turns -> Chat!Turn], NEW t \in Turns, NEW next \in Chat!Stages,
           Chat!At(t, next)
    PROVE  /\ turn' \in [Turns -> Chat!Turn]
           /\ turn'[t].at = next /\ turn'[t].chat = turn[t].chat
           /\ turn'[t].first = turn[t].first /\ turn'[t].mem = turn[t].mem
           /\ turn'[t].gave = turn[t].gave /\ turn'[t].switched = turn[t].switched
           /\ \A u \in Turns \ {t} : turn'[u] = turn[u]
<1> DEFINE old == turn[t]
           r == [old EXCEPT !.at = next]
<1>1. turn' = [turn EXCEPT ![t] = r]
    BY Zenon DEF Chat!At
<1>2. old \in Chat!Turn
    BY Zenon
<1>3. IsTurn(r, next, old.chat, old.first, old.mem, old.gave, old.switched, old.cites)
    <2> HIDE DEF old
    <2> QED BY <1>2, TurnIs, TurnSets, Zenon
<1> HIDE DEF r
<1>4. r \in Chat!Turn
    <2> HIDE DEF old
    <2> QED BY <1>2, TurnGoesOn, Zenon DEF r
<1>5. /\ r.at = next /\ r.chat = old.chat /\ r.first = old.first /\ r.mem = old.mem
      /\ r.gave = old.gave /\ r.switched = old.switched
    <2> HIDE DEF old
    <2> QED BY <1>3, TurnParts, Zenon
<1> QED BY <1>1, <1>4, <1>5, TurnBecomes, Zenon

LEMMA EmptyTyped == Chat!EmptyMemory \in Chat!Memory /\ Chat!EmptyMemory.lessons = {}
<1>1. IsMemory(Chat!EmptyMemory, FALSE, {})
    BY Zenon DEF IsMemory, Chat!EmptyMemory
<1>2. {} \in SUBSET (Turns \X Chat!Kinds) /\ FALSE \in BOOLEAN
    BY Zenon
<1> HIDE DEF Chat!EmptyMemory
<1> QED BY <1>1, <1>2, MemoryTyped, MemoryParts, Zenon

LEMMA OverTyped ==
    ASSUME NEW r \in Chat!Turn
    PROVE  /\ Chat!Over(r) \in Chat!Turn /\ Chat!Over(r).at = "done"
           /\ Chat!Over(r).chat = r.chat /\ Chat!Over(r).gave = r.gave
           /\ Chat!Over(r).switched = r.switched
<1> DEFINE o == Chat!Over(r)
           e == Chat!EmptyMemory
<1>1. IsTurn(o, "done", r.chat, FALSE, e, r.gave, r.switched, FALSE)
    BY TurnIs, OverIs, Zenon
<1>2. e \in Chat!Memory
    BY EmptyTyped
<1> HIDE DEF o, e
<1>3. /\ r.chat \in Sessions \cup {None} /\ r.gave \in SUBSET Chat!Kinds
      /\ r.switched \in BOOLEAN /\ "done" \in Chat!Stages /\ FALSE \in BOOLEAN
    BY Zenon DEF Chat!Turn, Chat!Stages
<1>4. o \in Chat!Turn
    BY <1>1, <1>2, <1>3, TurnTyped, ZenonT(60)
<1>5. o.at = "done" /\ o.chat = r.chat /\ o.gave = r.gave /\ o.switched = r.switched
    BY <1>1, TurnParts, Zenon
<1> QED BY <1>4, <1>5 DEF o

LEMMA EndIs ==
    ASSUME turn \in [Turns -> Chat!Turn], NEW t \in Turns, Chat!End(t)
    PROVE  /\ turn' \in [Turns -> Chat!Turn]
           /\ turn'[t].at = "done" /\ turn'[t].chat = turn[t].chat
           /\ turn'[t].gave = turn[t].gave /\ turn'[t].switched = turn[t].switched
           /\ \A u \in Turns \ {t} : turn'[u] = turn[u]
<1> DEFINE r == Chat!Over(turn[t])
<1>1. turn' = [turn EXCEPT ![t] = r]
    BY Zenon DEF Chat!End
<1>2. /\ r \in Chat!Turn /\ r.at = "done" /\ r.chat = turn[t].chat
      /\ r.gave = turn[t].gave /\ r.switched = turn[t].switched
    BY OverTyped, Zenon
<1> HIDE DEF r
<1> QED BY <1>1, <1>2, TurnBecomes, Zenon

----------------------------------------------------------------------------
(* What a step leaves alone.                                               *)

LEMMA EntriesStay ==
    ASSUME NEW s, transcript'[s] = transcript[s]
    PROVE  /\ \A role : Chat!Entries(s, role)' = Chat!Entries(s, role)
           /\ Chat!Answered(s)' = Chat!Answered(s)
<1>1. \A role : Chat!Entries(s, role)' = Chat!Entries(s, role)
    BY Zenon DEF Chat!Entries
<1>2. Chat!Entries(s, "assistant")' = Chat!Entries(s, "assistant")
    BY <1>1
<1>3. Chat!Answered(s)' = {transcript'[s][i].turn : i \in Chat!Entries(s, "assistant")'}
    BY Zenon DEF Chat!Answered
<1>4. Chat!Answered(s)' = Chat!Answered(s)
    BY <1>2, <1>3, Zenon DEF Chat!Answered
<1> QED BY <1>1, <1>4

LEMMA AnswersAreTurns ==
    ASSUME Chat!TypeOK, NEW s \in Sessions
    PROVE  /\ \A i \in 1 .. Len(transcript[s]) :
                  /\ transcript[s][i] \in Chat!Message /\ transcript[s][i].turn \in Turns
                  /\ transcript[s][i].role \in {"user", "assistant"}
           /\ \A u \in Chat!Answered(s) : u \in Turns
<1>1. transcript[s] \in Seq(Chat!Message)
    BY Zenon DEF Chat!TypeOK
<1>2. \A i \in 1 .. Len(transcript[s]) : transcript[s][i] \in Chat!Message
    BY <1>1, SMT
<1>3. \A m \in Chat!Message : m.turn \in Turns /\ m.role \in {"user", "assistant"}
    BY SMT DEF Chat!Message
<1> QED BY <1>2, <1>3, Zenon DEF Chat!Answered, Chat!Entries

LEMMA TablesStay ==
    ASSUME ChatInv, UNCHANGED <<chatStatus, transcript, saved>>
    PROVE  /\ Chat!MemoryOfAnswered' /\ UserBegins'
           /\ title' = title => Chat!TitleIsFirst'
           /\ evidence' = evidence => Chat!RowsHaveSession' /\ Chat!EvidenceHasAnswer'
<1>1. \A s : Chat!Answered(s)' = Chat!Answered(s)
    BY EntriesStay, Zenon
<1>2. Chat!MemoryOfAnswered' /\ UserBegins'
    BY <1>1, Zenon DEF ChatInv, Chat!MemoryOfAnswered, UserBegins
<1>3. title' = title => Chat!TitleIsFirst'
    BY Zenon DEF ChatInv, Chat!TitleIsFirst
<1>4. evidence' = evidence => Chat!RowsHaveSession' /\ Chat!EvidenceHasAnswer'
    BY <1>1, Zenon DEF ChatInv, Chat!RowsHaveSession, Chat!EvidenceHasAnswer
<1> QED BY <1>2, <1>3, <1>4

\* No turn that was answered gets done, and no table changes.
LEMMA HistoryStays ==
    ASSUME ChatInv, UNCHANGED <<chatStatus, transcript, saved>>, disturbed \subseteq disturbed',
           \A s \in Sessions \ disturbed' : \A u \in Chat!Answered(s) :
               turn'[u].at = "done" => /\ turn[u].at = "done"
                                       /\ turn'[u].gave = turn[u].gave
                                       /\ turn'[u].switched = turn[u].switched
    PROVE  Chat!NothingForgotten' /\ Chat!TasksNotMixed'
<1>1. \A s : /\ Chat!Answered(s)' = Chat!Answered(s)
             /\ \A role : Chat!Entries(s, role)' = Chat!Entries(s, role)
    BY EntriesStay, Zenon
<1>2. Chat!NothingForgotten'
    BY <1>1, Zenon DEF ChatInv, Chat!NothingForgotten
<1>3. Chat!TasksNotMixed'
    <2>1. SUFFICES ASSUME NEW s \in Sessions, s \notin disturbed', chatStatus'[s] = "open",
                          NEW i \in Chat!Entries(s, "assistant"),
                          NEW j \in Chat!Entries(s, "assistant"), i < j,
                          turn'[transcript[s][j].turn].at = "done",
                          turn'[transcript[s][j].turn].switched
                   PROVE  <<transcript[s][i].turn, "task">> \notin saved[s].lessons
        BY <1>1, Zenon DEF Chat!TasksNotMixed
    <2>2. transcript[s][j].turn \in Chat!Answered(s)
        BY Zenon DEF Chat!Answered
    <2>3. turn[transcript[s][j].turn].at = "done" /\ turn[transcript[s][j].turn].switched
        BY <2>1, <2>2, Zenon
    <2>4. s \in Sessions \ disturbed /\ chatStatus[s] = "open"
        BY <2>1, Zenon
    <2> QED BY <2>1, <2>3, <2>4, Zenon DEF ChatInv, Chat!TasksNotMixed
<1> QED BY <1>2, <1>3

\* Every turn is of a chat and holds there, unless it is new or done.
LEMMA OtherHolds ==
    ASSUME ChatInv, NEW u \in Turns, turn'[u] = turn[u],
           UNCHANGED <<chatStatus, transcript, saved>>, disturbed \subseteq disturbed'
    PROVE  TurnHolds(u)'
<1>1. \A s : /\ Chat!Answered(s)' = Chat!Answered(s)
             /\ \A role : Chat!Entries(s, role)' = Chat!Entries(s, role)
    BY EntriesStay, Zenon
<1>2. TurnHolds(u)
    BY Zenon DEF ChatInv
<1>3. \A s : Carries(u, s) => Carries(u, s)'
    BY Zenon DEF Carries
<1>4. \A s : InChat(u, s) => InChat(u, s)'
    <2>1. \A s : s \notin disturbed' => s \notin disturbed
        BY Zenon
    <2> QED BY <1>1, <1>3, <2>1, Zenon DEF InChat
<1> QED BY <1>2, <1>4, Zenon DEF TurnHolds

\* A turn goes on, without an answer that it had not, and no other turn moves.
LEMMA TurnMoves ==
    ASSUME ChatInv, NEW t \in Turns,
           \A u \in Turns \ {t} : turn'[u] = turn[u],
           UNCHANGED <<chatStatus, transcript, saved, disturbed>>,
           turn'[t].chat = turn[t].chat,
           \/ turn[t].at \in {"title", "extract", "ask", "reply"}
           \/ turn[t].at = "cite" /\ turn'[t].at = "save",
           turn[t].at \in Critical \/ Chat!LoopFree
    PROVE  /\ Chat!NothingForgotten' /\ Chat!TasksNotMixed'
           /\ OneCritical' /\ Alone' /\ AnswersAreOfChat'
           /\ \A u \in Turns \ {t} : TurnHolds(u)'
<1>1. \A s : Chat!Answered(s)' = Chat!Answered(s)
    BY EntriesStay, Zenon
<1>2. \A u \in Turns \ {t} : TurnHolds(u)'
    BY OtherHolds, Zenon
<1>3. ~(turn[t].at = "cite" /\ turn'[t].at = "save") =>
          \A s \in Sessions : t \notin Chat!Answered(s)
    BY Zenon DEF ChatInv, AnswersAreOfChat
<1>4. \A s \in Sessions : \A u \in Chat!Answered(s) : u \in Turns
    BY AnswersAreTurns, Zenon DEF ChatInv
<1>5. AnswersAreOfChat'
    <2>1. SUFFICES ASSUME NEW s \in Sessions, NEW u \in Chat!Answered(s)
                   PROVE  turn'[u].chat = s /\ turn'[u].at \in {"cite", "save", "done"}
        BY <1>1, Zenon DEF AnswersAreOfChat
    <2>2. turn[u].chat = s /\ turn[u].at \in {"cite", "save", "done"}
        BY Zenon DEF ChatInv, AnswersAreOfChat
    <2>3. CASE u = t
        BY <1>3, <2>2, <2>3, Zenon
    <2>4. CASE u # t
        BY <1>4, <2>2, <2>4, Zenon
    <2> QED BY <2>3, <2>4
<1>6. \A s \in Sessions : \A u \in Chat!Answered(s) :
          turn'[u].at = "done" => turn'[u] = turn[u]
    BY <1>3, <1>4, Zenon
<1>7. Chat!NothingForgotten' /\ Chat!TasksNotMixed'
    BY <1>6, HistoryStays, Zenon
<1>8. \A u \in Turns \ {t} : turn[u].at \notin Critical
    BY Zenon DEF ChatInv, OneCritical, Chat!LoopFree, Critical
<1>9. OneCritical'
    BY <1>8, Zenon DEF OneCritical
<1>10. turn[t].at \in Underway
    BY Zenon DEF Underway, Chat!Stages
<1>11. Alone'
    <2>1. \A u \in Turns : turn'[u].at \in Underway => turn[u].at \in Underway
        BY <1>10, Zenon
    <2>2. \A u \in Turns : turn'[u].chat = turn[u].chat
        BY Zenon
    <2>3. disturbed' = disturbed
        BY Zenon
    <2>4. SUFFICES ASSUME NEW s \in Sessions \ disturbed, NEW u \in Turns, NEW v \in Turns,
                          turn'[u].at \in Underway, turn'[u].chat = s,
                          turn'[v].at \in Underway, turn'[v].chat = s
                   PROVE  u = v
        BY <2>3, Zenon DEF Alone
    <2>5. /\ turn[u].at \in Underway /\ turn[u].chat = s
          /\ turn[v].at \in Underway /\ turn[v].chat = s
        BY <2>1, <2>2, <2>4
    <2> QED BY <2>5, Zenon DEF ChatInv, Alone
<1> QED BY <1>2, <1>5, <1>7, <1>9, <1>11

----------------------------------------------------------------------------
(* A message is appended.                                                  *)

LEMMA AppendIs ==
    ASSUME Chat!TypeOK, NEW s \in Sessions, NEW m \in Chat!Message,
           transcript' = [transcript EXCEPT ![s] = Append(@, m)]
    PROVE  /\ transcript' \in [Sessions -> Seq(Chat!Message)]
           /\ \A x \in Sessions \ {s} : transcript'[x] = transcript[x]
           /\ Len(transcript[s]) \in Nat
           /\ Len(transcript'[s]) = Len(transcript[s]) + 1 /\ transcript'[s] # <<>>
           /\ \A i \in 1 .. Len(transcript[s]) : transcript'[s][i] = transcript[s][i]
           /\ transcript'[s][Len(transcript[s]) + 1] = m
           /\ transcript[s] # <<>> => 1 \in 1 .. Len(transcript[s])
           /\ transcript[s] = <<>> => transcript'[s][1] = m
           /\ Head(transcript'[s]) = transcript'[s][1]
           /\ transcript[s] # <<>> => Head(transcript[s]) = transcript[s][1]
<1> DEFINE old == transcript[s]
           new == Append(old, m)
<1>1. old \in Seq(Chat!Message) /\ transcript \in [Sessions -> Seq(Chat!Message)]
    BY Zenon DEF Chat!TypeOK
<1>2. transcript' = [transcript EXCEPT ![s] = new]
    BY Zenon
<1> HIDE DEF old
<1>3. /\ new \in Seq(Chat!Message) /\ Len(old) \in Nat
      /\ Len(new) = Len(old) + 1 /\ new # <<>>
      /\ \A i \in 1 .. Len(old) : new[i] = old[i]
      /\ new[Len(old) + 1] = m
      /\ old # <<>> => 1 \in 1 .. Len(old)
      /\ old = <<>> => new[1] = m
      /\ Head(new) = new[1]
      /\ old # <<>> => Head(old) = old[1]
    <2>1. Len(old) \in Nat /\ new \in Seq(Chat!Message) /\ Len(new) = Len(old) + 1
        BY <1>1, SMT
    <2>2. (\A i \in 1 .. Len(old) : new[i] = old[i]) /\ new[Len(old) + 1] = m
        BY <1>1, SMT
    <2>3. /\ old = <<>> => Len(old) = 0
          /\ old # <<>> => Len(old) # 0
        BY <1>1, EmptySeq, SMT
    <2>4. new # <<>>
        BY <2>1, SMT
    <2>5. old # <<>> => 1 \in 1 .. Len(old)
        BY <2>1, <2>3, SMT
    <2>6. old = <<>> => new[1] = m
        BY <2>1, <2>2, <2>3, SMT
    <2>7. \A list \in Seq(Chat!Message) : Head(list) = list[1]
        BY SMT
    <2> QED BY <1>1, <2>1, <2>2, <2>4, <2>5, <2>6, <2>7
<1> HIDE DEF new
<1>4. /\ transcript' \in [Sessions -> Seq(Chat!Message)] /\ transcript'[s] = new
      /\ \A x \in Sessions \ {s} : transcript'[x] = transcript[x]
    BY <1>1, <1>2, <1>3, Zenon
<1> QED BY <1>3, <1>4, Zenon DEF old

LEMMA EntriesGrow ==
    ASSUME Chat!TypeOK, NEW s \in Sessions, NEW m \in Chat!Message,
           transcript' = [transcript EXCEPT ![s] = Append(@, m)]
    PROVE  /\ \A role : Chat!Entries(s, role)' =
                  Chat!Entries(s, role) \cup {i \in {Len(transcript[s]) + 1} : m.role = role}
           /\ Chat!Answered(s)' = Chat!Answered(s) \cup {v \in {m.turn} : m.role = "assistant"}
           /\ \A x \in Sessions \ {s} :
                /\ \A role : Chat!Entries(x, role)' = Chat!Entries(x, role)
                /\ Chat!Answered(x)' = Chat!Answered(x)
<1> DEFINE n == Len(transcript[s])
<1>1. /\ n \in Nat /\ Len(transcript'[s]) = n + 1
      /\ \A i \in 1 .. n : transcript'[s][i] = transcript[s][i]
      /\ transcript'[s][n + 1] = m
    BY AppendIs, Zenon
<1>2. \A i : i \in 1 .. n + 1 <=> i \in 1 .. n \/ i = n + 1
    <2> HIDE DEF n
    <2> QED BY <1>1, SMT
<1>3. \A role : Chat!Entries(s, role)' =
                  Chat!Entries(s, role) \cup {i \in {n + 1} : m.role = role}
    <2> TAKE role
    <2>1. Chat!Entries(s, role)' = {i \in 1 .. n + 1 : transcript'[s][i].role = role}
        BY <1>1, Zenon DEF Chat!Entries
    <2>2. Chat!Entries(s, role) = {i \in 1 .. n : transcript[s][i].role = role}
        BY <1>1, Zenon DEF Chat!Entries
    <2> HIDE DEF n
    <2>3. \A i : i \in {x \in 1 .. n + 1 : transcript'[s][x].role = role}
                 <=> i \in {x \in 1 .. n : transcript[s][x].role = role}
                           \cup {x \in {n + 1} : m.role = role}
        BY <1>1, <1>2, Zenon
    <2>4. {i \in 1 .. n + 1 : transcript'[s][i].role = role}
            = {i \in 1 .. n : transcript[s][i].role = role} \cup {i \in {n + 1} : m.role = role}
        BY <2>3, Zenon
    <2> QED BY <2>1, <2>2, <2>4, Zenon
<1>4. Chat!Answered(s)' = Chat!Answered(s) \cup {v \in {m.turn} : m.role = "assistant"}
    <2>1. Chat!Answered(s)' = {transcript'[s][i].turn : i \in Chat!Entries(s, "assistant")'}
        BY Zenon DEF Chat!Answered
    <2>2. Chat!Entries(s, "assistant")' =
              Chat!Entries(s, "assistant") \cup {i \in {n + 1} : m.role = "assistant"}
        BY <1>3
    <2>3. \A i \in Chat!Entries(s, "assistant") : i \in 1 .. n
        BY Zenon DEF Chat!Entries
    <2> HIDE DEF n
    <2>4. \A v : v \in {transcript'[s][i].turn : i \in Chat!Entries(s, "assistant")'}
                 <=> v \in Chat!Answered(s) \cup {x \in {m.turn} : m.role = "assistant"}
        BY <1>1, <2>2, <2>3, Zenon DEF Chat!Answered
    <2> QED BY <2>1, <2>4, Zenon
<1>5. \A x \in Sessions \ {s} : transcript'[x] = transcript[x]
    BY AppendIs, Zenon
<1> QED BY <1>3, <1>4, <1>5, EntriesStay, Zenon

----------------------------------------------------------------------------
(* One lemma for every action.                                             *)

LEMMA ChatInit ==
    ASSUME Chat!ChatAssumption, Chat!Init PROVE ChatInv
<1>1. IsTurn(Chat!NewTurn, "new", None, FALSE, Chat!EmptyMemory, {}, FALSE, FALSE)
    BY Zenon DEF IsTurn, Chat!NewTurn
<1>2. /\ "new" \in Chat!Stages /\ None \in Sessions \cup {None} /\ FALSE \in BOOLEAN
      /\ {} \in SUBSET Chat!Kinds
    BY Zenon DEF Chat!Stages
<1> DEFINE fresh == Chat!NewTurn
<1>3. fresh \in Chat!Turn /\ fresh.at = "new"
    <2> HIDE DEF fresh
    <2> QED BY <1>1, <1>2, EmptyTyped, TurnTyped, TurnParts, Zenon DEF fresh
<1>4. turn = [t \in Turns |-> fresh]
    BY Zenon DEF Chat!Init
<1> HIDE DEF fresh
<1>5. /\ chatStatus = [s \in Sessions |-> "absent"] /\ title = [s \in Sessions |-> None]
      /\ transcript = [s \in Sessions |-> <<>>] /\ evidence = [s \in Sessions |-> {}]
      /\ saved = [s \in Sessions |-> None] /\ disturbed = {} /\ crashes = 0
    BY Zenon DEF Chat!Init
<1>6. Chat!TypeOK
    <2>1. <<>> \in Seq(Chat!Message) /\ 0 \in Nat
        BY SMT
    <2> QED BY <1>3, <1>4, <1>5, <2>1, Zenon DEF Chat!TypeOK
<1>7. \A s \in Sessions : Chat!Entries(s, "assistant") = {}
    <2>1. \A i : i \notin 1 .. Len(<<>>)
        BY SMT
    <2> QED BY <1>5, <2>1, Zenon DEF Chat!Entries
<1>8. \A s \in Sessions : Chat!Answered(s) = {}
    BY <1>7, Zenon DEF Chat!Answered
<1>9. \A t \in Turns : turn[t].at = "new"
    BY <1>3, <1>4, Zenon
<1>10. "new" \notin Underway /\ "new" \notin Critical
    BY Zenon DEF Underway, Critical
<1>11. /\ Chat!RowsHaveSession /\ Chat!EvidenceHasAnswer /\ Chat!MemoryOfAnswered
       /\ Chat!TitleIsFirst /\ UserBegins
    BY <1>5, Zenon DEF Chat!RowsHaveSession, Chat!EvidenceHasAnswer, Chat!MemoryOfAnswered,
                       Chat!TitleIsFirst, UserBegins
<1>12. Chat!NothingForgotten /\ Chat!TasksNotMixed /\ AnswersAreOfChat
    BY <1>7, <1>8, Zenon DEF Chat!NothingForgotten, Chat!TasksNotMixed, AnswersAreOfChat
<1>13. OneCritical /\ Alone /\ \A t \in Turns : TurnHolds(t)
    BY <1>9, <1>10, Zenon DEF OneCritical, Alone, TurnHolds
<1> QED BY <1>6, <1>11, <1>12, <1>13 DEF ChatInv

\* Where a turn is and what it knows, before a step of it.
LEMMA TurnStands ==
    ASSUME ChatInv, NEW t \in Turns
    PROVE  /\ Chat!TypeOK /\ turn \in [Turns -> Chat!Turn] /\ turn[t] \in Chat!Turn
           /\ turn[t].mem \in Chat!Memory
           /\ turn[t].at \in Underway => turn[t].chat \in Sessions /\ InChat(t, turn[t].chat)
<1>1. Chat!TypeOK /\ turn \in [Turns -> Chat!Turn]
    BY Zenon DEF ChatInv, Chat!TypeOK
<1>2. \A r \in Chat!Turn : r.mem \in Chat!Memory
    BY SMT DEF Chat!Turn
<1> QED BY <1>1, <1>2, Zenon DEF ChatInv, TurnHolds

LEMMA DoneHolds ==
    ASSUME NEW t \in Turns, turn'[t].at = "done" PROVE TurnHolds(t)'
<1>1. "done" \notin Underway
    BY Zenon DEF Underway
<1> QED BY <1>1, Zenon DEF TurnHolds

\* The turn goes away without an answer: the extraction aborts, retrieval or generation
\* fails, or the chat is gone when it would store one.
LEMMA GivingUpKeeps ==
    ASSUME ChatInv, NEW t \in Turns, turn[t].at \in {"extract", "ask", "reply"}, Chat!End(t),
           turn[t].at \in Critical \/ Chat!LoopFree,
           UNCHANGED <<chatStatus, title, transcript, evidence, saved, disturbed, crashes>>
    PROVE  ChatInv'
<1>1. /\ turn' \in [Turns -> Chat!Turn]
      /\ turn'[t].at = "done" /\ turn'[t].chat = turn[t].chat
      /\ \A u \in Turns \ {t} : turn'[u] = turn[u]
    BY TurnStands, EndIs, Zenon
<1>2. /\ Chat!NothingForgotten' /\ Chat!TasksNotMixed'
      /\ OneCritical' /\ Alone' /\ AnswersAreOfChat'
      /\ \A u \in Turns \ {t} : TurnHolds(u)'
    BY <1>1, TurnMoves, Zenon
<1>3. /\ Chat!RowsHaveSession' /\ Chat!EvidenceHasAnswer'
      /\ Chat!MemoryOfAnswered' /\ Chat!TitleIsFirst' /\ UserBegins'
    BY TablesStay, Zenon
<1>4. Chat!TypeOK'
    BY <1>1, Zenon DEF ChatInv, Chat!TypeOK
<1>5. \A u \in Turns : TurnHolds(u)'
    BY <1>1, <1>2, DoneHolds, Zenon
<1> QED BY <1>2, <1>3, <1>4, <1>5 DEF ChatInv

LEMMA SetTitleKeeps ==
    ASSUME ChatInv, NEW t \in Turns, Chat!SetTitle(t) PROVE ChatInv'
<1>1. /\ turn[t].at = "title" /\ Chat!At(t, "extract")
      /\ title' = [title EXCEPT ![turn[t].chat] = IF turn[t].first THEN t ELSE @]
      /\ UNCHANGED <<chatStatus, transcript, evidence, saved, disturbed, crashes>>
    BY Zenon DEF Chat!SetTitle
<1>2. "extract" \in Chat!Stages /\ "title" \in Underway /\ "title" \in Critical
      /\ "extract" \in Underway
    BY Zenon DEF Chat!Stages, Underway, Critical
<1>3. /\ turn' \in [Turns -> Chat!Turn]
      /\ turn'[t].at = "extract" /\ turn'[t].chat = turn[t].chat
      /\ turn'[t].mem = turn[t].mem
      /\ \A u \in Turns \ {t} : turn'[u] = turn[u]
    BY <1>1, <1>2, TurnStands, AtIs, Zenon
<1>4. PICK s \in Sessions : s = turn[t].chat /\ InChat(t, s)
    BY <1>1, <1>2, TurnStands, Zenon
<1>5. /\ chatStatus[s] = "open" /\ transcript[s] # <<>>
      /\ turn[t].mem.lessons \subseteq (Chat!Answered(s) \cup {t}) \X Chat!Kinds
      /\ s \notin disturbed => turn[t].mem = saved[s]
      /\ turn[t].first => Head(transcript[s]) = [role |-> "user", turn |-> t]
    BY <1>1, <1>4, Zenon DEF InChat, Carries
<1>6. /\ Chat!NothingForgotten' /\ Chat!TasksNotMixed'
      /\ OneCritical' /\ Alone' /\ AnswersAreOfChat'
      /\ \A u \in Turns \ {t} : TurnHolds(u)'
    BY <1>1, <1>2, <1>3, TurnMoves, Zenon
<1>7. /\ Chat!RowsHaveSession' /\ Chat!EvidenceHasAnswer'
      /\ Chat!MemoryOfAnswered' /\ UserBegins'
    BY <1>1, TablesStay, Zenon
<1>8. title \in [Sessions -> Turns \cup {None}]
    BY Zenon DEF ChatInv, Chat!TypeOK
<1>9. /\ title' \in [Sessions -> Turns \cup {None}]
      /\ title'[s] = IF turn[t].first THEN t ELSE title[s]
      /\ \A x \in Sessions \ {s} : title'[x] = title[x]
    BY <1>1, <1>4, <1>8, Zenon
<1>10. Chat!TitleIsFirst'
    <2>1. Chat!TitleIsFirst
        BY Zenon DEF ChatInv
    <2>2. \A x \in Sessions : title'[x] # None =>
              transcript[x] # <<>> /\ Head(transcript[x]) = [role |-> "user", turn |-> title'[x]]
        BY <1>5, <1>9, <2>1, Zenon DEF Chat!TitleIsFirst
    <2> QED BY <1>1, <2>2, Zenon DEF Chat!TitleIsFirst
<1>11. Chat!TypeOK'
    BY <1>1, <1>3, <1>9, Zenon DEF ChatInv, Chat!TypeOK
<1>12. Chat!Answered(s)' = Chat!Answered(s)
    BY <1>1, EntriesStay, Zenon
<1>13. Carries(t, s)' \/ s \in disturbed
    BY <1>1, <1>3, <1>5, Zenon DEF Carries
<1>14. InChat(t, s)'
    BY <1>1, <1>3, <1>5, <1>12, <1>13, Zenon DEF InChat
<1>15. \A u \in Turns : TurnHolds(u)'
    BY <1>3, <1>4, <1>6, <1>14, Zenon DEF TurnHolds
<1> QED BY <1>6, <1>7, <1>10, <1>11, <1>15 DEF ChatInv

LEMMA ExtractedKeeps ==
    ASSUME ChatInv, NEW t \in Turns, NEW goal \in BOOLEAN, NEW gave \in SUBSET Chat!Kinds,
           NEW switch \in BOOLEAN, NEW question \in BOOLEAN,
           Chat!Extracted(t, goal, gave, switch, question)
    PROVE  ChatInv'
<1> DEFINE to == IF question THEN "ask" ELSE "reply"
           m == Chat!Learnt(t, goal, gave, switch)
           off == switch /\ turn[t].mem.goal
           old == turn[t]
           r1 == [old EXCEPT !.at = to]
           r2 == [r1 EXCEPT !.mem = m]
           r3 == [r2 EXCEPT !.gave = gave]
           r4 == [r3 EXCEPT !.switched = off]
           all == turn[t].mem.lessons \cup ({t} \X gave)
<1>1. /\ turn[t].at = "extract" /\ Chat!LoopFree
      /\ turn' = [turn EXCEPT ![t] = r4]
      /\ UNCHANGED <<chatStatus, title, transcript, evidence, saved, disturbed, crashes>>
    BY Zenon DEF Chat!Extracted
<1>2. "extract" \in Underway /\ to \in Underway /\ to \in Chat!Stages
      /\ to \in {"ask", "reply"}
    BY Zenon DEF Chat!Stages, Underway
<1>3. /\ m \in Chat!Memory
      /\ off => m.lessons = LastingOf(all)
      /\ ~off => m.lessons = all
    <2>1. turn[t].mem \in Chat!Memory
        BY TurnStands, Zenon
    <2>2. m \in Chat!Memory
        BY ONLY <2>1, t \in Turns, goal \in BOOLEAN, gave \in SUBSET Chat!Kinds,
                switch \in BOOLEAN, LearntIs, Zenon
    <2>3. TellsLearnt(m, turn[t].mem, t, gave, switch)
        BY ONLY <2>1, t \in Turns, goal \in BOOLEAN, gave \in SUBSET Chat!Kinds,
                switch \in BOOLEAN, LearntIs, Zenon
    <2> HIDE DEF m
    <2>4. off => m.lessons = LastingOf(all)
        BY ONLY <2>3, Zenon DEF TellsLearnt
    <2>5. ~off => m.lessons = all
        BY ONLY <2>3, Zenon DEF TellsLearnt
    <2> QED BY <2>2, <2>4, <2>5
<1>4. off \in BOOLEAN
    <2>1. turn[t].mem.goal \in BOOLEAN
        BY TurnStands, MemoryIs, Zenon
    <2> QED BY <2>1, Zenon
<1>5. IsTurn(r4, to, old.chat, old.first, m, gave, off, old.cites)
    <2>1. IsTurn(old, old.at, old.chat, old.first, old.mem, old.gave, old.switched, old.cites)
        BY TurnStands, TurnIs, Zenon
    <2> HIDE DEF old, to, m, off
    <2>2. IsTurn(r1, to, old.chat, old.first, old.mem, old.gave, old.switched, old.cites)
        BY <2>1, TurnSets, Zenon
    <2> HIDE DEF r1
    <2>3. IsTurn(r2, to, old.chat, old.first, m, old.gave, old.switched, old.cites)
        BY <2>2, TurnSets, Zenon
    <2> HIDE DEF r2
    <2>4. IsTurn(r3, to, old.chat, old.first, m, gave, old.switched, old.cites)
        BY <2>3, TurnSets, Zenon
    <2> HIDE DEF r3
    <2> QED BY <2>4, TurnSets, Zenon
<1>7. r4 \in Chat!Turn
    <2>1. old \in Chat!Turn
        BY TurnStands, Zenon
    <2> HIDE DEF old, to, m, off
    <2>2. r1 \in Chat!Turn
        BY <1>2, <2>1, TurnGoesOn, Zenon
    <2> HIDE DEF r1
    <2>3. r2 \in Chat!Turn
        BY <1>3, <2>2, TurnGoesOn, Zenon
    <2> HIDE DEF r2
    <2>4. r3 \in Chat!Turn
        BY <2>3, TurnGoesOn, Zenon
    <2> HIDE DEF r3
    <2> QED BY <1>4, <2>4, TurnGoesOn, Zenon
<1>8. /\ turn' \in [Turns -> Chat!Turn]
      /\ turn'[t].at = to /\ turn'[t].chat = turn[t].chat /\ turn'[t].mem = m
      /\ turn'[t].gave = gave /\ turn'[t].switched = off
      /\ \A u \in Turns \ {t} : turn'[u] = turn[u]
    <2>1. /\ r4.at = to /\ r4.chat = old.chat /\ r4.mem = m /\ r4.gave = gave
          /\ r4.switched = off
        <3> HIDE DEF old, to, m, off, r4
        <3> QED BY <1>5, TurnParts, Zenon
    <2> HIDE DEF to, m, off, r4
    <2> QED BY <1>1, <1>7, <2>1, TurnBecomes, TurnStands, Zenon
<1> HIDE DEF to, m, off, r4
<1>9. PICK s \in Sessions : s = turn[t].chat /\ InChat(t, s)
    BY <1>1, <1>2, TurnStands, Zenon
<1>10. /\ chatStatus[s] # "absent"
       /\ chatStatus[s] = "open" =>
           /\ transcript[s] # <<>>
           /\ turn[t].mem.lessons \subseteq (Chat!Answered(s) \cup {t}) \X Chat!Kinds
           /\ s \notin disturbed => turn[t].mem = saved[s]
    BY <1>1, <1>9, Zenon DEF InChat, Carries
<1>11. /\ Chat!NothingForgotten' /\ Chat!TasksNotMixed'
       /\ OneCritical' /\ Alone' /\ AnswersAreOfChat'
       /\ \A u \in Turns \ {t} : TurnHolds(u)'
    BY <1>1, <1>8, TurnMoves, Zenon
<1>12. /\ Chat!RowsHaveSession' /\ Chat!EvidenceHasAnswer' /\ Chat!TitleIsFirst'
       /\ Chat!MemoryOfAnswered' /\ UserBegins'
    BY <1>1, TablesStay, Zenon
<1>13. Chat!TypeOK'
    BY <1>1, <1>8, Zenon DEF ChatInv, Chat!TypeOK
<1>14. m.lessons \subseteq all
    BY <1>3, Zenon DEF LastingOf
<1>15. chatStatus[s] = "open" =>
           m.lessons \subseteq (Chat!Answered(s) \cup {t}) \X Chat!Kinds
    <2>1. {t} \X gave \subseteq (Chat!Answered(s) \cup {t}) \X Chat!Kinds
        BY SMT
    <2> QED BY <1>10, <1>14, <2>1, Zenon
<1>16. Carries(t, s)' \/ s \in disturbed \/ chatStatus[s] # "open"
    <2>1. SUFFICES ASSUME s \notin disturbed, chatStatus[s] = "open" PROVE Carries(t, s)'
        OBVIOUS
    <2>2. turn[t].mem = saved[s]
        BY <1>10, <2>1
    <2>3. \A v \in Turns : <<v, "lasting">> \in saved[s].lessons => <<v, "lasting">> \in m.lessons
        <3>1. \A v \in Turns : <<v, "lasting">>[2] = "lasting"
            BY SMT
        <3> QED BY <1>3, <2>2, <3>1, Zenon DEF LastingOf
    <2>4. \A v \in Turns \ {t}, k \in Chat!Kinds :
              <<v, k>> \in m.lessons => <<v, k>> \in saved[s].lessons
        <3>1. \A v \in Turns \ {t}, k \in Chat!Kinds : <<v, k>> \notin {t} \X gave
            BY SMT
        <3> QED BY <1>14, <2>2, <3>1, Zenon
    <2>5. "lasting" \in gave => <<t, "lasting">> \in m.lessons
        <3>1. <<t, "lasting">>[2] = "lasting" /\ ("lasting" \in gave => <<t, "lasting">> \in {t} \X gave)
            BY SMT
        <3> QED BY <1>3, <3>1, Zenon DEF LastingOf
    <2>6. off => \A v \in Turns : <<v, "task">> \notin m.lessons
        <3>1. \A v \in Turns : <<v, "task">>[2] # "lasting"
            BY SMT
        <3> QED BY <1>3, <3>1, Zenon DEF LastingOf
    <2>7. to \notin {"title", "extract"}
        BY <1>2, Zenon
    <2>8. saved' = saved
        BY <1>1
    <2> QED BY <1>8, <2>3, <2>4, <2>5, <2>6, <2>7, <2>8, Zenon DEF Carries
<1>17. Chat!Answered(s)' = Chat!Answered(s)
    BY <1>1, EntriesStay, Zenon
<1>18. InChat(t, s)'
    <2>1. to \notin {"title", "cite", "save"}
        BY <1>2, Zenon
    <2> QED BY <1>1, <1>8, <1>10, <1>15, <1>16, <1>17, <2>1, Zenon DEF InChat
<1>19. \A u \in Turns : TurnHolds(u)'
    BY <1>8, <1>9, <1>11, <1>18, Zenon DEF TurnHolds
<1> QED BY <1>11, <1>12, <1>13, <1>19 DEF ChatInv

LEMMA GroundedKeeps ==
    ASSUME ChatInv, NEW t \in Turns, NEW cites \in BOOLEAN, Chat!Grounded(t, cites)
    PROVE  ChatInv'
<1> DEFINE old == turn[t]
           r1 == [old EXCEPT !.at = "reply"]
           r2 == [r1 EXCEPT !.cites = cites]
<1>1. /\ turn[t].at = "ask" /\ Chat!LoopFree
      /\ UNCHANGED <<chatStatus, title, transcript, evidence, saved, disturbed, crashes>>
    BY Zenon DEF Chat!Grounded
<1>2. "ask" \in Underway /\ "reply" \in Underway /\ "reply" \in Chat!Stages
    BY Zenon DEF Chat!Stages, Underway
<1>3. turn' = [turn EXCEPT ![t] = r2]
    <2>1. turn \in [Turns -> Chat!Turn]
        BY TurnStands, Zenon
    <2>2. turn' = [[turn EXCEPT ![t] = r1] EXCEPT ![t] = [@ EXCEPT !.cites = cites]]
        BY Zenon DEF Chat!Grounded
    <2> HIDE DEF r1
    <2>3. [turn EXCEPT ![t] = r1][t] = r1
        BY <2>1, Zenon
    <2>4. [[turn EXCEPT ![t] = r1] EXCEPT ![t] = r2] = [turn EXCEPT ![t] = r2]
        BY <2>1, Zenon
    <2>5. turn' = [[turn EXCEPT ![t] = r1] EXCEPT ![t] = [[turn EXCEPT ![t] = r1][t] EXCEPT !.cites = cites]]
        BY <2>2, Zenon
    <2> QED BY <2>3, <2>4, <2>5, Zenon
<1>4. IsTurn(r2, "reply", old.chat, old.first, old.mem, old.gave, old.switched, cites)
    <2>1. IsTurn(old, old.at, old.chat, old.first, old.mem, old.gave, old.switched, old.cites)
        BY TurnStands, TurnIs, Zenon
    <2> HIDE DEF old
    <2>2. IsTurn(r1, "reply", old.chat, old.first, old.mem, old.gave, old.switched, old.cites)
        BY <2>1, TurnSets, Zenon
    <2> HIDE DEF r1
    <2> QED BY <2>2, TurnSets, Zenon
<1>5. r2 \in Chat!Turn
    <2>1. r1 \in Chat!Turn
        BY <1>2, TurnStands, TurnGoesOn, Zenon
    <2> HIDE DEF r1
    <2> QED BY <2>1, TurnGoesOn, Zenon
<1>6. /\ turn' \in [Turns -> Chat!Turn]
      /\ turn'[t].at = "reply" /\ turn'[t].chat = turn[t].chat /\ turn'[t].mem = turn[t].mem
      /\ turn'[t].gave = turn[t].gave /\ turn'[t].switched = turn[t].switched
      /\ \A u \in Turns \ {t} : turn'[u] = turn[u]
    <2>1. /\ r2.at = "reply" /\ r2.chat = old.chat /\ r2.mem = old.mem
          /\ r2.gave = old.gave /\ r2.switched = old.switched
        <3> HIDE DEF old, r1, r2
        <3> QED BY ONLY <1>4, TurnParts, SMT
    <2> HIDE DEF r2
    <2> QED BY <1>3, <1>5, <2>1, TurnBecomes, TurnStands, Zenon
<1>7. PICK s \in Sessions : s = turn[t].chat /\ InChat(t, s)
    BY <1>1, <1>2, TurnStands, Zenon
<1>8. /\ Chat!NothingForgotten' /\ Chat!TasksNotMixed'
      /\ OneCritical' /\ Alone' /\ AnswersAreOfChat'
      /\ \A u \in Turns \ {t} : TurnHolds(u)'
    BY <1>1, <1>6, TurnMoves, Zenon
<1>9. /\ Chat!RowsHaveSession' /\ Chat!EvidenceHasAnswer' /\ Chat!TitleIsFirst'
      /\ Chat!MemoryOfAnswered' /\ UserBegins'
    BY <1>1, TablesStay, Zenon
<1>10. Chat!TypeOK'
    BY <1>1, <1>6, Zenon DEF ChatInv, Chat!TypeOK
<1>11. Carries(t, s) => Carries(t, s)'
    BY <1>1, <1>6, Zenon DEF Carries
<1>12. Chat!Answered(s)' = Chat!Answered(s)
    BY <1>1, EntriesStay, Zenon
<1>13. InChat(t, s)'
    BY <1>1, <1>6, <1>7, <1>11, <1>12, Zenon DEF InChat
<1>14. \A u \in Turns : TurnHolds(u)'
    BY <1>6, <1>7, <1>8, <1>13, Zenon DEF TurnHolds
<1> QED BY <1>8, <1>9, <1>10, <1>14 DEF ChatInv

LEMMA AddEvidenceKeeps ==
    ASSUME ChatInv, NEW t \in Turns, Chat!AddEvidence(t) PROVE ChatInv'
<1>1. /\ turn[t].at = "cite" /\ Chat!At(t, "save")
      /\ evidence' = [evidence EXCEPT ![turn[t].chat] = IF turn[t].cites THEN @ \cup {t} ELSE @]
      /\ UNCHANGED <<chatStatus, title, transcript, saved, disturbed, crashes>>
    BY Zenon DEF Chat!AddEvidence
<1>2. "save" \in Chat!Stages /\ "cite" \in Underway /\ "cite" \in Critical
    BY Zenon DEF Chat!Stages, Underway, Critical
<1>3. /\ turn' \in [Turns -> Chat!Turn]
      /\ turn'[t].at = "save" /\ turn'[t].chat = turn[t].chat
      /\ turn'[t].mem = turn[t].mem
      /\ turn'[t].gave = turn[t].gave /\ turn'[t].switched = turn[t].switched
      /\ \A u \in Turns \ {t} : turn'[u] = turn[u]
    BY <1>1, <1>2, TurnStands, AtIs, Zenon
<1>4. PICK s \in Sessions : s = turn[t].chat /\ InChat(t, s)
    BY <1>1, <1>2, TurnStands, Zenon
<1>5. chatStatus[s] = "open" /\ t \in Chat!Answered(s)
    BY <1>1, <1>4, Zenon DEF InChat
<1>6. /\ Chat!NothingForgotten' /\ Chat!TasksNotMixed'
      /\ OneCritical' /\ Alone' /\ AnswersAreOfChat'
      /\ \A u \in Turns \ {t} : TurnHolds(u)'
    BY <1>1, <1>2, <1>3, TurnMoves, Zenon
<1>7. Chat!MemoryOfAnswered' /\ UserBegins' /\ Chat!TitleIsFirst'
    BY <1>1, TablesStay, Zenon
<1>8. evidence \in [Sessions -> SUBSET Turns]
    BY Zenon DEF ChatInv, Chat!TypeOK
<1>9. /\ evidence' \in [Sessions -> SUBSET Turns]
      /\ evidence'[s] \subseteq evidence[s] \cup {t}
      /\ \A x \in Sessions \ {s} : evidence'[x] = evidence[x]
    <2> DEFINE new == IF turn[t].cites THEN evidence[s] \cup {t} ELSE evidence[s]
    <2>1. evidence' = [evidence EXCEPT ![s] = new]
        BY <1>1, <1>4, Zenon
    <2>2. new \in SUBSET Turns /\ new \subseteq evidence[s] \cup {t}
        BY <1>8, Zenon
    <2> HIDE DEF new
    <2> QED BY <1>8, <2>1, <2>2, Zenon
<1>10. \A x : Chat!Answered(x)' = Chat!Answered(x)
    BY <1>1, EntriesStay, Zenon
<1>11. Chat!RowsHaveSession'
    BY <1>1, <1>5, <1>9, Zenon DEF ChatInv, Chat!RowsHaveSession
<1>12. Chat!EvidenceHasAnswer'
    BY <1>5, <1>9, <1>10, Zenon DEF ChatInv, Chat!EvidenceHasAnswer
<1>13. Chat!TypeOK'
    BY <1>1, <1>3, <1>9, Zenon DEF ChatInv, Chat!TypeOK
<1>14. Carries(t, s) => Carries(t, s)'
    BY <1>1, <1>3, Zenon DEF Carries
<1>15. Chat!Entries(s, "assistant")' = Chat!Entries(s, "assistant")
    BY <1>1, EntriesStay, Zenon
<1>16. InChat(t, s)'
    BY <1>1, <1>3, <1>4, <1>10, <1>14, <1>15, Zenon DEF InChat
<1>17. \A u \in Turns : TurnHolds(u)'
    BY <1>3, <1>4, <1>6, <1>16, Zenon DEF TurnHolds
<1> QED BY <1>6, <1>7, <1>11, <1>12, <1>13, <1>17 DEF ChatInv

\* A turn that no message or answer is due from, while messages are appended.
LEMMA StillInChat ==
    ASSUME ChatInv, NEW u \in Turns, turn'[u] = turn[u], turn[u].at \in Underway,
           turn[u].at \notin Critical,
           \A x \in Sessions : Chat!Answered(x) \subseteq Chat!Answered(x)',
           \A x \in Sessions : transcript[x] # <<>> => transcript'[x] # <<>>,
           UNCHANGED <<chatStatus, saved>>, disturbed \subseteq disturbed'
    PROVE  TurnHolds(u)'
<1>1. PICK s \in Sessions : s = turn[u].chat /\ InChat(u, s)
    BY Zenon DEF ChatInv, TurnHolds
<1>2. turn[u].at \notin {"title", "reply", "cite", "save"}
    BY Zenon DEF Critical
<1>3. Carries(u, s) => Carries(u, s)'
    BY Zenon DEF Carries
<1>4. chatStatus[s] = "open" =>
          turn[u].mem.lessons \subseteq (Chat!Answered(s)' \cup {u}) \X Chat!Kinds
    <2>1. \A A, B : A \subseteq B => A \X Chat!Kinds \subseteq B \X Chat!Kinds
        BY Zenon
    <2>2. Chat!Answered(s) \cup {u} \subseteq Chat!Answered(s)' \cup {u}
        BY Zenon
    <2> QED BY <1>1, <2>1, <2>2, Zenon DEF InChat
<1>5. s \notin disturbed' => s \notin disturbed
    BY Zenon
<1>6. InChat(u, s)'
    BY <1>1, <1>2, <1>3, <1>4, <1>5, Zenon DEF InChat
<1>7. turn'[u].chat = s
    BY <1>1, Zenon
<1> QED BY <1>6, <1>7, Zenon DEF TurnHolds

\* The answer is stored and the turn goes on to its evidence.
LEMMA AnswerKeeps ==
    ASSUME ChatInv, NEW t \in Turns, NEW s \in Sessions, s = turn[t].chat,
           turn[t].at = "reply", chatStatus[s] = "open",
           transcript' = [transcript EXCEPT
                            ![s] = Append(@, [role |-> "assistant", turn |-> t])],
           Chat!At(t, "cite"),
           UNCHANGED <<chatStatus, title, evidence, saved, disturbed, crashes>>
    PROVE  ChatInv'
<1> DEFINE n == Len(transcript[s])
           m == [role |-> "assistant", turn |-> t]
<1>1. m \in Chat!Message /\ m.role = "assistant" /\ m.turn = t
    BY SMT DEF Chat!Message
<1> HIDE DEF m
<1>2. transcript' = [transcript EXCEPT ![s] = Append(@, m)]
    BY Zenon DEF m
<1>3. Chat!TypeOK /\ InChat(t, s) /\ "cite" \in Underway /\ "cite" \in Chat!Stages
      /\ "reply" \in Critical
    <2>1. "reply" \in Underway
        BY Zenon DEF Underway, Chat!Stages
    <2> QED BY <2>1, TurnStands, Zenon DEF Underway, Chat!Stages, Critical
<1>4. /\ transcript' \in [Sessions -> Seq(Chat!Message)]
      /\ \A x \in Sessions \ {s} : transcript'[x] = transcript[x]
      /\ n \in Nat /\ Len(transcript'[s]) = n + 1 /\ transcript'[s] # <<>>
      /\ \A i \in 1 .. n : transcript'[s][i] = transcript[s][i]
      /\ transcript'[s][n + 1] = m
      /\ transcript[s] # <<>> => 1 \in 1 .. n
      /\ Head(transcript'[s]) = transcript'[s][1]
      /\ transcript[s] # <<>> => Head(transcript[s]) = transcript[s][1]
    BY ONLY <1>1, <1>2, <1>3, s \in Sessions, AppendIs, Zenon
<1>5. /\ \A role : Chat!Entries(s, role)' =
              Chat!Entries(s, role) \cup {i \in {n + 1} : m.role = role}
      /\ Chat!Answered(s)' = Chat!Answered(s) \cup {v \in {m.turn} : m.role = "assistant"}
      /\ \A x \in Sessions \ {s} :
           /\ \A role : Chat!Entries(x, role)' = Chat!Entries(x, role)
           /\ Chat!Answered(x)' = Chat!Answered(x)
    BY <1>1, <1>2, <1>3, EntriesGrow, Zenon
<1>6. Chat!Answered(s)' = Chat!Answered(s) \cup {t}
    BY <1>1, <1>5, Zenon
<1>7. Chat!Entries(s, "assistant")' = Chat!Entries(s, "assistant") \cup {n + 1}
    BY <1>1, <1>5, Zenon
<1>8. /\ turn' \in [Turns -> Chat!Turn]
      /\ turn'[t].at = "cite" /\ turn'[t].chat = s
      /\ turn'[t].mem = turn[t].mem
      /\ turn'[t].gave = turn[t].gave /\ turn'[t].switched = turn[t].switched
      /\ \A u \in Turns \ {t} : turn'[u] = turn[u]
    BY <1>3, TurnStands, AtIs, Zenon
<1>9. \A x \in Sessions : Chat!Answered(x) \subseteq Chat!Answered(x)'
    BY <1>5, <1>6, Zenon
<1>10. \A x \in Sessions : t \notin Chat!Answered(x)
    BY Zenon DEF ChatInv, AnswersAreOfChat
<1>11. transcript[s] # <<>> /\ turn[t].mem.lessons \subseteq (Chat!Answered(s) \cup {t}) \X Chat!Kinds
    BY <1>3, Zenon DEF InChat
<1>12. Chat!TypeOK'
    BY <1>4, <1>8, Zenon DEF ChatInv, Chat!TypeOK
<1>13. Chat!RowsHaveSession'
    BY <1>4, Zenon DEF ChatInv, Chat!RowsHaveSession
<1>14. Chat!EvidenceHasAnswer'
    BY <1>9, Zenon DEF ChatInv, Chat!EvidenceHasAnswer
<1>15. Chat!MemoryOfAnswered'
    <2>1. \A x \in Sessions : saved[x] # None =>
              saved[x].lessons \subseteq Chat!Answered(x) \X Chat!Kinds
        BY Zenon DEF ChatInv, Chat!MemoryOfAnswered
    <2>2. \A A, B : A \subseteq B => A \X Chat!Kinds \subseteq B \X Chat!Kinds
        BY Zenon
    <2>3. \A x \in Sessions : saved[x] # None =>
              saved[x].lessons \subseteq Chat!Answered(x)' \X Chat!Kinds
        BY <1>9, <2>1, <2>2, Zenon
    <2> QED BY <2>3, Zenon DEF Chat!MemoryOfAnswered
<1>16. transcript'[s][1] = transcript[s][1] /\ Head(transcript'[s]) = Head(transcript[s])
    BY <1>4, <1>11, Zenon
<1>17. Chat!TitleIsFirst'
    <2>1. \A x \in Sessions : title[x] # None =>
              transcript'[x] # <<>> /\ Head(transcript'[x]) = [role |-> "user", turn |-> title[x]]
        BY <1>4, <1>16, Zenon DEF ChatInv, Chat!TitleIsFirst
    <2> QED BY <2>1, Zenon DEF Chat!TitleIsFirst
<1>18. UserBegins'
    BY <1>4, <1>11, <1>16, Zenon DEF ChatInv, UserBegins
<1>19. \A x \in Sessions : \A u \in Chat!Answered(x)' :
           (u \in Chat!Answered(x) /\ u # t) \/ u = t
    BY <1>5, <1>6, <1>10, Zenon
<1>20. \A x \in Sessions : \A u \in Chat!Answered(x) : u \in Turns \ {t}
    BY <1>3, <1>10, AnswersAreTurns, Zenon
<1>21. AnswersAreOfChat'
    <2>1. SUFFICES ASSUME NEW x \in Sessions, NEW u \in Chat!Answered(x)'
                   PROVE  turn'[u].chat = x /\ turn'[u].at \in {"cite", "save", "done"}
        BY Zenon DEF AnswersAreOfChat
    <2>2. CASE u = t
        BY <1>5, <1>8, <1>10, <2>2, Zenon
    <2>3. CASE u # t
        <3>1. u \in Chat!Answered(x)
            BY <1>19, <2>3, Zenon
        <3>2. turn[u].chat = x /\ turn[u].at \in {"cite", "save", "done"}
            BY <3>1, Zenon DEF ChatInv, AnswersAreOfChat
        <3> QED BY <1>8, <1>20, <3>1, <3>2, Zenon
    <2> QED BY <2>2, <2>3
<1>22. Chat!NothingForgotten'
    <2>1. SUFFICES ASSUME NEW x \in Sessions \ disturbed, chatStatus[x] = "open",
                          NEW u \in Chat!Answered(x)',
                          turn'[u].at = "done", "lasting" \in turn'[u].gave
                   PROVE  <<u, "lasting">> \in saved[x].lessons
        BY Zenon DEF Chat!NothingForgotten
    <2>2. u # t
        BY <1>8, <2>1, Zenon
    <2>3. u \in Chat!Answered(x)
        BY <1>19, <2>2, Zenon
    <2>4. turn[u].at = "done" /\ "lasting" \in turn[u].gave
        BY <1>8, <1>20, <2>1, <2>3, Zenon
    <2> QED BY <2>1, <2>3, <2>4, Zenon DEF ChatInv, Chat!NothingForgotten
<1>23. Chat!TasksNotMixed'
    <2>1. SUFFICES ASSUME NEW x \in Sessions \ disturbed, chatStatus[x] = "open",
                          NEW i \in Chat!Entries(x, "assistant")',
                          NEW j \in Chat!Entries(x, "assistant")', i < j,
                          turn'[transcript'[x][j].turn].at = "done",
                          turn'[transcript'[x][j].turn].switched
                   PROVE  <<transcript'[x][i].turn, "task">> \notin saved[x].lessons
        BY Zenon DEF Chat!TasksNotMixed
    <2>2. /\ i \in Chat!Entries(x, "assistant") /\ j \in Chat!Entries(x, "assistant")
          /\ transcript'[x][i] = transcript[x][i] /\ transcript'[x][j] = transcript[x][j]
        <3>1. CASE x # s
            <4>1. x \in Sessions \ {s}
                BY <3>1, Zenon
            <4>2. transcript'[x] = transcript[x]
                BY <1>4, <4>1, Zenon
            <4>3. Chat!Entries(x, "assistant")' = Chat!Entries(x, "assistant")
                BY <4>2, EntriesStay
            <4> QED BY <4>2, <4>3, Zenon
        <3>2. CASE x = s
            <4>1. j # n + 1
                BY <1>1, <1>4, <1>8, <2>1, <3>2, Zenon
            <4>2. j \in Chat!Entries(s, "assistant")
                BY <1>7, <3>2, <4>1, Zenon
            <4>3. \A k \in Chat!Entries(s, "assistant") : k \in 1 .. n
                BY Zenon DEF Chat!Entries
            <4>4. i # n + 1
                <5>1. j \in 1 .. n /\ n \in Nat /\ i < j
                    BY <1>4, <2>1, <4>2, <4>3, Zenon
                <5> HIDE DEF n
                <5> QED BY ONLY <5>1, SMT
            <4>5. i \in Chat!Entries(s, "assistant")
                BY <1>7, <3>2, <4>4, Zenon
            <4> QED BY <1>4, <3>2, <4>2, <4>3, <4>5, Zenon
        <3> QED BY <3>1, <3>2
    <2>3. transcript[x][j].turn \in Chat!Answered(x)
        BY <2>2, Zenon DEF Chat!Answered
    <2>4. turn[transcript[x][j].turn].at = "done" /\ turn[transcript[x][j].turn].switched
        BY <1>8, <1>20, <2>1, <2>2, <2>3, Zenon
    <2>5. Chat!TasksNotMixed
        BY Zenon DEF ChatInv
    <2> QED BY <2>1, <2>2, <2>4, <2>5, Zenon DEF Chat!TasksNotMixed
<1>24. \A u \in Turns \ {t} : turn[u].at \notin Critical
    BY <1>3, Zenon DEF ChatInv, OneCritical
<1>25. OneCritical'
    BY <1>8, <1>24, Zenon DEF OneCritical
<1>26. Alone'
    <2>1. \A u \in Turns : turn'[u].at \in Underway => turn[u].at \in Underway
        <3>1. "reply" \in Underway
            BY Zenon DEF Underway, Chat!Stages
        <3> QED BY <1>8, <3>1, Zenon
    <2>2. \A u \in Turns : turn'[u].chat = turn[u].chat
        BY <1>8, Zenon
    <2>3. SUFFICES ASSUME NEW x \in Sessions \ disturbed, NEW u \in Turns, NEW v \in Turns,
                          turn'[u].at \in Underway, turn'[u].chat = x,
                          turn'[v].at \in Underway, turn'[v].chat = x
                   PROVE  u = v
        BY Zenon DEF Alone
    <2>4. /\ turn[u].at \in Underway /\ turn[u].chat = x
          /\ turn[v].at \in Underway /\ turn[v].chat = x
        BY <2>1, <2>2, <2>3
    <2> QED BY <2>4, Zenon DEF ChatInv, Alone
<1>27. \A u \in Turns \ {t} : TurnHolds(u)'
    <2>1. SUFFICES ASSUME NEW u \in Turns \ {t}, turn[u].at \in Underway
                   PROVE  TurnHolds(u)'
        BY <1>8, Zenon DEF TurnHolds
    <2>2. \A x \in Sessions : transcript[x] # <<>> => transcript'[x] # <<>>
        BY <1>4, Zenon
    <2> QED BY <1>8, <1>9, <1>24, <2>1, <2>2, StillInChat, Zenon
<1>28. InChat(t, s)'
    <2>1. Carries(t, s) => Carries(t, s)'
        BY <1>8, Zenon DEF Carries
    <2>2. turn[t].mem.lessons \subseteq (Chat!Answered(s)' \cup {t}) \X Chat!Kinds
        <3>1. Chat!Answered(s)' \cup {t} = Chat!Answered(s) \cup {t}
            BY <1>6, Zenon
        <3> QED BY <1>11, <3>1, Zenon
    <2>3. \A i \in Chat!Entries(s, "assistant")' :
              transcript'[s][i].turn = t => i = Len(transcript'[s])
        <3>1. \A i \in Chat!Entries(s, "assistant") : i \in 1 .. n /\ transcript[s][i].turn # t
            BY <1>10, Zenon DEF Chat!Answered, Chat!Entries
        <3> QED BY <1>4, <1>7, <3>1, Zenon
    <2>4. t \in Chat!Answered(s)'
        BY <1>6, Zenon
    <2>5. s \notin disturbed => Carries(t, s)
        BY <1>3, Zenon DEF InChat
    <2>6. s \notin disturbed' => Carries(t, s)'
        BY <2>1, <2>5, Zenon
    <2> QED BY <1>4, <1>8, <2>2, <2>3, <2>4, <2>6, Zenon DEF InChat
<1>29. \A u \in Turns : TurnHolds(u)'
    BY <1>8, <1>27, <1>28, Zenon DEF TurnHolds
<1> QED BY <1>12, <1>13, <1>14, <1>15, <1>17, <1>18, <1>21, <1>22, <1>23, <1>25, <1>26, <1>29
        DEF ChatInv

LEMMA ReplyKeeps ==
    ASSUME ChatInv, NEW t \in Turns, Chat!Reply(t) PROVE ChatInv'
<1>1. turn[t].at = "reply" /\ UNCHANGED <<chatStatus, title, evidence, saved, disturbed, crashes>>
    BY Zenon DEF Chat!Reply
<1>2. "reply" \in Underway /\ "reply" \in Critical
    BY Zenon DEF Underway, Critical, Chat!Stages
<1>3. PICK s \in Sessions : s = turn[t].chat
    BY <1>1, <1>2, TurnStands, Zenon
<1>4. CASE chatStatus[s] = "open"
    <2>1. /\ transcript' = [transcript EXCEPT
                               ![s] = Append(@, [role |-> "assistant", turn |-> t])]
          /\ Chat!At(t, "cite")
        BY <1>3, <1>4, Zenon DEF Chat!Reply
    <2> QED BY <1>1, <1>3, <1>4, <2>1, AnswerKeeps, Zenon
<1>5. CASE chatStatus[s] # "open"
    <2>1. Chat!End(t) /\ transcript' = transcript
        BY <1>3, <1>5, Zenon DEF Chat!Reply
    <2> QED BY <1>1, <1>2, <2>1, GivingUpKeeps, Zenon
<1> QED BY <1>4, <1>5

LEMMA SaveStateKeeps ==
    ASSUME Chat!ChatAssumption, ChatInv, NEW t \in Turns, Chat!SaveState(t) PROVE ChatInv'
<1>1. /\ turn[t].at = "save" /\ Chat!End(t)
      /\ saved' = [saved EXCEPT ![turn[t].chat] = turn[t].mem]
      /\ UNCHANGED <<chatStatus, title, transcript, evidence, disturbed, crashes>>
    BY Zenon DEF Chat!SaveState
<1>2. "save" \in Underway /\ "save" \in Critical
    BY Zenon DEF Underway, Critical, Chat!Stages
<1>3. PICK s \in Sessions : s = turn[t].chat /\ InChat(t, s)
    BY <1>1, <1>2, TurnStands, Zenon
<1>4. PICK m \in Chat!Memory : m = turn[t].mem
    BY TurnStands, Zenon
<1>5. m # None
    BY Zenon DEF Chat!ChatAssumption
<1>6. saved \in [Sessions -> Chat!Memory \cup {None}]
    BY Zenon DEF ChatInv, Chat!TypeOK
<1>7. /\ saved' \in [Sessions -> Chat!Memory \cup {None}] /\ saved'[s] = m
      /\ \A x \in Sessions \ {s} : saved'[x] = saved[x]
    BY <1>1, <1>3, <1>4, <1>6, Zenon
<1>8. /\ turn' \in [Turns -> Chat!Turn]
      /\ turn'[t].at = "done" /\ turn'[t].chat = s
      /\ turn'[t].gave = turn[t].gave /\ turn'[t].switched = turn[t].switched
      /\ \A u \in Turns \ {t} : turn'[u] = turn[u]
    BY <1>1, <1>3, TurnStands, EndIs, Zenon
<1>9. /\ chatStatus[s] = "open" /\ t \in Chat!Answered(s)
      /\ m.lessons \subseteq (Chat!Answered(s) \cup {t}) \X Chat!Kinds
      /\ \A i \in Chat!Entries(s, "assistant") :
             transcript[s][i].turn = t => i = Len(transcript[s])
      /\ s \notin disturbed =>
           /\ \A v \in Turns : <<v, "lasting">> \in saved[s].lessons => <<v, "lasting">> \in m.lessons
           /\ \A v \in Turns \ {t}, k \in Chat!Kinds :
                  <<v, k>> \in m.lessons => <<v, k>> \in saved[s].lessons
           /\ "lasting" \in turn[t].gave => <<t, "lasting">> \in m.lessons
           /\ turn[t].switched => \A v \in Turns : <<v, "task">> \notin m.lessons
    BY <1>1, <1>3, <1>4, Zenon DEF InChat, Carries
<1>10. \A x : /\ Chat!Answered(x)' = Chat!Answered(x)
              /\ \A role : Chat!Entries(x, role)' = Chat!Entries(x, role)
    BY <1>1, EntriesStay, Zenon
<1>11. \A x \in Sessions : \A u \in Chat!Answered(x) : u \in Turns
    BY TurnStands, AnswersAreTurns, Zenon
<1>12. Chat!TypeOK'
    BY <1>1, <1>7, <1>8, Zenon DEF ChatInv, Chat!TypeOK
<1>13. Chat!RowsHaveSession'
    BY <1>1, <1>5, <1>7, <1>9, Zenon DEF ChatInv, Chat!RowsHaveSession
<1>14. Chat!EvidenceHasAnswer'
    BY <1>1, <1>10, Zenon DEF ChatInv, Chat!EvidenceHasAnswer
<1>15. Chat!MemoryOfAnswered'
    <2>1. m.lessons \subseteq Chat!Answered(s) \X Chat!Kinds
        <3>1. Chat!Answered(s) \cup {t} = Chat!Answered(s)
            BY <1>9, Zenon
        <3> QED BY <1>9, <3>1, Zenon
    <2> QED BY <1>7, <1>10, <2>1, Zenon DEF ChatInv, Chat!MemoryOfAnswered
<1>16. Chat!TitleIsFirst' /\ UserBegins'
    BY <1>1, Zenon DEF ChatInv, Chat!TitleIsFirst, UserBegins
<1>17. AnswersAreOfChat'
    <2>1. SUFFICES ASSUME NEW x \in Sessions, NEW u \in Chat!Answered(x)
                   PROVE  turn'[u].chat = x /\ turn'[u].at \in {"cite", "save", "done"}
        BY <1>10, Zenon DEF AnswersAreOfChat
    <2>2. turn[u].chat = x /\ turn[u].at \in {"cite", "save", "done"}
        BY Zenon DEF ChatInv, AnswersAreOfChat
    <2> QED BY <1>3, <1>8, <1>11, <2>2, Zenon
<1>18. Chat!NothingForgotten'
    <2>1. SUFFICES ASSUME NEW x \in Sessions \ disturbed, chatStatus[x] = "open",
                          NEW u \in Chat!Answered(x),
                          turn'[u].at = "done", "lasting" \in turn'[u].gave
                   PROVE  <<u, "lasting">> \in saved'[x].lessons
        BY <1>1, <1>10, Zenon DEF Chat!NothingForgotten
    <2>2. Chat!NothingForgotten
        BY Zenon DEF ChatInv
    <2>3. CASE u = t
        <3>1. x = s
            BY <2>3, <1>3, Zenon DEF ChatInv, AnswersAreOfChat
        <3> QED BY <1>7, <1>8, <1>9, <2>1, <2>3, <3>1, Zenon
    <2>4. CASE u # t
        <3>1. turn[u].at = "done" /\ "lasting" \in turn[u].gave
            BY <1>8, <1>11, <2>1, <2>4, Zenon
        <3>2. <<u, "lasting">> \in saved[x].lessons
            BY <2>1, <2>2, <3>1, Zenon DEF Chat!NothingForgotten
        <3> QED BY <1>7, <1>9, <1>11, <2>1, <3>2, Zenon
    <2> QED BY <2>3, <2>4
<1>19. Chat!TasksNotMixed'
    <2>1. SUFFICES ASSUME NEW x \in Sessions \ disturbed, chatStatus[x] = "open",
                          NEW i \in Chat!Entries(x, "assistant"),
                          NEW j \in Chat!Entries(x, "assistant"), i < j,
                          turn'[transcript[x][j].turn].at = "done",
                          turn'[transcript[x][j].turn].switched
                   PROVE  <<transcript[x][i].turn, "task">> \notin saved'[x].lessons
        BY <1>1, <1>10, Zenon DEF Chat!TasksNotMixed
    <2> DEFINE old == transcript[x][i].turn
               new == transcript[x][j].turn
    <2>2. old \in Chat!Answered(x) /\ new \in Chat!Answered(x)
        BY Zenon DEF Chat!Answered
    <2>3. old \in Turns /\ new \in Turns
        BY <1>11, <2>2, Zenon
    <2>4. turn[old].chat = x /\ turn[new].chat = x
        BY <2>2, Zenon DEF ChatInv, AnswersAreOfChat
    <2>5. Chat!TasksNotMixed
        BY Zenon DEF ChatInv
    <2>6. CASE new = t
        <3>1. x = s /\ turn[t].switched
            BY <1>3, <1>8, <2>1, <2>4, <2>6, Zenon
        <3> QED BY <1>7, <1>9, <2>1, <2>3, <3>1, Zenon
    <2>7. CASE new # t
        <3>1. turn[new].at = "done" /\ turn[new].switched
            BY <1>8, <2>1, <2>3, <2>7, Zenon
        <3>2. <<old, "task">> \notin saved[x].lessons
            BY <2>1, <2>5, <3>1, Zenon DEF Chat!TasksNotMixed
        <3>3. CASE x # s
            BY <1>7, <3>2, <3>3, Zenon
        <3>4. CASE x = s
            <4>1. old # t
                <5>1. SUFFICES ASSUME old = t PROVE FALSE
                    OBVIOUS
                <5>2. i = Len(transcript[s])
                    BY <1>9, <3>4, <5>1, Zenon
                <5>3. i \in 1 .. Len(transcript[s]) /\ j \in 1 .. Len(transcript[s]) /\ i < j
                    BY <2>1, <3>4, Zenon DEF Chat!Entries
                <5>4. transcript[s] \in Seq(Chat!Message)
                    BY TurnStands, Zenon DEF Chat!TypeOK
                <5> QED BY ONLY <5>2, <5>3, <5>4, SMT
            <4>2. "task" \in Chat!Kinds
                BY Zenon DEF Chat!Kinds
            <4> QED BY <1>7, <1>9, <2>1, <2>3, <3>2, <3>4, <4>1, <4>2, Zenon
        <3> QED BY <3>3, <3>4
    <2> QED BY <2>6, <2>7
<1>20. \A u \in Turns \ {t} : turn[u].at \notin Critical
    BY <1>1, <1>2, Zenon DEF ChatInv, OneCritical
<1>21. OneCritical'
    BY <1>8, <1>20, Zenon DEF OneCritical
<1>22. Alone'
    <2>1. \A u \in Turns : turn'[u].at \in Underway => turn[u].at \in Underway
        BY <1>1, <1>2, <1>8, Zenon
    <2>2. \A u \in Turns : turn'[u].chat = turn[u].chat
        BY <1>3, <1>8, Zenon
    <2>3. SUFFICES ASSUME NEW x \in Sessions \ disturbed, NEW u \in Turns, NEW v \in Turns,
                          turn'[u].at \in Underway, turn'[u].chat = x,
                          turn'[v].at \in Underway, turn'[v].chat = x
                   PROVE  u = v
        <3>1. disturbed' = disturbed
            BY <1>1, Zenon
        <3> QED BY <3>1, Zenon DEF Alone
    <2>4. /\ turn[u].at \in Underway /\ turn[u].chat = x
          /\ turn[v].at \in Underway /\ turn[v].chat = x
        BY <2>1, <2>2, <2>3
    <2> QED BY <2>4, Zenon DEF ChatInv, Alone
<1>23. \A u \in Turns \ {t} : TurnHolds(u)'
    <2>1. SUFFICES ASSUME NEW u \in Turns \ {t}, turn[u].at \in Underway PROVE TurnHolds(u)'
        BY <1>8, Zenon DEF TurnHolds
    <2>2. PICK x \in Sessions : x = turn[u].chat /\ InChat(u, x)
        BY <2>1, Zenon DEF ChatInv, TurnHolds
    <2>3. x = s => s \in disturbed
        <3>1. SUFFICES ASSUME x = s, s \notin disturbed PROVE FALSE
            OBVIOUS
        <3>2. /\ turn[t].at \in Underway /\ turn[t].chat = s
              /\ turn[u].at \in Underway /\ turn[u].chat = s /\ u # t
            BY <1>1, <1>2, <1>3, <2>1, <2>2, <3>1, Zenon
        <3> QED BY <3>1, <3>2, Zenon DEF ChatInv, Alone
    <2>4. turn'[u] = turn[u]
        BY <1>8, Zenon
    <2>5. x # s => (Carries(u, x) => Carries(u, x)')
        BY <1>7, <2>4, Zenon DEF Carries
    <2>6. InChat(u, x)'
        BY <1>1, <1>10, <2>2, <2>3, <2>4, <2>5, Zenon DEF InChat
    <2> QED BY <2>2, <2>4, <2>6, Zenon DEF TurnHolds
<1>24. \A u \in Turns : TurnHolds(u)'
    BY <1>8, <1>23, DoneHolds, Zenon
<1> QED BY <1>12, <1>13, <1>14, <1>15, <1>16, <1>17, <1>18, <1>19, <1>21, <1>22, <1>24
        DEF ChatInv

LEMMA CrashKeeps ==
    ASSUME ChatInv, Chat!Crash PROVE ChatInv'
<1>1. /\ turn' = [t \in Turns |-> IF turn[t].at = "new" THEN turn[t] ELSE Chat!Over(turn[t])]
      /\ disturbed' = disturbed \cup {s \in Sessions : Chat!InFlight(s) # {}}
      /\ crashes' = crashes + 1
      /\ UNCHANGED <<chatStatus, title, transcript, evidence, saved>>
    BY Zenon DEF Chat!Crash
<1>2. \A t \in Turns :
          /\ turn[t].at = "new" => turn'[t] = turn[t]
          /\ turn[t].at # "new" =>
               /\ turn'[t] \in Chat!Turn /\ turn'[t].at = "done" /\ turn'[t].chat = turn[t].chat
               /\ turn'[t].gave = turn[t].gave /\ turn'[t].switched = turn[t].switched
    <2>1. \A t \in Turns : turn[t] \in Chat!Turn
        BY TurnStands, Zenon
    <2> QED BY <1>1, <2>1, OverTyped, Zenon
<1>3. turn' \in [Turns -> Chat!Turn]
    <2>1. \A t \in Turns : turn[t] \in Chat!Turn
        BY TurnStands, Zenon
    <2> QED BY <1>1, <2>1, OverTyped, Zenon
<1>4. \A t \in Turns : turn'[t].at \in {"new", "done"} /\ turn'[t].chat = turn[t].chat
    BY <1>2, Zenon
<1>5. Chat!TypeOK'
    <2>1. crashes' \in Nat
        BY <1>1, SMT DEF ChatInv, Chat!TypeOK
    <2>2. disturbed' \subseteq Sessions
        BY <1>1, Zenon DEF ChatInv, Chat!TypeOK
    <2> QED BY <1>1, <1>3, <2>1, <2>2, Zenon DEF ChatInv, Chat!TypeOK
<1>6. /\ Chat!RowsHaveSession' /\ Chat!EvidenceHasAnswer' /\ Chat!TitleIsFirst'
      /\ Chat!MemoryOfAnswered' /\ UserBegins'
    BY <1>1, TablesStay, Zenon
<1>7. \A s \in Sessions : \A u \in Chat!Answered(s) :
          u \in Turns /\ turn[u].chat = s /\ turn[u].at \in {"cite", "save", "done"}
    BY TurnStands, AnswersAreTurns, Zenon DEF ChatInv, AnswersAreOfChat
<1>8. \A s \in Sessions \ disturbed' : \A u \in Chat!Answered(s) :
          turn'[u].at = "done" => /\ turn[u].at = "done"
                                  /\ turn'[u].gave = turn[u].gave
                                  /\ turn'[u].switched = turn[u].switched
    <2>1. SUFFICES ASSUME NEW s \in Sessions \ disturbed', NEW u \in Chat!Answered(s)
                   PROVE  /\ turn[u].at = "done"
                          /\ turn'[u].gave = turn[u].gave
                          /\ turn'[u].switched = turn[u].switched
        BY Zenon
    <2>2. Chat!InFlight(s) = {}
        BY <1>1, Zenon
    <2>3. turn[u].at = "done"
        BY <1>7, <2>2, Zenon DEF Chat!InFlight
    <2> QED BY <1>2, <1>7, <2>3, Zenon
<1>9. Chat!NothingForgotten' /\ Chat!TasksNotMixed'
    <2>1. disturbed \subseteq disturbed'
        BY <1>1, Zenon
    <2> QED BY <1>1, <1>8, <2>1, HistoryStays, Zenon
<1>10. \A s : Chat!Answered(s)' = Chat!Answered(s)
    BY <1>1, EntriesStay, Zenon
<1>11. AnswersAreOfChat'
    BY <1>2, <1>7, <1>10, Zenon DEF AnswersAreOfChat
<1>12. \A t \in Turns : turn'[t].at \notin Critical /\ turn'[t].at \notin Underway
    BY <1>4, Zenon DEF Critical, Underway
<1>13. OneCritical' /\ Alone' /\ \A t \in Turns : TurnHolds(t)'
    BY <1>12, Zenon DEF OneCritical, Alone, TurnHolds
<1> QED BY <1>5, <1>6, <1>9, <1>11, <1>13 DEF ChatInv

LEMMA SendMessageKeeps ==
    ASSUME Chat!ChatAssumption, ChatInv, NEW t \in Turns, NEW s \in Sessions,
           Chat!SendMessage(t, s)
    PROVE  ChatInv'
<1> DEFINE n == Len(transcript[s])
           m == [role |-> "user", turn |-> t]
           first == title[s] = None /\ Chat!Entries(s, "user") = {}
           old == turn[t]
           r1 == [old EXCEPT !.at = "title"]
           r2 == [r1 EXCEPT !.chat = s]
           r3 == [r2 EXCEPT !.mem = saved[s]]
           r4 == [r3 EXCEPT !.first = first]
<1>1. /\ Chat!LoopFree /\ turn[t].at = "new" /\ chatStatus[s] = "open"
      /\ transcript' = [transcript EXCEPT ![s] = Append(@, m)]
      /\ turn' = [turn EXCEPT ![t] = r4]
      /\ disturbed' = IF Chat!InFlight(s) = {} THEN disturbed ELSE disturbed \cup {s}
      /\ UNCHANGED <<chatStatus, title, evidence, saved, crashes>>
    BY Zenon DEF Chat!SendMessage
<1>2. m \in Chat!Message /\ m.role = "user" /\ m.role # "assistant"
    BY SMT DEF Chat!Message
<1>3. saved[s] \in Chat!Memory
    BY <1>1, Zenon DEF ChatInv, Chat!TypeOK, Chat!RowsHaveSession
<1>4. /\ turn' \in [Turns -> Chat!Turn]
      /\ turn'[t].at = "title" /\ turn'[t].chat = s /\ turn'[t].mem = saved[s]
      /\ turn'[t].first = first
      /\ \A u \in Turns \ {t} : turn'[u] = turn[u]
    <2>1. old \in Chat!Turn
        BY TurnStands, Zenon
    <2>2. IsTurn(old, old.at, old.chat, old.first, old.mem, old.gave, old.switched, old.cites)
        BY <2>1, TurnIs, Zenon
    <2>3. first \in BOOLEAN /\ "title" \in Chat!Stages
        BY Zenon DEF Chat!Stages
    <2> HIDE DEF old, first
    <2>4. /\ IsTurn(r1, "title", old.chat, old.first, old.mem, old.gave, old.switched, old.cites)
          /\ r1 \in Chat!Turn
        BY <2>1, <2>2, <2>3, TurnSets, TurnGoesOn, Zenon
    <2> HIDE DEF r1
    <2>5. /\ IsTurn(r2, "title", s, old.first, old.mem, old.gave, old.switched, old.cites)
          /\ r2 \in Chat!Turn
        BY <2>4, TurnSets, TurnGoesOn, Zenon
    <2> HIDE DEF r2
    <2>6. /\ IsTurn(r3, "title", s, old.first, saved[s], old.gave, old.switched, old.cites)
          /\ r3 \in Chat!Turn
        BY <1>3, <2>5, TurnSets, TurnGoesOn, Zenon
    <2> HIDE DEF r3
    <2>7. /\ IsTurn(r4, "title", s, first, saved[s], old.gave, old.switched, old.cites)
          /\ r4 \in Chat!Turn
        BY <2>3, <2>6, TurnSets, TurnGoesOn, Zenon
    <2> HIDE DEF r4
    <2>8. r4.at = "title" /\ r4.chat = s /\ r4.mem = saved[s] /\ r4.first = first
        BY ONLY <2>7, TurnParts, SMT
    <2> QED BY <1>1, <2>7, <2>8, TurnStands, TurnBecomes, Zenon
<1> HIDE DEF m, first, r1, r2, r3, r4
<1>5. Chat!TypeOK /\ "title" \in Underway /\ "title" \in Critical
      /\ Critical = {"title", "reply", "cite", "save"}
    BY TurnStands, Zenon DEF Underway, Critical, Chat!Stages
<1>6. /\ transcript' \in [Sessions -> Seq(Chat!Message)]
      /\ \A x \in Sessions \ {s} : transcript'[x] = transcript[x]
      /\ n \in Nat /\ Len(transcript'[s]) = n + 1 /\ transcript'[s] # <<>>
      /\ \A i \in 1 .. n : transcript'[s][i] = transcript[s][i]
      /\ transcript[s] # <<>> => 1 \in 1 .. n
      /\ transcript[s] = <<>> => transcript'[s][1] = m
      /\ Head(transcript'[s]) = transcript'[s][1]
      /\ transcript[s] # <<>> => Head(transcript[s]) = transcript[s][1]
    BY ONLY <1>1, <1>2, <1>5, s \in Sessions, AppendIs, Zenon
<1>7. /\ \A role : Chat!Entries(s, role)' =
              Chat!Entries(s, role) \cup {i \in {n + 1} : m.role = role}
      /\ Chat!Answered(s)' = Chat!Answered(s) \cup {v \in {m.turn} : m.role = "assistant"}
      /\ \A x \in Sessions \ {s} :
           /\ \A role : Chat!Entries(x, role)' = Chat!Entries(x, role)
           /\ Chat!Answered(x)' = Chat!Answered(x)
    BY <1>1, <1>2, <1>5, EntriesGrow, Zenon
<1>8. \A x \in Sessions : /\ Chat!Answered(x)' = Chat!Answered(x)
                          /\ Chat!Entries(x, "assistant")' = Chat!Entries(x, "assistant")
    <2>1. Chat!Answered(s)' = Chat!Answered(s)
        BY <1>2, <1>7, Zenon
    <2>2. Chat!Entries(s, "assistant")' = Chat!Entries(s, "assistant")
        BY <1>2, <1>7, Zenon
    <2> QED BY <1>7, <2>1, <2>2, Zenon
<1>9. \A x \in Sessions : \A u \in Chat!Answered(x) : u \in Turns \ {t}
    <2>1. \A x \in Sessions : t \notin Chat!Answered(x)
        BY <1>1, Zenon DEF ChatInv, AnswersAreOfChat
    <2> QED BY <1>5, <2>1, AnswersAreTurns, Zenon
<1>10. Chat!TypeOK'
    <2>1. disturbed' \subseteq Sessions
        BY <1>1, Zenon DEF ChatInv, Chat!TypeOK
    <2> QED BY <1>1, <1>4, <1>6, <2>1, Zenon DEF ChatInv, Chat!TypeOK
<1>11. Chat!RowsHaveSession'
    BY <1>1, <1>6, Zenon DEF ChatInv, Chat!RowsHaveSession
<1>12. Chat!EvidenceHasAnswer' /\ Chat!MemoryOfAnswered'
    BY <1>1, <1>8, Zenon DEF ChatInv, Chat!EvidenceHasAnswer, Chat!MemoryOfAnswered
<1>13. transcript[s] # <<>> => /\ transcript'[s][1] = transcript[s][1]
                               /\ Head(transcript'[s]) = Head(transcript[s])
    BY <1>6, Zenon
<1>14. Chat!TitleIsFirst'
    <2>1. \A x \in Sessions : title[x] # None =>
              transcript'[x] # <<>> /\ Head(transcript'[x]) = [role |-> "user", turn |-> title[x]]
        BY <1>6, <1>13, Zenon DEF ChatInv, Chat!TitleIsFirst
    <2> QED BY <1>1, <2>1, Zenon DEF Chat!TitleIsFirst
<1>15. UserBegins'
    BY <1>2, <1>6, <1>13, Zenon DEF ChatInv, UserBegins
<1>16. AnswersAreOfChat'
    <2>1. SUFFICES ASSUME NEW x \in Sessions, NEW u \in Chat!Answered(x)
                   PROVE  turn'[u].chat = x /\ turn'[u].at \in {"cite", "save", "done"}
        BY <1>8, Zenon DEF AnswersAreOfChat
    <2>2. turn[u].chat = x /\ turn[u].at \in {"cite", "save", "done"}
        BY Zenon DEF ChatInv, AnswersAreOfChat
    <2> QED BY <1>4, <1>9, <2>2, Zenon
<1>17. \A x \in Sessions : x \notin disturbed' => x \notin disturbed
    BY <1>1, Zenon
<1>18. Chat!NothingForgotten'
    <2>1. SUFFICES ASSUME NEW x \in Sessions \ disturbed, chatStatus[x] = "open",
                          NEW u \in Chat!Answered(x),
                          turn'[u].at = "done", "lasting" \in turn'[u].gave
                   PROVE  <<u, "lasting">> \in saved[x].lessons
        BY <1>1, <1>8, <1>17, Zenon DEF Chat!NothingForgotten
    <2>2. turn[u].at = "done" /\ "lasting" \in turn[u].gave
        BY <1>4, <1>9, <2>1, Zenon
    <2> QED BY <2>1, <2>2, Zenon DEF ChatInv, Chat!NothingForgotten
<1>19. Chat!TasksNotMixed'
    <2>1. SUFFICES ASSUME NEW x \in Sessions \ disturbed, chatStatus[x] = "open",
                          NEW i \in Chat!Entries(x, "assistant"),
                          NEW j \in Chat!Entries(x, "assistant"), i < j,
                          turn'[transcript'[x][j].turn].at = "done",
                          turn'[transcript'[x][j].turn].switched
                   PROVE  <<transcript'[x][i].turn, "task">> \notin saved[x].lessons
        BY <1>1, <1>8, <1>17, Zenon DEF Chat!TasksNotMixed
    <2>2. i \in 1 .. Len(transcript[x]) /\ j \in 1 .. Len(transcript[x])
        BY Zenon DEF Chat!Entries
    <2>3. transcript'[x][i] = transcript[x][i] /\ transcript'[x][j] = transcript[x][j]
        BY <1>6, <2>2, Zenon
    <2>4. transcript[x][j].turn \in Chat!Answered(x)
        BY Zenon DEF Chat!Answered
    <2>5. turn[transcript[x][j].turn].at = "done" /\ turn[transcript[x][j].turn].switched
        BY <1>4, <1>9, <2>1, <2>3, <2>4, Zenon
    <2>6. Chat!TasksNotMixed
        BY Zenon DEF ChatInv
    <2> QED BY <2>1, <2>3, <2>5, <2>6, Zenon DEF Chat!TasksNotMixed
<1>20. \A u \in Turns : turn[u].at \notin Critical
    BY <1>1, <1>5, Zenon DEF Chat!LoopFree
<1>21. OneCritical'
    BY <1>4, <1>20, Zenon DEF OneCritical
<1>22. Alone'
    <2>1. SUFFICES ASSUME NEW x \in Sessions \ disturbed', NEW u \in Turns, NEW v \in Turns,
                          turn'[u].at \in Underway, turn'[u].chat = x,
                          turn'[v].at \in Underway, turn'[v].chat = x, u # v
                   PROVE  FALSE
        BY Zenon DEF Alone
    <2>2. \A w \in Turns \ {t} : turn[w].at \in Underway => turn[w].chat # s \/ s \in disturbed'
        <3>1. \A w \in Turns \ {t} : turn[w].at \in Underway /\ turn[w].chat = s =>
                  w \in Chat!InFlight(s)
            BY Zenon DEF Chat!InFlight, Underway
        <3> QED BY <1>1, <3>1, Zenon
    <2>3. u # t /\ v # t
        BY <1>4, <2>1, <2>2, Zenon
    <2>4. /\ turn[u].at \in Underway /\ turn[u].chat = x
          /\ turn[v].at \in Underway /\ turn[v].chat = x
        BY <1>4, <2>1, <2>3, Zenon
    <2> QED BY <1>17, <2>1, <2>4, Zenon DEF ChatInv, Alone
<1>23. \A u \in Turns \ {t} : TurnHolds(u)'
    <2>1. SUFFICES ASSUME NEW u \in Turns \ {t}, turn[u].at \in Underway PROVE TurnHolds(u)'
        BY <1>4, Zenon DEF TurnHolds
    <2>2. \A x \in Sessions : Chat!Answered(x) \subseteq Chat!Answered(x)'
        BY <1>8, Zenon
    <2>3. \A x \in Sessions : transcript[x] # <<>> => transcript'[x] # <<>>
        BY <1>6, Zenon
    <2>4. disturbed \subseteq disturbed'
        BY <1>1, Zenon
    <2> QED BY <1>1, <1>4, <1>20, <2>1, <2>2, <2>3, <2>4, StillInChat, Zenon
<1>24. InChat(t, s)'
    <2>1. saved[s].lessons \subseteq (Chat!Answered(s)' \cup {t}) \X Chat!Kinds
        <3>1. saved[s] # None
            BY <1>3, Zenon DEF Chat!ChatAssumption
        <3>2. saved[s].lessons \subseteq Chat!Answered(s) \X Chat!Kinds
            BY <3>1, Zenon DEF ChatInv, Chat!MemoryOfAnswered
        <3>3. Chat!Answered(s) \X Chat!Kinds \subseteq (Chat!Answered(s) \cup {t}) \X Chat!Kinds
            BY Zenon
        <3>4. Chat!Answered(s)' = Chat!Answered(s)
            BY <1>8
        <3> QED BY <3>2, <3>3, <3>4, Zenon
    <2>2. Carries(t, s)'
        BY <1>1, <1>4, Zenon DEF Carries
    <2>3. first => Head(transcript'[s]) = [role |-> "user", turn |-> t]
        <3>1. SUFFICES ASSUME first PROVE Head(transcript'[s]) = m
            BY Zenon DEF m
        <3>2. Chat!Entries(s, "user") = {}
            BY <3>1 DEF first
        <3>3. transcript[s] = <<>>
            <4>1. transcript[s] # <<>> => 1 \in Chat!Entries(s, "user")
                BY <1>6, Zenon DEF ChatInv, UserBegins, Chat!Entries
            <4> QED BY <3>2, <4>1, Zenon
        <3> QED BY <1>6, <3>3, Zenon
    <2>4. "title" \notin {"cite", "save"}
        OBVIOUS
    <2> QED BY <1>1, <1>4, <1>6, <2>1, <2>2, <2>3, <2>4, Zenon DEF InChat
<1>25. \A u \in Turns : TurnHolds(u)'
    BY <1>4, <1>23, <1>24, Zenon DEF TurnHolds
<1> QED BY <1>10, <1>11, <1>12, <1>14, <1>15, <1>16, <1>18, <1>19, <1>21, <1>22, <1>25
        DEF ChatInv

LEMMA CreateSessionKeeps ==
    ASSUME Chat!ChatAssumption, ChatInv, NEW s \in Sessions, Chat!CreateSession(s)
    PROVE  ChatInv'
<1> DEFINE e == Chat!EmptyMemory
<1>1. /\ chatStatus[s] = "absent"
      /\ chatStatus' = [chatStatus EXCEPT ![s] = "open"]
      /\ saved' = [saved EXCEPT ![s] = e]
      /\ UNCHANGED <<title, transcript, evidence, turn, disturbed, crashes>>
    BY Zenon DEF Chat!CreateSession
<1>2. e \in Chat!Memory /\ e.lessons = {} /\ e # None
    BY EmptyTyped, Zenon DEF Chat!ChatAssumption
<1> HIDE DEF e
<1>3. /\ chatStatus \in [Sessions -> {"absent", "open", "deleted"}]
      /\ saved \in [Sessions -> Chat!Memory \cup {None}]
    BY Zenon DEF ChatInv, Chat!TypeOK
<1>4. /\ chatStatus' \in [Sessions -> {"absent", "open", "deleted"}]
      /\ saved' \in [Sessions -> Chat!Memory \cup {None}]
      /\ chatStatus'[s] = "open" /\ saved'[s] = e
      /\ \A x \in Sessions \ {s} : chatStatus'[x] = chatStatus[x] /\ saved'[x] = saved[x]
    BY <1>1, <1>2, <1>3, Zenon
<1>5. \A x : /\ Chat!Answered(x)' = Chat!Answered(x)
             /\ \A role : Chat!Entries(x, role)' = Chat!Entries(x, role)
    BY <1>1, EntriesStay, Zenon
<1>6. transcript[s] = <<>>
    BY <1>1, Zenon DEF ChatInv, Chat!RowsHaveSession
<1>7. Chat!Entries(s, "assistant") = {}
    <2>1. \A i : i \notin 1 .. Len(<<>>)
        BY SMT
    <2> QED BY <1>6, <2>1, Zenon DEF Chat!Entries
<1>8. Chat!Answered(s) = {}
    BY <1>7, Zenon DEF Chat!Answered
<1>9. Chat!TypeOK'
    BY <1>1, <1>4, Zenon DEF ChatInv, Chat!TypeOK
<1>10. Chat!RowsHaveSession'
    BY <1>1, <1>2, <1>4, Zenon DEF ChatInv, Chat!RowsHaveSession
<1>11. Chat!EvidenceHasAnswer'
    BY <1>1, <1>5, Zenon DEF ChatInv, Chat!EvidenceHasAnswer
<1>12. Chat!MemoryOfAnswered'
    BY <1>2, <1>4, <1>5, Zenon DEF ChatInv, Chat!MemoryOfAnswered
<1>13. /\ Chat!TitleIsFirst' /\ UserBegins' /\ OneCritical' /\ Alone'
    <2>1. Chat!TitleIsFirst' /\ UserBegins'
        BY <1>1, Zenon DEF ChatInv, Chat!TitleIsFirst, UserBegins
    <2>2. OneCritical'
        BY <1>1, Zenon DEF ChatInv, OneCritical
    <2>3. Alone'
        BY <1>1, Zenon DEF ChatInv, Alone
    <2> QED BY <2>1, <2>2, <2>3
<1>14. AnswersAreOfChat'
    BY <1>1, <1>5, Zenon DEF ChatInv, AnswersAreOfChat
<1>15. Chat!NothingForgotten'
    BY <1>1, <1>4, <1>5, <1>8, Zenon DEF ChatInv, Chat!NothingForgotten
<1>16. Chat!TasksNotMixed'
    BY <1>1, <1>4, <1>5, <1>7, Zenon DEF ChatInv, Chat!TasksNotMixed
<1>17. \A u \in Turns : TurnHolds(u)'
    <2>1. SUFFICES ASSUME NEW u \in Turns, turn[u].at \in Underway PROVE TurnHolds(u)'
        BY <1>1, Zenon DEF TurnHolds
    <2>2. PICK x \in Sessions : x = turn[u].chat /\ InChat(u, x)
        BY <2>1, Zenon DEF ChatInv, TurnHolds
    <2>3. x # s
        BY <1>1, <2>2, Zenon DEF InChat
    <2>4. Carries(u, x) => Carries(u, x)'
        BY <1>1, <1>4, <2>3, Zenon DEF Carries
    <2>5. InChat(u, x)'
        BY <1>1, <1>4, <1>5, <2>2, <2>3, <2>4, Zenon DEF InChat
    <2> QED BY <1>1, <2>2, <2>5, Zenon DEF TurnHolds
<1> QED BY <1>9, <1>10, <1>11, <1>12, <1>13, <1>14, <1>15, <1>16, <1>17 DEF ChatInv

LEMMA DeleteSessionKeeps ==
    ASSUME ChatInv, NEW s \in Sessions, Chat!DeleteSession(s) PROVE ChatInv'
<1>1. /\ Chat!LoopFree
      /\ chatStatus' = [chatStatus EXCEPT ![s] = "deleted"]
      /\ title' = [title EXCEPT ![s] = None]
      /\ transcript' = [transcript EXCEPT ![s] = <<>>]
      /\ evidence' = [evidence EXCEPT ![s] = {}]
      /\ saved' = [saved EXCEPT ![s] = None]
      /\ UNCHANGED <<turn, disturbed, crashes>>
    BY Zenon DEF Chat!DeleteSession
<1>2. /\ chatStatus \in [Sessions -> {"absent", "open", "deleted"}]
      /\ title \in [Sessions -> Turns \cup {None}]
      /\ transcript \in [Sessions -> Seq(Chat!Message)]
      /\ evidence \in [Sessions -> SUBSET Turns]
      /\ saved \in [Sessions -> Chat!Memory \cup {None}]
    BY Zenon DEF ChatInv, Chat!TypeOK
<1>3. <<>> \in Seq(Chat!Message)
    BY SMT
<1>4. /\ chatStatus' \in [Sessions -> {"absent", "open", "deleted"}]
      /\ title' \in [Sessions -> Turns \cup {None}]
      /\ transcript' \in [Sessions -> Seq(Chat!Message)]
      /\ evidence' \in [Sessions -> SUBSET Turns]
      /\ saved' \in [Sessions -> Chat!Memory \cup {None}]
    BY <1>1, <1>2, <1>3, Zenon
<1>5. /\ chatStatus'[s] = "deleted" /\ title'[s] = None /\ transcript'[s] = <<>>
      /\ evidence'[s] = {} /\ saved'[s] = None
      /\ \A x \in Sessions \ {s} :
           /\ chatStatus'[x] = chatStatus[x] /\ title'[x] = title[x]
           /\ transcript'[x] = transcript[x] /\ evidence'[x] = evidence[x]
           /\ saved'[x] = saved[x]
    BY <1>1, <1>2, Zenon
<1>6. \A x \in Sessions \ {s} : /\ Chat!Answered(x)' = Chat!Answered(x)
                                /\ \A role : Chat!Entries(x, role)' = Chat!Entries(x, role)
    BY <1>5, EntriesStay, Zenon
<1>7. Chat!Entries(s, "assistant")' = {}
    <2>1. \A i : i \notin 1 .. Len(<<>>)
        BY SMT
    <2> QED BY <1>5, <2>1, Zenon DEF Chat!Entries
<1>8. Chat!Answered(s)' = {}
    BY <1>7, Zenon DEF Chat!Answered
<1>9. Chat!TypeOK'
    BY <1>1, <1>4, Zenon DEF ChatInv, Chat!TypeOK
<1>10. Chat!RowsHaveSession'
    BY <1>5, Zenon DEF ChatInv, Chat!RowsHaveSession
<1>11. Chat!EvidenceHasAnswer'
    <2>1. \A x \in Sessions : evidence'[x] \subseteq Chat!Answered(x)'
        BY <1>5, <1>6, Zenon DEF ChatInv, Chat!EvidenceHasAnswer
    <2> QED BY <2>1, Zenon DEF Chat!EvidenceHasAnswer
<1>12. Chat!MemoryOfAnswered'
    <2>1. \A x \in Sessions : saved'[x] # None =>
              saved'[x].lessons \subseteq Chat!Answered(x)' \X Chat!Kinds
        BY <1>5, <1>6, Zenon DEF ChatInv, Chat!MemoryOfAnswered
    <2> QED BY <2>1, Zenon DEF Chat!MemoryOfAnswered
<1>13. Chat!TitleIsFirst' /\ UserBegins'
    BY <1>5, Zenon DEF ChatInv, Chat!TitleIsFirst, UserBegins
<1>14. OneCritical' /\ Alone'
    BY <1>1, Zenon DEF ChatInv, OneCritical, Alone
<1>15. AnswersAreOfChat'
    <2>1. \A x \in Sessions : \A u \in Chat!Answered(x)' :
              turn[u].chat = x /\ turn[u].at \in {"cite", "save", "done"}
        BY <1>6, <1>8, Zenon DEF ChatInv, AnswersAreOfChat
    <2> QED BY <1>1, <2>1, Zenon DEF AnswersAreOfChat
<1>16. Chat!NothingForgotten'
    <2>1. SUFFICES ASSUME NEW x \in Sessions \ disturbed, chatStatus'[x] = "open",
                          NEW u \in Chat!Answered(x)',
                          turn[u].at = "done", "lasting" \in turn[u].gave
                   PROVE  <<u, "lasting">> \in saved'[x].lessons
        BY <1>1, Zenon DEF Chat!NothingForgotten
    <2>2. x # s
        BY <1>5, <2>1, Zenon
    <2> QED BY <1>5, <1>6, <2>1, <2>2, Zenon DEF ChatInv, Chat!NothingForgotten
<1>17. Chat!TasksNotMixed'
    <2>1. SUFFICES ASSUME NEW x \in Sessions \ disturbed, chatStatus'[x] = "open",
                          NEW i \in Chat!Entries(x, "assistant")',
                          NEW j \in Chat!Entries(x, "assistant")', i < j,
                          turn[transcript'[x][j].turn].at = "done",
                          turn[transcript'[x][j].turn].switched
                   PROVE  <<transcript'[x][i].turn, "task">> \notin saved'[x].lessons
        BY <1>1, Zenon DEF Chat!TasksNotMixed
    <2>2. x # s
        BY <1>5, <2>1, Zenon
    <2>3. transcript'[x] = transcript[x] /\ saved'[x] = saved[x] /\ chatStatus[x] = "open"
        BY <1>5, <2>1, <2>2, Zenon
    <2>4. Chat!Entries(x, "assistant")' = Chat!Entries(x, "assistant")
        BY <1>6, <2>2, Zenon
    <2> QED BY <2>1, <2>3, <2>4, Zenon DEF ChatInv, Chat!TasksNotMixed
<1>18. \A u \in Turns : TurnHolds(u)'
    <2>1. SUFFICES ASSUME NEW u \in Turns, turn[u].at \in Underway PROVE TurnHolds(u)'
        BY <1>1, Zenon DEF TurnHolds
    <2>2. PICK x \in Sessions : x = turn[u].chat /\ InChat(u, x)
        BY <2>1, Zenon DEF ChatInv, TurnHolds
    <2>3. turn[u].at \notin {"title", "cite", "save"}
        BY <1>1, Zenon DEF Chat!LoopFree
    <2>4. InChat(u, x)'
        <3>1. CASE x = s
            BY <1>1, <1>5, <2>3, <3>1, Zenon DEF InChat
        <3>2. CASE x # s
            <4>1. Carries(u, x) => Carries(u, x)'
                BY <1>1, <1>5, <3>2, Zenon DEF Carries
            <4>2. /\ chatStatus'[x] = chatStatus[x] /\ transcript'[x] = transcript[x]
                  /\ turn'[u] = turn[u] /\ disturbed' = disturbed
                BY <1>1, <1>5, <3>2, Zenon
            <4>3. Chat!Answered(x)' = Chat!Answered(x)
                BY <1>6, <3>2, Zenon
            <4> QED BY <2>2, <2>3, <4>1, <4>2, <4>3, Zenon DEF InChat
        <3> QED BY <3>1, <3>2
    <2> QED BY <1>1, <2>2, <2>4, Zenon DEF TurnHolds
<1> QED BY <1>9, <1>10, <1>11, <1>12, <1>13, <1>14, <1>15, <1>16, <1>17, <1>18 DEF ChatInv

LEMMA ChatStep ==
    ASSUME Chat!ChatAssumption PROVE ChatInv /\ [Chat!Next]_(Chat!vars) => ChatInv'
<1> SUFFICES ASSUME ChatInv, [Chat!Next]_(Chat!vars) PROVE ChatInv'
    OBVIOUS
<1>1. CASE UNCHANGED Chat!vars
    <2>1. /\ UNCHANGED <<chatStatus, title, transcript, evidence, saved>>
          /\ turn' = turn /\ disturbed' = disturbed /\ crashes' = crashes
        BY <1>1, Zenon DEF Chat!vars
    <2>2. Chat!TypeOK'
        BY <2>1, Zenon DEF ChatInv, Chat!TypeOK
    <2>3. /\ Chat!RowsHaveSession' /\ Chat!EvidenceHasAnswer' /\ Chat!TitleIsFirst'
          /\ Chat!MemoryOfAnswered' /\ UserBegins'
        BY <2>1, TablesStay, Zenon
    <2>4. Chat!NothingForgotten' /\ Chat!TasksNotMixed'
        BY <2>1, HistoryStays, Zenon
    <2>5. OneCritical'
        BY <2>1, Zenon DEF ChatInv, OneCritical
    <2>6. Alone'
        BY <2>1, Zenon DEF ChatInv, Alone
    <2>7. AnswersAreOfChat'
        <3>1. \A s : Chat!Answered(s)' = Chat!Answered(s)
            BY <2>1, EntriesStay, Zenon
        <3> QED BY <2>1, <3>1, Zenon DEF ChatInv, AnswersAreOfChat
    <2>8. \A u \in Turns : TurnHolds(u)'
        BY <2>1, OtherHolds, Zenon
    <2> QED BY <2>2, <2>3, <2>4, <2>5, <2>6, <2>7, <2>8 DEF ChatInv
<1>2. ASSUME NEW s \in Sessions, Chat!CreateSession(s) \/ Chat!DeleteSession(s) PROVE ChatInv'
    BY <1>2, CreateSessionKeeps, DeleteSessionKeeps, Zenon
<1>3. ASSUME NEW t \in Turns, NEW s \in Sessions, Chat!SendMessage(t, s) PROVE ChatInv'
    BY <1>3, SendMessageKeeps, Zenon
<1>4. ASSUME NEW t \in Turns, Chat!SetTitle(t) PROVE ChatInv'
    BY <1>4, SetTitleKeeps, Zenon
<1>5. ASSUME NEW t \in Turns, NEW goal \in BOOLEAN, NEW switch \in BOOLEAN,
             NEW question \in BOOLEAN, NEW gave \in SUBSET Chat!Kinds,
             Chat!Extracted(t, goal, gave, switch, question)
      PROVE  ChatInv'
    BY <1>5, ExtractedKeeps, Zenon
<1>6. ASSUME NEW t \in Turns, Chat!ExtractionAborted(t) \/ Chat!GroundingFailed(t) PROVE ChatInv'
    BY <1>6, GivingUpKeeps, Zenon DEF Chat!ExtractionAborted, Chat!GroundingFailed
<1>7. ASSUME NEW t \in Turns, NEW cites \in BOOLEAN, Chat!Grounded(t, cites) PROVE ChatInv'
    BY <1>7, GroundedKeeps, Zenon
<1>8. ASSUME NEW t \in Turns, Chat!Reply(t) PROVE ChatInv'
    BY <1>8, ReplyKeeps, Zenon
<1>9. ASSUME NEW t \in Turns, Chat!AddEvidence(t) PROVE ChatInv'
    BY <1>9, AddEvidenceKeeps, Zenon
<1>10. ASSUME NEW t \in Turns, Chat!SaveState(t) PROVE ChatInv'
    BY <1>10, SaveStateKeeps, Zenon
<1>11. CASE Chat!Crash
    BY <1>11, CrashKeeps, Zenon
<1> QED BY <1>1, <1>2, <1>3, <1>4, <1>5, <1>6, <1>7, <1>8, <1>9, <1>10, <1>11, Zenon DEF Chat!Next

LEMMA ChatInductive == Spec => []ChatInv
<1>1. Chat!ChatAssumption
    BY ServicesConstants DEF ServicesAssumption
<1>2. Init => ChatInv
    <2>1. Init => Chat!Init
        BY Zenon DEF Init
    <2> QED BY <1>1, <2>1, ChatInit
<1>3. [Next]_vars => [Chat!Next]_(Chat!vars)
    BY Zenon DEF Next, Only, vars, Chat!vars, chatVars
<1>4. ChatInv /\ [Next]_vars => ChatInv'
    BY <1>1, <1>3, ChatStep
<1> QED BY <1>2, <1>4, PTL DEF Spec

\* However turns overlap, wherever the process dies and whatever is deleted meanwhile,
\* the four tables of the chat agree (the commits of Day25ChatService.send_message).
THEOREM TablesStayInStep == Spec => []TablesAgree
<1>1. ChatInv => TablesAgree
    BY Zenon DEF ChatInv, TablesAgree, Of
<1> QED BY ChatInductive, <1>1, PTL

\* Where turns do not overlap and no crash cut one, a lasting lesson is never forgotten
\* and a change of task leaves nothing of the tasks before it (save_state,
\* _reset_for_goal_change).
THEOREM TasksStayApart == Spec => []TasksHold
<1>1. ChatInv => TasksHold
    BY Zenon DEF ChatInv, TasksHold, Of
<1> QED BY ChatInductive, <1>1, PTL

----------------------------------------------------------------------------
(* The types of all the services.                                          *)

Replies == [to : SUBSET JournalTurns, messages : Seq(Journal!Message),
            answer : SUBSET Journal!Message, intact : BOOLEAN, forced : BOOLEAN]

ReplyTyped == exists \in BOOLEAN /\ reply \in Replies

LEMMA RepliesAre ==
    ASSUME NEW to \in SUBSET JournalTurns, NEW told \in Seq(Journal!Message),
           NEW answer \in SUBSET Journal!Message, NEW intact \in BOOLEAN, NEW forced \in BOOLEAN
    PROVE  Journal!Reply(to, told, answer, intact, forced) \in Replies
BY Zenon DEF Journal!Reply, Replies

LEMMA NoReplyIsOne == Journal!NoReply \in Replies
<1>1. <<>> \in Seq(Journal!Message)
    BY SMT
<1> DEFINE nothing == <<>>
           nobody == {}
<1>2. /\ nobody \in SUBSET JournalTurns /\ nobody \in SUBSET Journal!Message
      /\ nothing \in Seq(Journal!Message) /\ FALSE \in BOOLEAN
    BY <1>1, Zenon
<1> HIDE DEF nothing, nobody
<1>3. Journal!Reply(nobody, nothing, nobody, FALSE, FALSE) \in Replies
    BY <1>2, RepliesAre, Zenon
<1> QED BY <1>3, Zenon DEF nothing, nobody, Journal!NoReply

\* What a turn tells is messages of the journal.
LEMMA AnswersAre ==
    ASSUME Journal!KeepAssumption, JournalTyped, NEW t \in JournalTurns,
           NEW told \in Seq(Journal!Message), NEW lost, NEW forced \in BOOLEAN,
           Journal!Answers(t, told, lost, forced), ReplyTyped
    PROVE  ReplyTyped'
<1> DEFINE debug == Journal!Says(t, "debug")
           traced == Journal!Kept(Append(told, debug))
           since == journalTurn[t].since
<1>1. debug \in Journal!Message
    BY SaysIsMessage, SMT DEF Journal!Kinds
<1>2. traced \in Seq(Journal!Message)
    BY <1>1, OneMessageMore, Zenon
<1>3. since \in Nat
    BY SMT DEF JournalTyped, TurnState, Journal!KeepAssumption
<1> HIDE DEF debug, traced, since
<1>4. Journal!From(traced, since) \in Seq(Journal!Message)
    <2>1. Len(traced) \in Nat /\ since + 1 >= 1
        BY <1>2, <1>3, SMT
    <2> QED BY <1>2, <1>3, <2>1, SMT DEF Journal!From
<1>5. Journal!WorkFrom(told, since) \in SUBSET Journal!Message
    <2> SUFFICES ASSUME NEW i \in since + 1 .. Len(told) PROVE told[i] \in Journal!Message
        BY Zenon DEF Journal!WorkFrom
    <2> QED BY <1>3, SMT
<1>6. (journalTurn[t].intact /\ ~lost) \in BOOLEAN /\ {t} \in SUBSET JournalTurns
    BY Zenon
<1>7. Journal!Reply({t}, Journal!From(traced, since), Journal!WorkFrom(told, since),
                    journalTurn[t].intact /\ ~lost, forced) \in Replies
    <2> DEFINE whole == journalTurn[t].intact /\ ~lost
               rest == Journal!From(traced, since)
               work == Journal!WorkFrom(told, since)
               all == {t}
    <2>1. rest \in Seq(Journal!Message) /\ work \in SUBSET Journal!Message
          /\ whole \in BOOLEAN /\ all \in SUBSET JournalTurns
        BY <1>4, <1>5, <1>6
    <2> HIDE DEF whole, rest, work, all
    <2>2. Journal!Reply(all, rest, work, whole, forced) \in Replies
        BY <2>1, RepliesAre, Zenon
    <2> QED BY <2>2, Zenon DEF whole, rest, work, all
<1>8. exists' = exists
      /\ reply' = Journal!Reply({t}, Journal!From(traced, since), Journal!WorkFrom(told, since),
                                journalTurn[t].intact /\ ~lost, forced)
    BY Zenon DEF Journal!Answers, debug, traced, since
<1> QED BY <1>7, <1>8, Zenon DEF ReplyTyped

LEMMA ReplyTypes ==
    ASSUME Journal!KeepAssumption, JournalInv, ReplyTyped, [Journal!Next]_(Journal!vars)
    PROVE  ReplyTyped'
<1>1. ASSUME NEW t \in JournalTurns,
             \/ Journal!Converse(t) \/ Journal!StartTask(t) \/ Journal!Work(t) \/ Journal!Fail(t)
      PROVE  ReplyTyped'
    <2>1. reply' = Journal!NoReply /\ (exists' = exists \/ exists' = TRUE)
        BY <1>1, Zenon DEF Journal!Converse, Journal!StartTask, Journal!Work, Journal!Fail
    <2> QED BY <2>1, NoReplyIsOne, Zenon DEF ReplyTyped
<1>2. CASE Journal!Replace
    BY <1>2, NoReplyIsOne, Zenon DEF Journal!Replace, ReplyTyped
<1>3. ASSUME NEW t \in JournalTurns, Journal!Respond(t) PROVE ReplyTyped'
    <2> DEFINE told == Journal!Kept(Append(journal, Journal!Says(t, "work")))
    <2>1. told \in Seq(Journal!Message)
        <3>1. Journal!Says(t, "work") \in Journal!Message
            BY SaysIsMessage, SMT DEF Journal!Kinds
        <3> QED BY <3>1, OneMessageMore, Zenon DEF JournalInv, JournalTyped
    <2>2. Journal!Answers(t, told, Journal!Overflows(2), FALSE)
        BY <1>3, Zenon DEF Journal!Respond
    <2> HIDE DEF told
    <2>3. FALSE \in BOOLEAN /\ JournalTyped
        BY Zenon DEF JournalInv
    <2> QED BY <2>1, <2>2, <2>3, AnswersAre, Zenon
<1>4. ASSUME NEW t \in JournalTurns, Journal!RespondForced(t) PROVE ReplyTyped'
    <2>1. journal \in Seq(Journal!Message) /\ JournalTyped /\ TRUE \in BOOLEAN
        BY Zenon DEF JournalInv, JournalTyped
    <2>2. Journal!Answers(t, journal, Journal!Overflows(1), TRUE)
        BY <1>4, Zenon DEF Journal!RespondForced
    <2> QED BY <2>1, <2>2, AnswersAre, Zenon
<1>5. CASE UNCHANGED Journal!vars
    BY <1>5, Zenon DEF Journal!vars, ReplyTyped
<1> QED BY <1>1, <1>2, <1>3, <1>4, <1>5, Zenon DEF Journal!Next

LEMMA JournalIsTyped == Spec => []Journal!TypeOK
<1>1. Journal!KeepAssumption
    BY ServicesConstants DEF ServicesAssumption
<1>2. Init => ReplyTyped
    BY NoReplyIsOne, Zenon DEF Init, Journal!Init, ReplyTyped
<1>3. [Next]_vars => [Journal!Next]_(Journal!vars)
    BY Zenon DEF Next, Only, vars, Journal!vars, journalVars
<1>4. JournalInv /\ ReplyTyped /\ [Next]_vars => ReplyTyped'
    BY <1>1, <1>3, ReplyTypes
<1>5. JournalInv /\ ReplyTyped => Journal!TypeOK
    BY Zenon DEF JournalInv, JournalTyped, TurnState, ReplyTyped, Replies, Journal!TypeOK
<1> QED BY <1>2, <1>4, <1>5, JournalInductive, PTL DEF Spec

\* Whatever is asked of the services, what each keeps has its shape: dialogs,
\* searches and calls of the agents, rows and traces of the pipeline, exceptions
\* under way, grades, chunks, memories, chats and the replies of the journal.
THEOREM ServicesTyped == Spec => []TypeOK
<1>1. ChatInv => Chat!TypeOK
    BY DEF ChatInv
<1>2. MemoryInv => Remembered!TypeOK
    BY DEF MemoryInv
<1>3. GroundingInv => Grounding!TypeOK
    BY DEF GroundingInv
<1>4. EvaluationInv => Evaluated!TypeOK
    BY DEF EvaluationInv
<1>5. StructuralInv => Structural!TypeOK
    BY DEF StructuralInv
<1>6. ErrorInv => Errors!TypeOK
    BY ErrorsTyped
<1>7. (/\ Chat!TypeOK /\ Remembered!TypeOK /\ Grounding!TypeOK /\ Loop!TypeOK
       /\ Errors!TypeOK /\ Evaluated!TypeOK /\ Journal!TypeOK /\ Pipeline!TypeOK
       /\ Fixed!TypeOK /\ Structural!TypeOK) => TypeOK
    BY Zenon DEF TypeOK, Of
<1> QED BY <1>1, <1>2, <1>3, <1>4, <1>5, <1>6, <1>7, ChatInductive, MemoryInductive,
           GroundingInductive, LoopIsTyped, ErrorsInductive, EvaluationInductive,
           JournalIsTyped, PipelineIsTyped, FixedTypeCorrect, StructuralInductive, PTL
=============================================================================
