----------------------------- MODULE ToolProofs -----------------------------
(***************************************************************************)
(* The tool loops of Days 17 and 18 and the log pipeline of Day 19, for    *)
(* any limits, calls, rows and failures. In a loop the strengthening       *)
(* says, of the dialog, which message every answer belongs to and which    *)
(* calls of the last one are open; of a search, that it counted the        *)
(* lines it has seen. In the pipeline it says which names are known at     *)
(* each stage, which files are written in which order, and what the        *)
(* trace says meanwhile. On the way of an error it says which classes may  *)
(* be under way behind each layer, and whether the handler knows them.     *)
(***************************************************************************)
EXTENDS KnowledgeProofs

----------------------------------------------------------------------------
(* The loop.                                                               *)

\* The calls still to run are of this round, and their windows are the user's
\* when he chose one.
CallsTyped ==
    /\ agent \in {"logs", "monitoring"}
    /\ iteration \in 0 .. MaxToolIterations
    /\ llmCalls \in Seq(Loop!Call) /\ toolCalls \in Seq(Loop!Places)
    /\ stage = "calling" => llmCalls # <<>>

WindowsEnforced ==
    chosen => \A i \in DOMAIN llmCalls :
                  llmCalls[i].tool = "search_logs" => llmCalls[i].window = "chosen"

LoopInv == CallsTyped /\ WindowsEnforced /\ Loop!StartedIsReported /\ Loop!ChosenWindowOnly

LEMMA LoopInit == ASSUME Loop!ToolLoopAssumption PROVE Loop!Init => LoopInv
BY SMT DEF Loop!Init, LoopInv, CallsTyped, WindowsEnforced, Loop!StartedIsReported, Loop!ChosenWindowOnly,
           Loop!ToolLoopAssumption

\* What is appended is in the range.
LEMMA RangeOfAppend ==
    ASSUME NEW S, NEW s \in Seq(S), NEW e \in S
    PROVE  /\ Append(s, e) \in Seq(S)
           /\ Loop!Range(s) \subseteq Loop!Range(Append(s, e))
           /\ e \in Loop!Range(Append(s, e))
<1>1. Append(s, e) \in Seq(S) /\ Len(Append(s, e)) = Len(s) + 1
      /\ Append(s, e)[Len(s) + 1] = e
      /\ \A i \in 1 .. Len(s) : Append(s, e)[i] = s[i]
    BY SMT
<1>2. Len(s) \in Nat /\ DOMAIN s = 1 .. Len(s)
      /\ DOMAIN Append(s, e) = 1 .. Len(s) + 1
    BY <1>1, SMT
<1>3. DOMAIN s \subseteq DOMAIN Append(s, e) /\ Len(s) + 1 \in DOMAIN Append(s, e)
    BY <1>2, SMT
<1> QED BY <1>1, <1>2, <1>3, Zenon DEF Loop!Range

\* The head and the rest of a sequence that is not empty.
LEMMA HeadAndTail ==
    ASSUME NEW S, NEW s \in Seq(S), s # <<>>
    PROVE  /\ Head(s) \in S /\ Tail(s) \in Seq(S)
           /\ Head(s) = s[1] /\ 1 \in DOMAIN s
           /\ \A i \in DOMAIN Tail(s) : i + 1 \in DOMAIN s /\ Tail(s)[i] = s[i + 1]
           /\ Len(s) # 1 => Tail(s) # <<>>
<1>1. Len(s) \in Nat /\ Len(s) > 0 /\ Len(Tail(s)) = Len(s) - 1
    BY SMT
<1>2. Tail(s) \in Seq(S)
    BY SMT
<1>3. Len(s) # 1 => Len(Tail(s)) # 0
    BY <1>1, SMT
<1>4. Len(<<>>) = 0
    BY SMT
<1>5. Len(s) # 1 => Tail(s) # <<>>
    BY <1>3, <1>4, Zenon
<1>6. Head(s) \in S /\ Head(s) = s[1] /\ 1 \in DOMAIN s
    BY <1>1, SMT
<1>7. \A i \in DOMAIN Tail(s) : i + 1 \in DOMAIN s /\ Tail(s)[i] = s[i + 1]
    BY <1>1, SMT
<1> QED BY <1>2, <1>5, <1>6, <1>7, Zenon

\* A message of the model is a sequence of calls, with the user's window where
\* he chose one.
LEMMA SelectionsAreCalls ==
    ASSUME Loop!ToolLoopAssumption, iteration \in 0 .. MaxToolIterations,
           iteration < MaxToolIterations, agent \in {"logs", "monitoring"},
           NEW calls \in Loop!Selections
    PROVE  /\ Loop!Enforced(calls) \in Seq(Loop!Call) /\ Loop!Enforced(calls) # <<>>
           /\ chosen => \A i \in DOMAIN Loop!Enforced(calls) :
                  Loop!Enforced(calls)[i].tool = "search_logs" => Loop!Enforced(calls)[i].window = "chosen"
<1> DEFINE At(i) == {c \in [place : {<<iteration + 1, i>>}, id : {<<iteration + 1, i>>, <<0, i>>},
                            tool : Loop!Tools(agent) \cup {"unknown"}, given : BOOLEAN,
                            window : {"own"}] : c.tool = "unknown" => c.given}
<1>1. PICK n \in 1 .. MaxCalls :
          calls \in [1 .. n -> UNION {At(i) : i \in 1 .. n}] /\ \A i \in 1 .. n : calls[i] \in At(i)
    BY Zenon DEF Loop!Selections
<1>2. \A i \in 1 .. n : calls[i] \in Loop!Call
    <2> TAKE i \in 1 .. n
    <2>1. iteration + 1 \in 1 .. MaxToolIterations /\ i \in 1 .. MaxCalls
        BY SMT DEF Loop!ToolLoopAssumption
    <2>2. <<iteration + 1, i>> \in Loop!Places /\ {<<iteration + 1, i>>, <<0, i>>} \subseteq Loop!Ids
        BY <2>1, SMT DEF Loop!Places, Loop!Ids
    <2>3. Loop!Tools(agent) \subseteq Loop!Tools("logs") \cup Loop!Tools("monitoring")
        BY SMT DEF Loop!Tools
    <2>4. calls[i] \in [place : {<<iteration + 1, i>>}, id : {<<iteration + 1, i>>, <<0, i>>},
                         tool : Loop!Tools(agent) \cup {"unknown"}, given : BOOLEAN,
                         window : {"own"}]
        BY <1>1, Zenon
    <2>5. /\ {<<iteration + 1, i>>} \subseteq Loop!Places
          /\ Loop!Tools(agent) \cup {"unknown"} \subseteq
                 Loop!Tools("logs") \cup Loop!Tools("monitoring") \cup {"unknown"}
          /\ {"own"} \subseteq {"own", "chosen"}
        BY <2>2, <2>3, Zenon
    <2> HIDE DEF At
    <2> QED BY <2>2, <2>4, <2>5, SMT DEF Loop!Call
<1>3. \A i \in 1 .. n : [calls[i] EXCEPT !.window = "chosen"] \in Loop!Call
    BY <1>2, SMT DEF Loop!Call
<1>4. Loop!Enforced(calls) \in [1 .. n -> Loop!Call]
    BY <1>1, <1>2, <1>3, SMT DEF Loop!Enforced
<1>5. n \in Nat /\ n > 0
    BY SMT DEF Loop!ToolLoopAssumption
<1>6. Loop!Enforced(calls) \in Seq(Loop!Call) /\ Loop!Enforced(calls) # <<>>
    BY <1>4, <1>5, SMT
<1>7. ASSUME chosen, NEW i \in 1 .. n, Loop!Enforced(calls)[i].tool = "search_logs"
      PROVE  Loop!Enforced(calls)[i].window = "chosen"
    BY <1>1, <1>2, <1>7, SMT DEF Loop!Enforced, Loop!Call
<1> QED BY <1>4, <1>6, <1>7, SMT

\* Every step keeps the invariant.
LEMMA LoopStep == ASSUME Loop!ToolLoopAssumption PROVE LoopInv /\ [Loop!Next]_(Loop!vars) => LoopInv'
<1> SUFFICES ASSUME LoopInv, [Loop!Next]_(Loop!vars) PROVE LoopInv'
    OBVIOUS
<1> USE DEF LoopInv
<1>1. CASE Loop!Discover
    BY <1>1, SMT DEF Loop!Discover, CallsTyped, WindowsEnforced, Loop!StartedIsReported, Loop!ChosenWindowOnly
<1>2. CASE Loop!Fails \/ Loop!Answers \/ Loop!IterationLimit
    <2>1. \E how \in {"answer", "error"} : Loop!Ends(how)
        BY <1>2, Zenon DEF Loop!Fails, Loop!Answers, Loop!IterationLimit
    <2>2. UNCHANGED <<agent, chosen, iteration, llmCalls, windows, jobs>>
        BY <1>2, Zenon DEF Loop!Fails, Loop!Answers, Loop!IterationLimit
    <2> QED
        BY <2>1, <2>2, SMT
        DEF Loop!Ends, CallsTyped, WindowsEnforced, Loop!StartedIsReported, Loop!ChosenWindowOnly
<1>3. CASE Loop!SelectTools
    <2>1. PICK calls \in Loop!Selections : llmCalls' = Loop!Enforced(calls)
        BY <1>3, Zenon DEF Loop!SelectTools
    <2>2. Loop!Enforced(calls) \in Seq(Loop!Call) /\ Loop!Enforced(calls) # <<>>
          /\ (chosen => \A i \in DOMAIN Loop!Enforced(calls) :
                 Loop!Enforced(calls)[i].tool = "search_logs" => Loop!Enforced(calls)[i].window = "chosen")
        <3>1. iteration < MaxToolIterations
            BY <1>3, Zenon DEF Loop!SelectTools
        <3> QED BY <3>1, SelectionsAreCalls, Zenon DEF CallsTyped
    <2>3. CallsTyped'
        BY <1>3, <2>1, <2>2, SMT DEF Loop!SelectTools, CallsTyped, Loop!ToolLoopAssumption
    <2>4. WindowsEnforced' /\ Loop!StartedIsReported' /\ Loop!ChosenWindowOnly'
        BY <1>3, <2>1, <2>2, Zenon
        DEF Loop!SelectTools, WindowsEnforced, Loop!StartedIsReported, Loop!ChosenWindowOnly
    <2> QED BY <2>3, <2>4
<1>4. CASE Loop!RunToolCall
    <2> DEFINE call == Head(llmCalls)
    <2>1. llmCalls \in Seq(Loop!Call) /\ llmCalls # <<>>
        BY <1>4, Zenon DEF Loop!RunToolCall, CallsTyped
    <2>2. /\ call \in Loop!Call /\ Tail(llmCalls) \in Seq(Loop!Call)
          /\ call = llmCalls[1] /\ 1 \in DOMAIN llmCalls
          /\ \A i \in DOMAIN Tail(llmCalls) :
                i + 1 \in DOMAIN llmCalls /\ Tail(llmCalls)[i] = llmCalls[i + 1]
          /\ Len(llmCalls) # 1 => Tail(llmCalls) # <<>>
        BY <2>1, HeadAndTail, Zenon
    <2>3. call.place \in Loop!Places
        BY <2>2, SMT DEF Loop!Call
    <2>5. /\ Append(toolCalls, call.place) \in Seq(Loop!Places)
          /\ Loop!Range(toolCalls) \subseteq Loop!Range(Append(toolCalls, call.place))
          /\ call.place \in Loop!Range(Append(toolCalls, call.place))
        BY <2>3, RangeOfAppend, Zenon DEF CallsTyped
    <2>6. WindowsEnforced'
        BY <1>4, <2>2, Zenon DEF Loop!RunToolCall, WindowsEnforced
    <2>7. CASE call.tool = "unknown"
        <3>1. UNCHANGED <<search, windows, jobs, toolCalls>>
            BY <1>4, <2>7, Zenon DEF Loop!RunToolCall
        <3>2. CallsTyped'
            BY <1>4, <3>1, <2>2, SMT DEF Loop!RunToolCall, CallsTyped
        <3> QED BY <1>4, <3>1, <3>2, <2>6, Zenon
                DEF Loop!RunToolCall, Loop!StartedIsReported, Loop!ChosenWindowOnly
    <2>8. CASE call.tool # "unknown"
        <3>1. Loop!Serve(call) /\ toolCalls' = Append(toolCalls, call.place)
            BY <1>4, <2>8, Zenon DEF Loop!RunToolCall
        <3>2. CallsTyped'
            BY <1>4, <3>1, <2>2, <2>5, SMT DEF Loop!RunToolCall, CallsTyped
        <3>3. jobs' \subseteq jobs \cup {call.place}
            BY <3>1, SMT DEF Loop!Serve
        <3>4. Loop!StartedIsReported'
            BY <3>1, <3>3, <2>5, Zenon DEF Loop!StartedIsReported
        <3>5. chosen => windows' \subseteq windows \cup {"chosen"}
            <4>1. chosen /\ call.tool = "search_logs" => call.window = "chosen"
                BY <2>2, Zenon DEF WindowsEnforced
            <4> QED BY <3>1, <4>1, SMT DEF Loop!Serve
        <3>6. Loop!ChosenWindowOnly'
            BY <1>4, <3>5, SMT DEF Loop!RunToolCall, Loop!ChosenWindowOnly
        <3> QED BY <3>2, <3>4, <3>6, <2>6
    <2> QED BY <2>7, <2>8
<1>5. CASE UNCHANGED Loop!vars
    BY <1>5, SMT DEF Loop!vars, CallsTyped, WindowsEnforced, Loop!StartedIsReported, Loop!ChosenWindowOnly
<1> QED BY <1>1, <1>2, <1>3, <1>4, <1>5, Zenon DEF Loop!Next

LEMMA LoopInductive == Spec => []LoopInv
<1>1. Loop!ToolLoopAssumption
    BY ServicesConstants DEF ServicesAssumption
<1>2. Init => LoopInv
    BY <1>1, LoopInit DEF Init
<1>3. [Next]_vars => [Loop!Next]_(Loop!vars)
    BY Zenon DEF Next, Only, vars, Loop!vars, loopVars
<1>4. LoopInv /\ [Next]_vars => LoopInv'
    BY <1>1, <1>3, LoopStep
<1> QED BY <1>2, <1>4, PTL DEF Spec

\* Whatever the model asks for, whatever fails and however the chat ends, a call
\* that started a monitoring job is in tool_calls of the response (an agent keeps
\* its records when it raises).
THEOREM StartedIsTold == Spec => []Loop!StartedIsReported
<1>1. LoopInv => Loop!StartedIsReported BY DEF LoopInv
<1> QED BY LoopInductive, <1>1, PTL

\* Once the user has chosen a time window, the log server is never asked for
\* another one, in any round (Day 17 replaces the arguments of each call).
THEOREM WindowIsChosen == Spec => []Loop!ChosenWindowOnly
<1>1. LoopInv => Loop!ChosenWindowOnly BY DEF LoopInv
<1> QED BY LoopInductive, <1>1, PTL

----------------------------------------------------------------------------
(* The dialog.                                                             *)

Told(id) == [role |-> "tool", id |-> id]
Asks(list, i) == list[i].role = "assistant"
After(list, i) == i + Len(list[i].ids)

\* The first n messages leave no call open, and hold no answer to no call.
ClosedUpTo(list, n) ==
    /\ \A i \in 1 .. n : Asks(list, i) =>
          /\ After(list, i) <= n
          /\ \A k \in 1 .. Len(list[i].ids) : list[i + k] = Told(list[i].ids[k])
    /\ \A j \in 1 .. n : ~Asks(list, j) =>
          \E i \in 1 .. n : Asks(list, i) /\ i < j /\ j <= After(list, i)

\* Message p made the calls that are still to run, and was answered so far.
OpenSince(list, calls, p) ==
    /\ p \in 1 .. Len(list) /\ Asks(list, p) /\ ClosedUpTo(list, p - 1)
    /\ list[p].ids \in Seq(Loop!Ids)
    /\ After(list, p) = Len(list) + Len(calls)
    /\ \A k \in 1 .. Len(list) - p : list[p + k] = Told(list[p].ids[k])
    /\ \A k \in 1 .. Len(calls) : calls[k].id = list[p].ids[Len(list) - p + k]

DialogInv ==
    /\ messages \in Seq(Loop!Message)
    /\ stage # "calling" => ClosedUpTo(messages, Len(messages))
    /\ stage = "calling" => \E p \in 1 .. Len(messages) : OpenSince(messages, llmCalls, p)

LEMMA ToldIs ==
    ASSUME NEW id \in Loop!Ids
    PROVE  /\ Told(id) \in Loop!Message /\ Told(id).role # "assistant"
BY SMT DEF Told, Loop!Message

\* The ids of a question are a sequence.
LEMMA AskedIds ==
    ASSUME NEW m \in Loop!Message, m.role = "assistant"
    PROVE  m.ids \in Seq(Loop!Ids) /\ Len(m.ids) \in Nat
<1>1. m \in [role : {"assistant"}, ids : Seq(Loop!Ids)]
    BY SMT DEF Loop!Message
<1>2. m.ids \in Seq(Loop!Ids)
    BY <1>1, SMT
<1> QED BY <1>2, SMT

\* What follows does not open what was closed.
LEMMA ClosedStays ==
    ASSUME NEW list \in Seq(Loop!Message), NEW m \in Loop!Message, NEW n \in 0 .. Len(list),
           ClosedUpTo(list, n)
    PROVE  ClosedUpTo(Append(list, m), n)
<1> DEFINE more == Append(list, m)
<1>1. \A i \in 1 .. Len(list) : more[i] = list[i] /\ list[i] \in Loop!Message
    BY SMT
<1>2. \A i \in 1 .. n : i \in 1 .. Len(list)
    BY SMT
<1>3. \A i \in 1 .. n : Asks(more, i) = Asks(list, i) /\ After(more, i) = After(list, i)
                        /\ more[i].ids = list[i].ids
    <2> HIDE DEF more
    <2> QED BY <1>1, <1>2, Zenon DEF Asks, After
<1> HIDE DEF more
<1>4. ASSUME NEW i \in 1 .. n, Asks(list, i)
      PROVE  /\ After(more, i) <= n
             /\ \A k \in 1 .. Len(more[i].ids) : more[i + k] = Told(more[i].ids[k])
    <2>1. /\ After(list, i) <= n
          /\ \A k \in 1 .. Len(list[i].ids) : list[i + k] = Told(list[i].ids[k])
        BY <1>4, Zenon DEF ClosedUpTo
    <2>2. Len(list[i].ids) \in Nat
        BY <1>1, <1>2, <1>4, AskedIds, Zenon DEF Asks
    <2>3. \A k \in 1 .. Len(list[i].ids) : i + k \in 1 .. Len(list)
        BY <2>1, <2>2, SMT DEF After
    <2> QED BY <1>1, <1>3, <2>1, <2>3, Zenon
<1>5. \A j \in 1 .. n : ~Asks(list, j) =>
          \E i \in 1 .. n : Asks(list, i) /\ i < j /\ j <= After(list, i)
    BY Zenon DEF ClosedUpTo
<1> QED BY <1>3, <1>4, <1>5, Zenon DEF ClosedUpTo, more

\* The model asks: what was closed before stays so.
LEMMA QuestionOpens ==
    ASSUME NEW list \in Seq(Loop!Message), ClosedUpTo(list, Len(list)),
           NEW ids \in Seq(Loop!Ids), NEW calls, Len(calls) = Len(ids),
           \A k \in 1 .. Len(ids) : calls[k].id = ids[k]
    PROVE  LET more == Append(list, [role |-> "assistant", ids |-> ids]) IN
           /\ more \in Seq(Loop!Message)
           /\ \E p \in 1 .. Len(more) : OpenSince(more, calls, p)
<1> DEFINE m == [role |-> "assistant", ids |-> ids]
           more == Append(list, m)
           p == Len(list) + 1
<1>1. m \in Loop!Message /\ m.role = "assistant" /\ m.ids = ids
    BY SMT DEF Loop!Message
<1> HIDE DEF m
<1>2. /\ more \in Seq(Loop!Message) /\ Len(more) = p /\ p \in 1 .. Len(more) /\ more[p] = m
      /\ p - 1 = Len(list) /\ Len(list) \in 0 .. Len(list)
    BY <1>1, SMT
<1>3. ClosedUpTo(more, p - 1)
    BY <1>1, <1>2, ClosedStays, Zenon
<1>4. Len(ids) \in Nat /\ p \in Nat
    BY SMT
<1> HIDE DEF more, p
<1>5. Asks(more, p) /\ more[p].ids = ids /\ After(more, p) = p + Len(ids)
    BY <1>1, <1>2, Zenon DEF Asks, After
<1>6. \A k \in 1 .. Len(more) - p : FALSE
    BY <1>2, <1>4, SMT
<1>7. \A k \in 1 .. Len(calls) : calls[k].id = more[p].ids[Len(more) - p + k]
    <2>1. \A k \in 1 .. Len(ids) : Len(more) - p + k = k
        BY <1>2, <1>4, SMT
    <2> QED BY <1>5, <2>1
<1>8. OpenSince(more, calls, p)
    BY <1>2, <1>3, <1>5, <1>6, <1>7, Zenon DEF OpenSince
<1> QED BY <1>2, <1>8, Zenon DEF more, m

\* A call is answered.
LEMMA AnswerCloses ==
    ASSUME NEW list \in Seq(Loop!Message), NEW calls \in Seq(Loop!Call), calls # <<>>,
           NEW p \in 1 .. Len(list), OpenSince(list, calls, p)
    PROVE  LET more == Append(list, Told(calls[1].id)) IN
           /\ more \in Seq(Loop!Message)
           /\ Len(calls) = 1 => ClosedUpTo(more, Len(more))
           /\ Len(calls) # 1 => OpenSince(more, Tail(calls), p) /\ p \in 1 .. Len(more)
<1> DEFINE m == Told(calls[1].id)
           more == Append(list, m)
           n == Len(list)
           c == Len(calls)
           ids == list[p].ids
<1>1. n \in Nat /\ c \in Nat /\ c > 0 /\ p \in Nat /\ p >= 1 /\ p <= n /\ Len(Tail(calls)) = c - 1
      /\ \A k \in 1 .. c - 1 : Tail(calls)[k] = calls[k + 1]
    BY SMT
<1>2. calls[1].id \in Loop!Ids
    <2>1. calls[1] \in Loop!Call
        BY <1>1, SMT
    <2> QED BY <2>1, Zenon DEF Loop!Call
<1>3. m \in Loop!Message /\ m.role # "assistant"
    BY <1>2, ToldIs, Zenon
<1>4. /\ Asks(list, p) /\ ClosedUpTo(list, p - 1) /\ ids \in Seq(Loop!Ids)
      /\ p + Len(ids) = n + c
      /\ \A k \in 1 .. n - p : list[p + k] = Told(ids[k])
      /\ \A k \in 1 .. c : calls[k].id = ids[n - p + k]
    BY Zenon DEF OpenSince, After
<1>5. Len(ids) \in Nat
    BY <1>4, SMT
<1> HIDE DEF m
<1>6. /\ more \in Seq(Loop!Message) /\ Len(more) = n + 1 /\ more[n + 1] = m
      /\ \A i \in 1 .. n : more[i] = list[i]
    BY <1>3, SMT
<1> HIDE DEF more
<1>7. ClosedUpTo(more, p - 1)
    <2>1. p - 1 \in 0 .. Len(list)
        BY <1>1, SMT
    <2> QED BY <1>3, <1>4, <2>1, ClosedStays, Zenon DEF more
<1> HIDE DEF n, c
<1>8. more[p] = list[p] /\ Asks(more, p) /\ more[p].ids = ids /\ After(more, p) = n + c
    <2>1. p \in 1 .. n
        BY <1>1, SMT
    <2> QED BY <1>4, <1>6, <2>1, Zenon DEF Asks, After
<1>9. m = Told(ids[n - p + 1])
    <2>1. 1 \in 1 .. c
        BY <1>1, SMT
    <2> QED BY <1>4, <2>1, Zenon DEF m
<1> HIDE DEF ids
<1>10. \A k \in 1 .. (n + 1) - p : more[p + k] = Told(ids[k])
    <2> TAKE k \in 1 .. (n + 1) - p
    <2>1. CASE k = n - p + 1
        <3>1. p + k = n + 1
            BY <1>1, <2>1, SMT
        <3> QED BY <1>6, <1>9, <2>1, <3>1, Zenon
    <2>2. CASE k # n - p + 1
        <3>1. k \in 1 .. n - p /\ p + k \in 1 .. n
            BY <1>1, <2>2, SMT
        <3> QED BY <1>4, <1>6, <3>1, Zenon
    <2> QED BY <2>1, <2>2
<1>11. ASSUME c = 1 PROVE ClosedUpTo(more, n + 1)
    <2>1. Len(ids) = (n + 1) - p
        BY <1>1, <1>4, <1>5, <1>11, SMT
    <2>2. \A i \in 1 .. n + 1 : i \in 1 .. p - 1 \/ i = p \/ i \in p + 1 .. n + 1
        BY <1>1, SMT
    <2>3. \A i \in p + 1 .. n + 1 : ~Asks(more, i) /\ p < i /\ i <= n + 1
        <3> TAKE i \in p + 1 .. n + 1
        <3>1. i - p \in 1 .. (n + 1) - p /\ p + (i - p) = i /\ p < i /\ i <= n + 1
            BY <1>1, SMT
        <3>2. more[i] = Told(ids[i - p])
            BY <1>10, <3>1, Zenon
        <3> QED BY <3>1, <3>2, SMT DEF Asks, Told
    <2>4. \A i \in 1 .. p - 1 : Asks(more, i) =>
              /\ After(more, i) <= p - 1
              /\ \A k \in 1 .. Len(more[i].ids) : more[i + k] = Told(more[i].ids[k])
        BY <1>7, Zenon DEF ClosedUpTo
    <2>5. \A i \in 1 .. p - 1 : Asks(more, i) => After(more, i) <= n + 1
        <3>1. \A i \in 1 .. p - 1 : Asks(more, i) => Len(more[i].ids) \in Nat /\ i \in 1 .. n
            <4>1. \A i \in 1 .. p - 1 : i \in 1 .. n
                BY <1>1, SMT
            <4>2. \A i \in 1 .. n : list[i] \in Loop!Message
                BY SMT DEF n
            <4> QED BY <1>6, <4>1, <4>2, AskedIds, Zenon DEF Asks
        <3> QED BY <1>1, <2>4, <3>1, SMT DEF After
    <2>6. p \in 1 .. n + 1 /\ After(more, p) = n + 1
        BY <1>1, <1>8, <1>11, SMT
    <2>7. \A i \in 1 .. n + 1 : Asks(more, i) =>
              /\ After(more, i) <= n + 1
              /\ \A k \in 1 .. Len(more[i].ids) : more[i + k] = Told(more[i].ids[k])
        <3> TAKE i \in 1 .. n + 1
        <3>1. CASE i \in 1 .. p - 1
            BY <2>4, <2>5, <3>1, Zenon
        <3>2. CASE i = p
            <4>1. n + 1 <= n + 1
                BY <1>1, SMT
            <4>2. \A k \in 1 .. Len(more[p].ids) : more[p + k] = Told(more[p].ids[k])
                <5>1. more[p].ids = ids /\ Len(more[p].ids) = (n + 1) - p
                    BY <1>8, <2>1
                <5>2. \A k \in 1 .. (n + 1) - p : more[p + k] = Told(more[p].ids[k])
                    BY <1>10, <5>1, Zenon
                <5> QED BY <5>1, <5>2, Zenon
            <4> QED BY <2>6, <3>2, <4>1, <4>2, Zenon
        <3>3. CASE i \in p + 1 .. n + 1
            BY <2>3, <3>3, Zenon
        <3> QED BY <2>2, <3>1, <3>2, <3>3
    <2>8. \A j \in 1 .. n + 1 : ~Asks(more, j) =>
              \E i \in 1 .. n + 1 : Asks(more, i) /\ i < j /\ j <= After(more, i)
        <3> TAKE j \in 1 .. n + 1
        <3>1. CASE j \in 1 .. p - 1
            <4>1. \A i \in 1 .. p - 1 : i \in 1 .. n + 1
                BY <1>1, SMT
            <4> QED BY <1>7, <3>1, <4>1, Zenon DEF ClosedUpTo
        <3>2. CASE j = p
            BY <1>8, <3>2, Zenon
        <3>3. CASE j \in p + 1 .. n + 1
            BY <1>8, <2>3, <2>6, <3>3, Zenon
        <3> QED BY <2>2, <3>1, <3>2, <3>3
    <2> QED BY <2>7, <2>8, Zenon DEF ClosedUpTo
<1>12. ASSUME c # 1 PROVE OpenSince(more, Tail(calls), p) /\ p \in 1 .. Len(more)
    <2>1. p \in 1 .. n + 1 /\ (n + 1) + (c - 1) = n + c
        BY <1>1, SMT
    <2>2. \A k \in 1 .. c - 1 : Tail(calls)[k].id = ids[(n + 1) - p + k]
        <3> TAKE k \in 1 .. c - 1
        <3>1. k + 1 \in 1 .. c /\ n - p + (k + 1) = (n + 1) - p + k
            BY <1>1, SMT
        <3>2. calls[k + 1].id = ids[n - p + (k + 1)]
            BY <1>4, <3>1, Zenon
        <3> QED BY <1>1, <3>1, <3>2, Zenon
    <2> QED BY <1>1, <1>4, <1>6, <1>7, <1>8, <1>10, <2>1, <2>2, Zenon DEF OpenSince
<1> QED BY <1>6, <1>11, <1>12, Zenon DEF more, m, n, c

----------------------------------------------------------------------------
(* The search.                                                             *)

LEMMA MinIsLeast ==
    ASSUME NEW T, T \subseteq Nat, T # {}
    PROVE  Loop!Min(T) \in T /\ \A n \in T : Loop!Min(T) <= n
<1>1. \E m \in T : \A n \in T : m <= n
    BY LeastNumber
<1> QED BY <1>1, Zenon DEF Loop!Min

\* The lines of a kind are counted one by one.
LEMMA HowManyCounts ==
    ASSUME NEW lines, NEW kind
    PROVE  /\ Loop!HowMany(lines, 0, kind) = 0
           /\ \A n \in Nat : Loop!HowMany(lines, n, kind) \in Nat
           /\ \A n \in Nat : Loop!HowMany(lines, n + 1, kind) <= Loop!HowMany(lines, n, kind) + 1
<1> DEFINE Of_(n) == {i \in 1 .. n : lines[i] = kind}
<1>1. \A n : Loop!HowMany(lines, n, kind) = Cardinality(Of_(n))
    <2>1. \A S : Loop!Cardinality(S) = Cardinality(S)
        BY DEF Loop!Cardinality, Cardinality
    <2> QED BY <2>1, Zenon DEF Loop!HowMany
<1>2. \A n \in Nat : IsFiniteSet(Of_(n))
    <2> TAKE n \in Nat
    <2>1. IsFiniteSet(1 .. n)
        BY FS_Interval, SMT
    <2> QED BY <2>1, FS_Subset, Zenon
<1>3. \A n \in Nat : Cardinality(Of_(n)) \in Nat
    BY <1>2, FS_CardinalityType, Zenon
<1>4. Cardinality(Of_(0)) = 0
    <2>1. Of_(0) = {}
        BY SMT
    <2> QED BY <2>1, FS_EmptySet
<1>5. \A n \in Nat : Cardinality(Of_(n + 1)) <= Cardinality(Of_(n)) + 1
    <2> TAKE n \in Nat
    <2>1. Of_(n + 1) = Of_(n) \/ Of_(n + 1) = Of_(n) \cup {n + 1}
        <3>1. \A i : i \in 1 .. n + 1 <=> i \in 1 .. n \/ i = n + 1
            BY SMT
        <3> QED BY <3>1, Zenon
    <2>2. n + 1 \notin Of_(n)
        BY SMT
    <2> HIDE DEF Of_
    <2>3. Cardinality(Of_(n) \cup {n + 1}) = Cardinality(Of_(n)) + 1
        BY <1>2, <2>2, FS_AddElement
    <2>4. Cardinality(Of_(n + 1)) = Cardinality(Of_(n))
          \/ Cardinality(Of_(n + 1)) = Cardinality(Of_(n)) + 1
        BY <2>1, <2>3, Zenon
    <2>5. Cardinality(Of_(n)) \in Nat
        BY <1>3, Zenon
    <2> QED BY <2>4, <2>5, SMT
<1> HIDE DEF Of_
<1> QED BY <1>1, <1>3, <1>4, <1>5

\* The client stops at the line that completes the limit, and reads all lines if
\* there is none.
LEMMA ReadUpToLimit ==
    ASSUME Loop!ToolLoopAssumption, NEW lines \in Seq({"row", "malformed", "blank"})
    PROVE  LET read == Loop!LinesRead(lines)
               rows == Loop!HowMany(lines, read, "row")
           IN  read \in 0 .. Len(lines) /\ rows \in 0 .. Limit
               /\ (read = Len(lines) \/ rows = Limit)
<1> DEFINE n == Len(lines)
           H(k) == Loop!HowMany(lines, k, "row")
           full == {k \in 0 .. n : H(k) = Limit}
           read == Loop!LinesRead(lines)
<1>1. n \in Nat /\ Limit \in Nat /\ Limit > 0
    BY SMT DEF Loop!ToolLoopAssumption
<1>2. H(0) = 0 /\ (\A k \in Nat : H(k) \in Nat) /\ \A k \in Nat : H(k + 1) <= H(k) + 1
    BY HowManyCounts, Zenon
<1>3. read = Loop!Min(full \cup {n})
    BY Zenon DEF Loop!LinesRead
<1> HIDE DEF n, H, read
<1>4. full \cup {n} \subseteq Nat /\ full \cup {n} # {}
    BY <1>1, SMT
<1>5. read \in full \cup {n} /\ \A k \in full \cup {n} : read <= k
    <2> HIDE DEF full
    <2> QED BY <1>3, <1>4, MinIsLeast, Zenon
<1>6. read \in 0 .. n
    BY <1>1, <1>5, SMT
<1>7. CASE read \in full
    BY <1>1, <1>6, <1>7, SMT DEF n, H, read
<1>8. CASE read \notin full
    <2>1. read = n
        BY <1>5, <1>8, Zenon
    <2>2. \A k \in 0 .. n : H(k) # Limit
        BY <1>1, <1>5, <1>8, <2>1, SMT
    <2> DEFINE over == {k \in 0 .. n : H(k) > Limit}
    <2>3. over = {}
        <3>1. SUFFICES ASSUME over # {} PROVE FALSE
            OBVIOUS
        <3>2. over \subseteq Nat
            BY SMT
        <3> HIDE DEF over
        <3>3. PICK k \in over : \A j \in over : k <= j
            BY <3>1, <3>2, LeastNumber
        <3> USE DEF over
        <3>4. k \in 0 .. n /\ H(k) > Limit
            BY <3>3
        <3>5. k # 0
            BY <1>1, <1>2, <3>4, SMT
        <3>6. k - 1 \in 0 .. n /\ (k - 1) + 1 = k /\ k - 1 < k
            BY <1>1, <3>4, <3>5, SMT
        <3>7. ~(H(k - 1) > Limit)
            BY <1>1, <3>3, <3>6, SMT
        <3>8. H(k) <= H(k - 1) + 1 /\ H(k - 1) \in Nat /\ H(k) \in Nat
            <4>1. k - 1 \in Nat
                BY <3>6, SMT
            <4>2. H((k - 1) + 1) <= H(k - 1) + 1
                BY <1>2, <4>1
            <4>3. k \in Nat
                BY <3>4, SMT
            <4> QED BY <1>2, <3>6, <4>1, <4>2, <4>3
        <3>9. H(k - 1) = Limit
            BY <1>1, <3>4, <3>7, <3>8, SMT
        <3> QED BY <2>2, <3>6, <3>9
    <2>4. ~(H(n) > Limit) /\ H(n) \in Nat
        <3>1. n \in 0 .. n
            BY <1>1, SMT
        <3> QED BY <1>1, <1>2, <2>3, <3>1, Zenon
    <2>5. H(n) \in 0 .. Limit
        BY <1>1, <2>4, SMT
    <2> QED BY <1>6, <2>1, <2>5 DEF n, H, read
<1> QED BY <1>7, <1>8

SearchTyped ==
    search \in [lines : Seq({"row", "malformed", "blank"}), rows : 0 .. Limit,
                malformed : Nat, truncated : BOOLEAN]

\* A response of the log server is told whole or marked as truncated.
LEMMA FoundIsWhole ==
    ASSUME Loop!ToolLoopAssumption, NEW lines \in Loop!Lines, search' = Loop!Found(lines)
    PROVE  SearchTyped' /\ Loop!CompleteUnlessTruncated'
<1> DEFINE read == Loop!LinesRead(lines)
           rows == Loop!HowMany(lines, read, "row")
           bad == Loop!HowMany(lines, read, "malformed")
           cut == rows >= Limit
<1>1. lines \in Seq({"row", "malformed", "blank"})
    BY SMT DEF Loop!Lines
<1>2. read \in 0 .. Len(lines) /\ rows \in 0 .. Limit /\ (read = Len(lines) \/ rows = Limit)
    BY <1>1, ReadUpToLimit
<1>3. bad \in Nat
    <2>1. read \in Nat
        BY <1>1, <1>2, SMT
    <2> QED BY <2>1, HowManyCounts, Zenon
<1>4. search' = [lines |-> lines, rows |-> rows, malformed |-> bad, truncated |-> cut]
    BY Zenon DEF Loop!Found
<1>5. cut \in BOOLEAN
    OBVIOUS
<1> HIDE DEF read, rows, bad, cut
<1>6. SearchTyped'
    BY <1>1, <1>2, <1>3, <1>4, <1>5, SMT DEF SearchTyped
<1>7. search'.lines = lines /\ search'.rows = rows /\ search'.malformed = bad
    BY <1>4, SMT
<1>8. search'.truncated = cut
    BY <1>4, SMT
<1>9. ASSUME ~search'.truncated PROVE read = Len(lines)
    <2>1. ~(rows >= Limit)
        BY <1>8, <1>9, Zenon DEF cut
    <2>2. rows # Limit
        BY <2>1, SMT DEF Loop!ToolLoopAssumption
    <2> QED BY <1>2, <2>2
<1>10. Loop!CompleteUnlessTruncated'
    BY <1>7, <1>9, Zenon DEF Loop!CompleteUnlessTruncated, rows, bad
<1> QED BY <1>6, <1>10

----------------------------------------------------------------------------
(* An honest loop.                                                         *)

SearchInv == SearchTyped /\ Loop!CompleteUnlessTruncated

\* Nothing was searched, nothing was asked.
LEMMA TalkInit == ASSUME Loop!ToolLoopAssumption PROVE Loop!Init => SearchInv /\ DialogInv
<1> SUFFICES ASSUME Loop!Init PROVE SearchInv /\ DialogInv
    OBVIOUS
<1>1. search = [lines |-> <<>>, rows |-> 0, malformed |-> 0, truncated |-> FALSE]
    BY Zenon DEF Loop!Init, Loop!NoSearch
<1>2. SearchTyped /\ search.rows = 0 /\ search.malformed = 0 /\ search.lines = <<>>
    <2>1. 0 \in 0 .. Limit /\ <<>> \in Seq({"row", "malformed", "blank"})
        BY SMT DEF Loop!ToolLoopAssumption
    <2> QED BY <1>1, <2>1, SMT DEF SearchTyped
<1>3. Loop!HowMany(<<>>, Len(<<>>), "row") = 0 /\ Loop!HowMany(<<>>, Len(<<>>), "malformed") = 0
    <2>1. Len(<<>>) = 0
        BY SMT
    <2> QED BY <2>1, HowManyCounts
<1>4. SearchInv
    BY <1>2, <1>3, Zenon DEF SearchInv, Loop!CompleteUnlessTruncated
<1>5. messages = <<>> /\ stage # "calling"
    BY SMT DEF Loop!Init
<1>6. ClosedUpTo(<<>>, 0)
    <2>1. \A i \in 1 .. 0 : FALSE
        BY SMT
    <2> QED BY <2>1, Zenon DEF ClosedUpTo
<1>7. messages \in Seq(Loop!Message) /\ Len(messages) = 0
    BY <1>5, SMT
<1>8. DialogInv
    BY <1>5, <1>6, <1>7, Zenon DEF DialogInv
<1> QED BY <1>4, <1>8

\* Only a search changes what is told of one.
LEMMA SearchStep ==
    ASSUME Loop!ToolLoopAssumption, SearchInv, [Loop!Next]_(Loop!vars)
    PROVE  SearchInv'
<1>1. UNCHANGED search \/ \E lines \in Loop!Lines : search' = Loop!Found(lines)
    BY Zenon DEF Loop!Next, Loop!vars, Loop!Discover, Loop!Fails, Loop!Answers, Loop!IterationLimit,
                 Loop!SelectTools, Loop!RunToolCall, Loop!Serve
<1>2. CASE UNCHANGED search
    BY <1>2, Zenon DEF SearchInv, SearchTyped, Loop!CompleteUnlessTruncated
<1>3. CASE \E lines \in Loop!Lines : search' = Loop!Found(lines)
    BY <1>3, FoundIsWhole, Zenon DEF SearchInv
<1> QED BY <1>1, <1>2, <1>3

\* The user's window does not touch a call's id.
LEMMA EnforcedKeepsIds ==
    ASSUME Loop!ToolLoopAssumption, iteration \in 0 .. MaxToolIterations,
           iteration < MaxToolIterations, agent \in {"logs", "monitoring"},
           NEW calls \in Loop!Selections
    PROVE  LET ids == [i \in DOMAIN calls |-> calls[i].id] IN
           /\ ids \in Seq(Loop!Ids) /\ Len(Loop!Enforced(calls)) = Len(ids)
           /\ \A k \in 1 .. Len(ids) : Loop!Enforced(calls)[k].id = ids[k]
<1> DEFINE At(i) == {c \in [place : {<<iteration + 1, i>>}, id : {<<iteration + 1, i>>, <<0, i>>},
                            tool : Loop!Tools(agent) \cup {"unknown"}, given : BOOLEAN,
                            window : {"own"}] : c.tool = "unknown" => c.given}
           ids == [i \in DOMAIN calls |-> calls[i].id]
           set(i) == [calls[i] EXCEPT !.window = "chosen"]
<1>1. PICK n \in 1 .. MaxCalls :
          calls \in [1 .. n -> UNION {At(i) : i \in 1 .. n}] /\ \A i \in 1 .. n : calls[i] \in At(i)
    BY Zenon DEF Loop!Selections
<1>2. n \in Nat /\ DOMAIN calls = 1 .. n
    BY <1>1, SMT DEF Loop!ToolLoopAssumption
<1>3. Loop!Enforced(calls) \in Seq(Loop!Call)
    BY SelectionsAreCalls
<1>4. DOMAIN Loop!Enforced(calls) = 1 .. n
      /\ \A i \in 1 .. n : Loop!Enforced(calls)[i] = calls[i] \/ Loop!Enforced(calls)[i] = set(i)
    BY <1>2, Zenon DEF Loop!Enforced
<1>5. Len(Loop!Enforced(calls)) = n
    BY <1>2, <1>3, <1>4, SMT
<1>6. \A i \in 1 .. n :
          calls[i] \in [place : {<<iteration + 1, i>>}, id : {<<iteration + 1, i>>, <<0, i>>},
                        tool : Loop!Tools(agent) \cup {"unknown"}, given : BOOLEAN,
                        window : {"own"}]
    BY <1>1, Zenon
<1> HIDE DEF At
<1>7. \A i \in 1 .. n : set(i).id = calls[i].id /\ calls[i].id \in {<<iteration + 1, i>>, <<0, i>>}
    BY <1>6, SMT
<1>8. \A i \in 1 .. n : calls[i].id \in Loop!Ids
    <2> TAKE i \in 1 .. n
    <2>1. <<iteration + 1, i>> \in Loop!Ids /\ <<0, i>> \in Loop!Ids
        BY <1>2, SMT DEF Loop!Ids, Loop!Places, Loop!ToolLoopAssumption
    <2> QED BY <1>7, <2>1, Zenon
<1>9. ids \in [1 .. n -> Loop!Ids] /\ \A i \in 1 .. n : ids[i] = calls[i].id
    BY <1>2, <1>8, Zenon
<1>10. ids \in Seq(Loop!Ids) /\ Len(ids) = n
    BY <1>2, <1>9, SMT
<1>11. \A i \in 1 .. n : Loop!Enforced(calls)[i].id = ids[i]
    BY <1>4, <1>7, <1>9, Zenon
<1> QED BY <1>5, <1>10, <1>11, Zenon

\* A step opens and closes calls in order.
LEMMA DialogStep ==
    ASSUME Loop!ToolLoopAssumption, CallsTyped, DialogInv, [Loop!Next]_(Loop!vars)
    PROVE  DialogInv'
<1>1. CASE Loop!SelectTools
    <2>1. PICK calls \in Loop!Selections :
              /\ messages' = Append(messages,
                    [role |-> "assistant", ids |-> [i \in DOMAIN calls |-> calls[i].id]])
              /\ llmCalls' = Loop!Enforced(calls)
        BY <1>1, Zenon DEF Loop!SelectTools
    <2>2. stage # "calling" /\ stage' = "calling" /\ iteration < MaxToolIterations
        BY <1>1, SMT DEF Loop!SelectTools
    <2> DEFINE ids == [i \in DOMAIN calls |-> calls[i].id]
    <2>3. /\ ids \in Seq(Loop!Ids) /\ Len(llmCalls') = Len(ids)
          /\ \A k \in 1 .. Len(ids) : (llmCalls')[k].id = ids[k]
        BY <2>1, <2>2, EnforcedKeepsIds, Zenon DEF CallsTyped
    <2> HIDE DEF ids
    <2>4. messages \in Seq(Loop!Message) /\ ClosedUpTo(messages, Len(messages))
        BY <2>2, Zenon DEF DialogInv
    <2>5. /\ messages' \in Seq(Loop!Message)
          /\ \E p \in 1 .. Len(messages') : OpenSince(messages', llmCalls', p)
        <3>1. messages' = Append(messages, [role |-> "assistant", ids |-> ids])
            BY <2>1, Zenon DEF ids
        <3> QED BY <2>3, <2>4, <3>1, QuestionOpens, Zenon
    <2> QED BY <2>2, <2>5, Zenon DEF DialogInv
<1>2. CASE Loop!RunToolCall
    <2>1. /\ stage = "calling" /\ messages' = Append(messages, Told(Head(llmCalls).id))
          /\ llmCalls' = Tail(llmCalls)
          /\ stage' = IF Len(llmCalls) = 1 THEN "ready" ELSE "calling"
        BY <1>2, Zenon DEF Loop!RunToolCall, Loop!Answered, Told
    <2>2. llmCalls \in Seq(Loop!Call) /\ llmCalls # <<>> /\ messages \in Seq(Loop!Message)
        BY <2>1, Zenon DEF CallsTyped, DialogInv
    <2>3. PICK p \in 1 .. Len(messages) : OpenSince(messages, llmCalls, p)
        BY <2>1, Zenon DEF DialogInv
    <2>4. Head(llmCalls) = llmCalls[1]
        BY <2>2, HeadAndTail, Zenon
    <2>5. /\ messages' \in Seq(Loop!Message)
          /\ Len(llmCalls) = 1 => ClosedUpTo(messages', Len(messages'))
          /\ Len(llmCalls) # 1 => OpenSince(messages', llmCalls', p) /\ p \in 1 .. Len(messages')
        BY <2>1, <2>2, <2>3, <2>4, AnswerCloses, Zenon
    <2>6. CASE Len(llmCalls) = 1
        <3>1. stage' # "calling"
            BY <2>1, <2>6, SMT
        <3> QED BY <2>5, <2>6, <3>1, Zenon DEF DialogInv
    <2>7. CASE Len(llmCalls) # 1
        <3>1. stage' = "calling"
            BY <2>1, <2>7, SMT
        <3> QED BY <2>5, <2>7, <3>1, Zenon DEF DialogInv
    <2> QED BY <2>6, <2>7
<1>3. CASE Loop!Discover \/ Loop!Fails \/ Loop!Answers \/ Loop!IterationLimit
    <2>1. UNCHANGED <<messages, llmCalls>> /\ stage # "calling" /\ stage' # "calling"
        BY <1>3, SMT DEF Loop!Discover, Loop!Fails, Loop!Answers, Loop!IterationLimit, Loop!Ends
    <2> QED BY <2>1, Zenon DEF DialogInv
<1>4. CASE UNCHANGED Loop!vars
    <2>1. UNCHANGED <<messages, llmCalls, stage>>
        BY <1>4, Zenon DEF Loop!vars
    <2> QED BY <2>1, Zenon DEF DialogInv
<1> QED BY <1>1, <1>2, <1>3, <1>4, Zenon DEF Loop!Next

\* What the model is asked with is closed.
LEMMA ClosedDialog == DialogInv => Loop!CallsAreClosed
<1> SUFFICES ASSUME DialogInv, stage # "calling" PROVE Loop!CallsAreClosed
    BY Zenon DEF Loop!CallsAreClosed
<1>1. messages \in Seq(Loop!Message) /\ ClosedUpTo(messages, Len(messages))
    BY Zenon DEF DialogInv
<1>2. DOMAIN messages = 1 .. Len(messages)
    BY <1>1, SMT
<1>3. \A i \in DOMAIN messages : messages[i] \in Loop!Message
    BY <1>1, SMT
<1>4. \A i \in DOMAIN messages : messages[i].role = "assistant" =>
          DOMAIN messages[i].ids = 1 .. Len(messages[i].ids)
    <2> TAKE i \in DOMAIN messages
    <2> HAVE messages[i].role = "assistant"
    <2>1. messages[i].ids \in Seq(Loop!Ids)
        BY <1>3, AskedIds, Zenon
    <2> QED BY <2>1, SMT
<1> QED BY <1>1, <1>2, <1>4, Zenon DEF Loop!CallsAreClosed, ClosedUpTo, Asks, After, Told

LEMMA TalkInductive == Spec => [](SearchInv /\ DialogInv)
<1>1. Loop!ToolLoopAssumption
    BY ServicesConstants DEF ServicesAssumption
<1>2. Init => Loop!Init
    BY Zenon DEF Init
<1>3. Init => SearchInv /\ DialogInv
    BY <1>1, <1>2, TalkInit
<1>4. [Next]_vars => [Loop!Next]_(Loop!vars)
    BY Zenon DEF Next, Only, vars, Loop!vars, loopVars
<1>5. LoopInv /\ (SearchInv /\ DialogInv) /\ [Next]_vars => (SearchInv /\ DialogInv)'
    BY <1>1, <1>4, SearchStep, DialogStep, Zenon DEF LoopInv
<1> QED BY <1>3, <1>5, LoopInductive, PTL DEF Spec

\* A chat with tools is honest: each call the model made is answered in its place
\* before the model is asked again, a started job is in the response, no window
\* but the chosen one is searched, and a search that is not marked as truncated
\* has every row of the log server's response.
THEOREM LoopsAreHonest == Spec => []LoopIsHonest
<1>1. LoopInv /\ SearchInv /\ DialogInv => LoopIsHonest
    BY ClosedDialog, Zenon DEF LoopIsHonest, Of, LoopInv, SearchInv
<1> QED BY <1>1, LoopInductive, TalkInductive, PTL

----------------------------------------------------------------------------
(* The log pipeline.                                                       *)

\* Before the search, nothing was said that could mention a name the masker has
\* yet to learn; after it, what the pipeline holds mentions no known name.
NothingSaid == sent = {} /\ written = {} /\ shown = {} /\ analysis = {}

MaskInv ==
    /\ ~request.mask => known = {}
    /\ pipelineStage \in {"discover", "search"} => NothingSaid
    /\ known \cap Pipeline!Mentions(logs) = {} /\ known \cap analysis = {}
    /\ Pipeline!KnownStaysInside

\* The artifacts are written in their order, all of them before the answer.
FilesInv ==
    /\ files \in {{}, {"raw"}, {"raw", "markdown"}, Pipeline!Artifacts}
    /\ pipelineStage \in {"discover", "search", "analyze"} => files = {}
    /\ pipelineStage \in {"answer", "completed"} => files = Pipeline!Artifacts

Traced(a, b, c) == trace["search"] = a /\ trace["analyze"] = b /\ trace["save"] = c

\* The trace belongs to the stage.
TraceInv ==
    /\ trace \in [Pipeline!Tools -> {"none", "started", "ok", "error", "skipped"}]
    /\ pipelineStage \in Pipeline!Stages
    /\ pipelineStage = "discover" => Traced("none", "none", "none")
    /\ pipelineStage = "search" => Traced("started", "none", "none")
    /\ pipelineStage = "analyze" => Traced("ok", "started", "none")
    /\ pipelineStage = "save" => Traced("ok", "ok", "started")
    /\ pipelineStage \in {"answer", "completed"} => Traced("ok", "ok", "ok")
    /\ pipelineStage = "failed" =>
          \/ Traced("none", "none", "none") \/ Traced("error", "skipped", "skipped")
          \/ Traced("ok", "error", "skipped") \/ Traced("ok", "ok", "error")

PipelineInv == MaskInv /\ FilesInv /\ TraceInv

LEMMA PipelineInit == Pipeline!Init => PipelineInv
<1> SUFFICES ASSUME Pipeline!Init PROVE PipelineInv
    OBVIOUS
<1>1. MaskInv
    BY SMT DEF Pipeline!Init, MaskInv, NothingSaid, Pipeline!KnownStaysInside, Pipeline!Mentions,
               Pipeline!NoLogs
<1>2. FilesInv
    BY SMT DEF Pipeline!Init, FilesInv
<1>3. TraceInv
    BY SMT DEF Pipeline!Init, TraceInv, Traced, Pipeline!Tools, Pipeline!Stages
<1> QED BY <1>1, <1>2, <1>3 DEF PipelineInv

\* What is masked mentions no known name.
LEMMA MaskedText == \A text, names : names \cap Pipeline!MaskText(text, names) = {}
BY Zenon DEF Pipeline!MaskText

LEMMA MaskedParts ==
    ASSUME MaskInv
    PROVE  /\ known \cap Pipeline!Service = {} /\ known \cap Pipeline!Prompt = {}
           /\ \A artifact \in Pipeline!Artifacts : known \cap Pipeline!Content(artifact) = {}
<1>1. known \cap Pipeline!Service = {}
    BY MaskedText, Zenon DEF Pipeline!Service
<1>2. known \cap Pipeline!MaskText(request.question, known) = {}
      /\ known \cap Pipeline!MaskText(request.filter, known) = {}
    BY MaskedText, Zenon
<1>3. known \cap Pipeline!Mentions(logs) = {} /\ known \cap analysis = {}
    BY Zenon DEF MaskInv
<1>4. known \cap Pipeline!Prompt = {}
    BY <1>1, <1>2, <1>3, Zenon DEF Pipeline!Prompt
<1>5. \A artifact \in Pipeline!Artifacts : known \cap Pipeline!Content(artifact) = {}
    <2>1. known \cap (Pipeline!Service \cup analysis) = {}
          /\ known \cap (Pipeline!Service \cup Pipeline!MaskText(request.filter, known)) = {}
        BY <1>1, <1>2, <1>3, Zenon
    <2> QED BY <1>3, <2>1, SMT DEF Pipeline!Artifacts, Pipeline!Content
<1> QED BY <1>1, <1>4, <1>5

\* The search teaches the masker before its rows go on.
LEMMA SearchMasks == ASSUME MaskInv, Pipeline!Search PROVE MaskInv'
<1>1. PICK found \in Pipeline!Searches :
          /\ known' = IF request.mask THEN known \cup Pipeline!Learnable(found.fields) ELSE known
          /\ logs' = Pipeline!MaskLogs(found, known')
    BY Zenon DEF Pipeline!Search
<1>2. /\ pipelineStage = "search" /\ pipelineStage' = "analyze" /\ NothingSaid
      /\ UNCHANGED <<request, analysis, sent, written, shown>>
    BY SMT DEF Pipeline!Search, MaskInv
<1>3. NothingSaid'
    BY <1>2, Zenon DEF NothingSaid
<1>4. ~request'.mask => known' = {}
    BY <1>1, <1>2, Zenon DEF MaskInv
<1>5. known' \cap Pipeline!Mentions(logs') = {}
    <2>1. CASE request.mask
        <3>1. logs' = [found EXCEPT !.fields = {}, !.messages = Pipeline!MaskText(@, known')]
            BY <1>1, <2>1, Zenon DEF Pipeline!MaskLogs
        <3>2. PICK B : found \in [fields : SUBSET Names, messages : SUBSET Names, any : B]
            <4>1. CASE found = Pipeline!NoLogs
                <5>1. found = [fields |-> {}, messages |-> {}, any |-> FALSE]
                    BY <4>1, Zenon DEF Pipeline!NoLogs
                <5>2. {} \in SUBSET Names /\ FALSE \in BOOLEAN
                    BY Zenon
                <5>3. found \in [fields : SUBSET Names, messages : SUBSET Names, any : BOOLEAN]
                    BY ONLY <5>1, <5>2, Zenon
                <5> QED BY <5>3
            <4> QED BY <1>1, <4>1, Zenon DEF Pipeline!Searches
        <3>3. logs'.fields = {} /\ logs'.messages = Pipeline!MaskText(found.messages, known')
            BY <3>1, <3>2, SMT
        <3>4. known' \cap Pipeline!MaskText(found.messages, known') = {}
            BY MaskedText, Zenon
        <3> QED BY <3>3, <3>4, Zenon DEF Pipeline!Mentions
    <2>2. CASE ~request.mask
        BY <1>2, <1>4, <2>2, Zenon
    <2> QED BY <2>1, <2>2
<1> QED BY <1>2, <1>3, <1>4, <1>5, SMT DEF MaskInv, NothingSaid, Pipeline!KnownStaysInside

LEMMA MaskStep == ASSUME MaskInv, [Pipeline!Next]_(Pipeline!vars) PROVE MaskInv'
<1>0. /\ known \cap sent = {} /\ known \cap written = {} /\ known \cap shown = {}
      /\ known \cap analysis = {} /\ known \cap Pipeline!Mentions(logs) = {}
      /\ ~request.mask => known = {}
      /\ pipelineStage \in {"discover", "search"} => NothingSaid
    BY Zenon DEF MaskInv, Pipeline!KnownStaysInside
<1>1. CASE Pipeline!Search
    BY <1>1, SearchMasks
<1>2. SUFFICES ASSUME ~Pipeline!Search PROVE MaskInv'
    BY <1>1
<1>3. UNCHANGED <<request, known, logs>>
    BY <1>2, Zenon DEF Pipeline!Next, Pipeline!vars, Pipeline!DiscoverTools, Pipeline!NoServer,
       Pipeline!Analyze, Pipeline!ToolFails, Pipeline!WriteArtifact, Pipeline!Answer, Pipeline!Dies
<1>4. \/ UNCHANGED sent
      \/ sent' = sent \cup Pipeline!Prompt
      \/ sent' = sent \cup (Pipeline!Service \cup Pipeline!MaskText(request.question, known) \cup analysis)
    <2>1. ASSUME NEW tool \in Pipeline!Tools, Pipeline!ToolFails(tool)
          PROVE  UNCHANGED sent \/ sent' = sent \cup Pipeline!Prompt
        <3>1. sent' \in {sent, IF tool = "analyze" THEN sent \cup Pipeline!Prompt ELSE sent}
            BY <2>1, Zenon DEF Pipeline!ToolFails
        <3> QED BY <3>1, Zenon
    <2> QED BY <1>2, <2>1, Zenon DEF Pipeline!Next, Pipeline!vars, Pipeline!DiscoverTools,
           Pipeline!NoServer, Pipeline!Analyze, Pipeline!WriteArtifact, Pipeline!Answer, Pipeline!Dies
<1>5. UNCHANGED analysis \/ analysis' = Pipeline!Prompt
    BY <1>2, Zenon DEF Pipeline!Next, Pipeline!vars, Pipeline!DiscoverTools, Pipeline!NoServer,
       Pipeline!Analyze, Pipeline!ToolFails, Pipeline!WriteArtifact, Pipeline!Answer, Pipeline!Dies
<1>6. UNCHANGED shown \/ \E names : shown' = Pipeline!MaskText(names, known)
    BY <1>2, Zenon DEF Pipeline!Next, Pipeline!vars, Pipeline!DiscoverTools, Pipeline!NoServer, Pipeline!Respond,
       Pipeline!Analyze, Pipeline!ToolFails, Pipeline!WriteArtifact, Pipeline!Answer, Pipeline!Dies
<1>7. UNCHANGED written \/ \E artifact \in Pipeline!Artifacts : written' = written \cup Pipeline!Content(artifact)
    <2>1. Pipeline!NextArtifact \in Pipeline!Artifacts
        BY SMT DEF Pipeline!NextArtifact, Pipeline!Artifacts
    <2> QED BY <1>2, <2>1, Zenon DEF Pipeline!Next, Pipeline!vars, Pipeline!DiscoverTools, Pipeline!NoServer,
       Pipeline!Analyze, Pipeline!ToolFails, Pipeline!WriteArtifact, Pipeline!Answer, Pipeline!Dies
<1>8. known \cap (sent' \cup written' \cup shown') = {} /\ known \cap analysis' = {}
    <2>1. known \cap (Pipeline!Service \cup Pipeline!MaskText(request.question, known) \cup analysis) = {}
        BY <1>0, MaskedParts, MaskedText, Zenon
    <2>2. known \cap sent' = {}
        BY <1>0, <1>4, <2>1, MaskedParts, Zenon
    <2>3. known \cap analysis' = {}
        BY <1>0, <1>5, MaskedParts, Zenon
    <2>4. known \cap shown' = {}
        BY <1>0, <1>6, MaskedText, Zenon
    <2>5. known \cap written' = {}
        BY <1>0, <1>7, MaskedParts, Zenon
    <2> QED BY <2>2, <2>3, <2>4, <2>5, Zenon
<1>9. pipelineStage' \in {"discover", "search"} => NothingSaid'
    <2>1. pipelineStage' \in {"discover", "search"} =>
              /\ pipelineStage \in {"discover", "search"}
              /\ UNCHANGED <<sent, written, shown, analysis>>
        BY <1>2, SMT DEF Pipeline!Next, Pipeline!vars, Pipeline!DiscoverTools, Pipeline!NoServer, Pipeline!Respond,
           Pipeline!Analyze, Pipeline!ToolFails, Pipeline!WriteArtifact, Pipeline!Answer, Pipeline!Dies
    <2> QED BY <1>0, <2>1, Zenon DEF NothingSaid
<1> QED BY <1>0, <1>3, <1>8, <1>9, Zenon DEF MaskInv, Pipeline!KnownStaysInside

LEMMA FilesStep == ASSUME FilesInv, [Pipeline!Next]_(Pipeline!vars) PROVE FilesInv'
<1>1. CASE Pipeline!WriteArtifact
    <2>1. pipelineStage = "save" /\ files' = files \cup {Pipeline!NextArtifact}
        BY <1>1, Zenon DEF Pipeline!WriteArtifact
    <2>2. files' = Pipeline!Artifacts => pipelineStage' = "answer"
        BY <1>1, Zenon DEF Pipeline!WriteArtifact
    <2>3. files' # Pipeline!Artifacts => pipelineStage' = "save"
        BY <1>1, <2>1, Zenon DEF Pipeline!WriteArtifact
    <2>4. files' \in {{}, {"raw"}, {"raw", "markdown"}, Pipeline!Artifacts}
        <3>1. CASE files = {}
            BY <2>1, <3>1, SMT DEF Pipeline!NextArtifact
        <3>2. CASE files = {"raw"}
            BY <2>1, <3>2, SMT DEF Pipeline!NextArtifact
        <3>3. CASE files = {"raw", "markdown"}
            BY <2>1, <3>3, SMT DEF Pipeline!NextArtifact, Pipeline!Artifacts
        <3>4. CASE files = Pipeline!Artifacts
            BY <2>1, <3>4, SMT DEF Pipeline!NextArtifact, Pipeline!Artifacts
        <3> QED BY <3>1, <3>2, <3>3, <3>4, Zenon DEF FilesInv
    <2>5. CASE files' = Pipeline!Artifacts
        BY <2>2, <2>4, <2>5, SMT DEF FilesInv
    <2>6. CASE files' # Pipeline!Artifacts
        BY <2>3, <2>4, <2>6, SMT DEF FilesInv
    <2> QED BY <2>5, <2>6
<1>2. CASE ~Pipeline!WriteArtifact
    <2>1. UNCHANGED files
        BY <1>2, Zenon DEF Pipeline!Next, Pipeline!vars, Pipeline!DiscoverTools, Pipeline!NoServer, Pipeline!Search,
           Pipeline!Analyze, Pipeline!ToolFails, Pipeline!Answer, Pipeline!Dies
    <2>2. pipelineStage' \in {"discover", "search", "analyze"} =>
              pipelineStage \in {"discover", "search", "analyze"}
        BY <1>2, SMT DEF Pipeline!Next, Pipeline!vars, Pipeline!DiscoverTools, Pipeline!NoServer, Pipeline!Search,
           Pipeline!Analyze, Pipeline!ToolFails, Pipeline!Answer, Pipeline!Dies, Pipeline!Respond
    <2>3. pipelineStage' \in {"answer", "completed"} => pipelineStage \in {"answer", "completed"}
        BY <1>2, SMT DEF Pipeline!Next, Pipeline!vars, Pipeline!DiscoverTools, Pipeline!NoServer, Pipeline!Search,
           Pipeline!Analyze, Pipeline!ToolFails, Pipeline!Answer, Pipeline!Dies, Pipeline!Respond
    <2> QED BY <2>1, <2>2, <2>3, Zenon DEF FilesInv
<1> QED BY <1>1, <1>2

LEMMA TraceStep == ASSUME TraceInv, [Pipeline!Next]_(Pipeline!vars) PROVE TraceInv'
<1> USE DEF TraceInv, Traced, Pipeline!Stages, Pipeline!Ends
<1>1. CASE Pipeline!DiscoverTools
    BY <1>1, SMT DEF Pipeline!DiscoverTools, Pipeline!Tools
<1>2. CASE Pipeline!NoServer \/ Pipeline!Dies
    BY <1>2, SMT DEF Pipeline!NoServer, Pipeline!Dies, Pipeline!Respond
<1>3. CASE Pipeline!Search
    BY <1>3, SMT DEF Pipeline!Search, Pipeline!Tools
<1>4. CASE Pipeline!Analyze
    BY <1>4, SMT DEF Pipeline!Analyze, Pipeline!Tools
<1>5. CASE Pipeline!WriteArtifact
    <2>1. pipelineStage = "save"
        BY <1>5, Zenon DEF Pipeline!WriteArtifact
    <2>2. \/ pipelineStage' = "answer" /\ trace' = [trace EXCEPT !["save"] = "ok"]
          \/ UNCHANGED <<pipelineStage, trace>>
        BY <1>5, Zenon DEF Pipeline!WriteArtifact
    <2> QED BY <2>1, <2>2, SMT DEF Pipeline!Tools
<1>6. CASE Pipeline!Answer
    <2>1. pipelineStage = "answer" /\ pipelineStage' = "completed" /\ UNCHANGED trace
        BY <1>6, Zenon DEF Pipeline!Answer, Pipeline!Respond
    <2> QED BY <2>1, SMT
<1>7. ASSUME NEW tool \in Pipeline!Tools, Pipeline!ToolFails(tool) PROVE TraceInv'
    <2>1. pipelineStage = tool /\ pipelineStage' = "failed" /\ trace' = Pipeline!Failed(tool)
        BY <1>7, Zenon DEF Pipeline!ToolFails, Pipeline!Respond
    <2>2. CASE tool = "search"
        BY <2>1, <2>2, SMT DEF Pipeline!Failed, Pipeline!Tools
    <2>3. CASE tool = "analyze"
        BY <2>1, <2>3, SMT DEF Pipeline!Failed, Pipeline!Tools
    <2>4. CASE tool = "save"
        BY <2>1, <2>4, SMT DEF Pipeline!Failed, Pipeline!Tools
    <2> QED BY <2>2, <2>3, <2>4, Zenon DEF Pipeline!Tools
<1>8. CASE UNCHANGED Pipeline!vars
    BY <1>8, SMT DEF Pipeline!vars
<1> QED BY <1>1, <1>2, <1>3, <1>4, <1>5, <1>6, <1>7, <1>8, Zenon DEF Pipeline!Next

LEMMA PipelineInductive == Spec => []PipelineInv
<1>1. Init => PipelineInv
    <2>1. Init => Pipeline!Init
        BY Zenon DEF Init
    <2> QED BY <2>1, PipelineInit
<1>2. [Next]_vars => [Pipeline!Next]_(Pipeline!vars)
    BY Zenon DEF Next, Only, vars, Pipeline!vars, pipelineVars
<1>3. PipelineInv /\ [Next]_vars => PipelineInv'
    BY <1>2, MaskStep, FilesStep, TraceStep DEF PipelineInv
<1> QED BY <1>1, <1>3, PTL DEF Spec

LEMMA EndsAreTold == TraceInv => Pipeline!OutcomesAreTold
BY SMT DEF TraceInv, Traced, Pipeline!OutcomesAreTold, Pipeline!Tools

\* With masking on, no name the masker ever learned, even from the last row of the
\* logs, reaches the model, a file or the response; metadata on the disk means all
\* three artifacts; and the trace of an ended run says what became of each tool.
THEOREM PipelinesHold == Spec => []PipelineHolds
<1>1. MaskInv => Pipeline!KnownStaysInside
    BY Zenon DEF MaskInv
<1>2. FilesInv => Pipeline!MetadataMeansWhole
    BY SMT DEF FilesInv, Pipeline!MetadataMeansWhole, Pipeline!Artifacts
<1>3. PipelineInv => PipelineHolds
    BY <1>1, <1>2, EndsAreTold, Zenon DEF PipelineInv, PipelineHolds, Of
<1> QED BY <1>3, PipelineInductive, PTL

----------------------------------------------------------------------------
(* How failures travel.  The table of routes is taken row by row: at each    *)
(* call the classes of exceptions that may arrive behind each layer are      *)
(* known, and so is whether the handler knows them.                         *)

Sources == {"deepseek", "openrouter", "agent llm", "generation", "provider", "search",
            "bare search", "index", "questions", "scenarios", "session", "task", "lifecycle",
            "scenario name", "argument", "artifact", "lookup", "storage"}

\* The classes that come without a status, and those of them nobody handles.
Unheard == {"JSONDecodeError", "HTTPStatusError", "Error"}
Statusless == {"EmbeddingError", "VectorIndexError"} \cup Unheard

\* The class a layer passes on.
ClassAfter(layer, class) ==
    CASE layer = "generation" /\ class = "DeepSeekError" -> "GenerationError"
      [] layer = "retrieve" /\ class \in {"EmbeddingError", "VectorIndexError"} ->
            "RagRetrievalError"
      [] layer = "chat" /\ class \in {"GenerationError", "RagRetrievalError"} ->
            "ChatServiceError"
      [] OTHER -> class

\* Exception e is what became of cause c on its way up.
Kin(c, e) ==
    /\ c \in Errors!Exception /\ e \in Errors!Exception
    /\ e.class \in Statusless <=> e.status = 0
    /\ \/ e.status = c.status
       \/ c.status = 0 /\ e.status = 503
    /\ e.class \in Unheard => c.class \in Unheard

LEMMA ProvidersRaise ==
    /\ \A c \in Errors!DeepSeekErrors : c.class = "DeepSeekError" /\ c.status \in 400 .. 504
    /\ \A c \in Errors!OpenRouterErrors : c.class = "OpenRouterError" /\ c.status \in 400 .. 504
    /\ \A c \in Errors!DeepSeekErrors \cup Errors!OpenRouterErrors :
          c = [class |-> c.class, status |-> c.status]
    BY DEF Errors!DeepSeekErrors, Errors!OpenRouterErrors, Errors!Exc

\* What each source raises.
LEMMA RaisedAre ==
    /\ \A c \in Errors!Raises("deepseek") : c.class \in {"DeepSeekError"}
    /\ \A c \in Errors!Raises("openrouter") : c.class \in {"OpenRouterError"}
    /\ \A c \in Errors!Raises("agent llm") :
          c.class \in {"DeepSeekError", "OpenRouterError"}
    /\ \A c \in Errors!Raises("generation") :
          c.class \in {"DeepSeekError", "GenerationError", "JSONDecodeError"}
    /\ \A c \in Errors!Raises("provider") : c.class \in {"GenerationError"}
    /\ \A c \in Errors!Raises("search") :
          c.class \in {"EmbeddingError", "VectorIndexError", "HTTPStatusError",
                      "RagRetrievalError"}
    /\ \A c \in Errors!Raises("bare search") :
          c.class \in {"EmbeddingError", "VectorIndexError", "HTTPStatusError"}
    /\ \A c \in Errors!Raises("index") : c.class \in {"VectorIndexError"}
    /\ \A c \in Errors!Raises("questions") : c.class \in {"EvaluationError"}
    /\ \A c \in Errors!Raises("scenarios") : c.class \in {"ScenarioError"}
    /\ \A c \in Errors!Raises("session") : c.class \in {"SessionNotFoundError"}
    /\ \A c \in Errors!Raises("task") : c.class \in {"TaskStateError"}
    /\ \A c \in Errors!Raises("lifecycle") : c.class \in {"Day15Error"}
    /\ \A c \in Errors!Raises("scenario name") : c.class \in {"Day15Error"}
    /\ \A c \in Errors!Raises("argument") : c.class \in {"ValueError"}
    /\ \A c \in Errors!Raises("artifact") : c.class \in {"ArtifactError"}
    /\ \A c \in Errors!Raises("lookup") : c.class \in {"HTTPException"}
    /\ \A c \in Errors!Raises("storage") : c.class \in {"Error"}
<1>1. /\ \A c \in Errors!Raises("deepseek") : c.class \in {"DeepSeekError"}
      /\ \A c \in Errors!Raises("openrouter") : c.class \in {"OpenRouterError"}
      /\ \A c \in Errors!Raises("agent llm") :
            c.class \in {"DeepSeekError", "OpenRouterError"}
      /\ \A c \in Errors!Raises("generation") :
            c.class \in {"DeepSeekError", "GenerationError", "JSONDecodeError"}
    BY ProvidersRaise DEF Errors!Raises, Errors!OllamaErrors, Errors!Exc
<1>2. /\ \A c \in Errors!Raises("provider") : c.class \in {"GenerationError"}
      /\ \A c \in Errors!Raises("search") :
            c.class \in {"EmbeddingError", "VectorIndexError", "HTTPStatusError",
                      "RagRetrievalError"}
      /\ \A c \in Errors!Raises("bare search") :
            c.class \in {"EmbeddingError", "VectorIndexError", "HTTPStatusError"}
      /\ \A c \in Errors!Raises("index") : c.class \in {"VectorIndexError"}
      /\ \A c \in Errors!Raises("questions") : c.class \in {"EvaluationError"}
      /\ \A c \in Errors!Raises("scenarios") : c.class \in {"ScenarioError"}
    BY DEF Errors!Raises, Errors!SearchErrors, Errors!Exc
<1>3. /\ \A c \in Errors!Raises("session") : c.class \in {"SessionNotFoundError"}
      /\ \A c \in Errors!Raises("task") : c.class \in {"TaskStateError"}
      /\ \A c \in Errors!Raises("lifecycle") : c.class \in {"Day15Error"}
      /\ \A c \in Errors!Raises("scenario name") : c.class \in {"Day15Error"}
      /\ \A c \in Errors!Raises("argument") : c.class \in {"ValueError"}
      /\ \A c \in Errors!Raises("artifact") : c.class \in {"ArtifactError"}
      /\ \A c \in Errors!Raises("lookup") : c.class \in {"HTTPException"}
      /\ \A c \in Errors!Raises("storage") : c.class \in {"Error"}
    BY DEF Errors!Raises, Errors!Exc
<1> QED BY <1>1, <1>2, <1>3, Zenon

\* The exceptions that have a status exactly if their class gives one.
Fit == {e \in Errors!Exception : e.class \in Statusless <=> e.status = 0}

LEMMA RaisedFits == ASSUME NEW s \in Sources PROVE Errors!Raises(s) \subseteq Fit
<1>1. ASSUME NEW class \in Errors!Classes \cup {"HTTPException"},
             NEW code \in {0} \cup 400 .. 504, class \in Statusless <=> code = 0
      PROVE  Errors!Exc(class, code) \in Fit
    BY <1>1 DEF Fit, Errors!Exception, Errors!NoStatus, Errors!Exc
<1>2. \A class \in (Errors!Classes \cup {"HTTPException"}) \ Statusless :
         \A code \in 400 .. 504 : Errors!Exc(class, code) \in Fit
    BY <1>1
<1>3. {"DeepSeekError", "OpenRouterError", "GenerationError", "RagRetrievalError",
       "EvaluationError", "ScenarioError", "SessionNotFoundError", "TaskStateError",
       "Day15Error", "ValueError", "ArtifactError", "HTTPException"}
         \subseteq (Errors!Classes \cup {"HTTPException"}) \ Statusless
    BY DEF Errors!Classes, Statusless, Unheard
<1>4. /\ Errors!Exc("EmbeddingError", 0) \in Fit /\ Errors!Exc("VectorIndexError", 0) \in Fit
      /\ Errors!Exc("JSONDecodeError", 0) \in Fit /\ Errors!Exc("HTTPStatusError", 0) \in Fit
      /\ Errors!Exc("Error", 0) \in Fit
    BY <1>1 DEF Errors!Classes, Statusless, Unheard
<1>5. \A code \in 400 .. 504 : /\ Errors!Exc("DeepSeekError", code) \in Fit
                               /\ Errors!Exc("OpenRouterError", code) \in Fit
    BY <1>2, <1>3
<1>6. Errors!DeepSeekErrors \subseteq Fit /\ Errors!OpenRouterErrors \subseteq Fit
    BY <1>5 DEF Errors!DeepSeekErrors, Errors!OpenRouterErrors
<1>7. /\ Errors!Exc("GenerationError", 500) \in Fit /\ Errors!Exc("GenerationError", 502) \in Fit
      /\ Errors!Exc("GenerationError", 504) \in Fit
      /\ Errors!Exc("RagRetrievalError", 503) \in Fit
      /\ Errors!Exc("EvaluationError", 400) \in Fit /\ Errors!Exc("EvaluationError", 404) \in Fit
      /\ Errors!Exc("ScenarioError", 400) \in Fit /\ Errors!Exc("ScenarioError", 404) \in Fit
      /\ Errors!Exc("SessionNotFoundError", 404) \in Fit
      /\ Errors!Exc("TaskStateError", 400) \in Fit
      /\ Errors!Exc("Day15Error", 400) \in Fit /\ Errors!Exc("Day15Error", 404) \in Fit
      /\ Errors!Exc("ValueError", 400) \in Fit /\ Errors!Exc("ArtifactError", 404) \in Fit
      /\ Errors!Exc("HTTPException", 404) \in Fit
    BY <1>2, <1>3
<1>8. Errors!OllamaErrors \subseteq Fit /\ Errors!SearchErrors \subseteq Fit
    BY <1>4, <1>7 DEF Errors!OllamaErrors, Errors!SearchErrors, Errors!NoStatus
<1>9. /\ Errors!Raises("deepseek") \subseteq Fit /\ Errors!Raises("openrouter") \subseteq Fit
      /\ Errors!Raises("agent llm") \subseteq Fit /\ Errors!Raises("generation") \subseteq Fit
    BY <1>6, <1>8 DEF Errors!Raises
<1>10. /\ Errors!Raises("provider") \subseteq Fit /\ Errors!Raises("search") \subseteq Fit
       /\ Errors!Raises("bare search") \subseteq Fit /\ Errors!Raises("index") \subseteq Fit
    BY <1>4, <1>7, <1>8 DEF Errors!Raises, Errors!NoStatus
<1>11. /\ Errors!Raises("questions") \subseteq Fit /\ Errors!Raises("scenarios") \subseteq Fit
       /\ Errors!Raises("session") \subseteq Fit /\ Errors!Raises("task") \subseteq Fit
       /\ Errors!Raises("lifecycle") \subseteq Fit
       /\ Errors!Raises("scenario name") \subseteq Fit
    BY <1>7 DEF Errors!Raises
<1>12. /\ Errors!Raises("argument") \subseteq Fit /\ Errors!Raises("artifact") \subseteq Fit
       /\ Errors!Raises("lookup") \subseteq Fit /\ Errors!Raises("storage") \subseteq Fit
    BY <1>4, <1>7 DEF Errors!Raises, Errors!NoStatus
<1> QED BY <1>9, <1>10, <1>11, <1>12, Zenon DEF Sources

\* A cause is its own kin.
LEMMA CauseIsKin ==
    ASSUME NEW s \in Sources, NEW c \in Errors!Raises(s)
    PROVE  Kin(c, c)
<1>1. c \in Fit
    BY RaisedFits
<1> QED BY <1>1 DEF Fit, Kin

\* A layer that lets an exception through passes on its kin.
LEMMA LayerKeepsKin ==
    ASSUME NEW c, NEW e, Kin(c, e), NEW layer
    PROVE  /\ Kin(c, Errors!Translate(layer, e))
           /\ Errors!Translate(layer, e).class = ClassAfter(layer, e.class)
<1> DEFINE f == Errors!Translate(layer, e)
<1>1. CASE layer = "generation" /\ e.class = "DeepSeekError"
    <2>1. f = [class |-> "GenerationError", status |-> e.status]
        BY <1>1 DEF Errors!Translate, Errors!Exc
    <2> QED BY <1>1, <2>1
            DEF Kin, Errors!Exception, Errors!NoStatus, Statusless, Unheard, Errors!Classes,
                ClassAfter
<1>2. CASE layer = "retrieve" /\ e.class \in {"EmbeddingError", "VectorIndexError"}
    <2>1. f = [class |-> "RagRetrievalError", status |-> 503]
        BY <1>2 DEF Errors!Translate, Errors!Exc
    <2> QED BY <1>2, <2>1
            DEF Kin, Errors!Exception, Errors!NoStatus, Statusless, Unheard, Errors!Classes,
                ClassAfter
<1>3. CASE layer = "chat" /\ e.class \in {"GenerationError", "RagRetrievalError"}
    <2>1. f = [class |-> "ChatServiceError", status |-> e.status]
        BY <1>3 DEF Errors!Translate, Errors!Exc
    <2> QED BY <1>3, <2>1
            DEF Kin, Errors!Exception, Errors!NoStatus, Statusless, Unheard, Errors!Classes,
                ClassAfter
<1>4. CASE /\ ~(layer = "generation" /\ e.class = "DeepSeekError")
           /\ ~(layer = "retrieve" /\ e.class \in {"EmbeddingError", "VectorIndexError"})
           /\ ~(layer = "chat" /\ e.class \in {"GenerationError", "RagRetrievalError"})
    <2>1. f = e
        BY <1>4, Zenon DEF Errors!Translate
    <2>2. ClassAfter(layer, e.class) = e.class
        BY <1>4, Zenon DEF ClassAfter
    <2> QED BY <2>1, <2>2
<1> QED BY <1>1, <1>2, <1>3, <1>4

Calling == [source : Sources, around : Seq(Errors!Layers), optional : BOOLEAN]

\* What layer k of those around a call may get, for k = 0 what the source raises.
Flow(source, around, reach) ==
    /\ \A c \in Errors!Raises(source) : c.class \in reach[0]
    /\ \A k \in 1 .. Len(around) : \A class \in reach[k - 1] :
          \/ class \in Errors!Absorbs(around[k])
          \/ ClassAfter(around[k], class) \in reach[k]

\* Nothing but the classes of arrived comes through, and nothing if a layer absorbs.
Arrives(source, around, arrived) ==
    /\ source \in Sources /\ around \in Seq(Errors!Layers)
    /\ \E reach : Flow(source, around, reach) /\ reach[Len(around)] = arrived
    /\ (\E k \in 1 .. Len(around) : Errors!Absorbs(around[k]) # {}) => arrived = {}

\* The places where a known exception may escape.
Escaping(handler, call) ==
    \/ handler \in {"day22_status", "day23_status", "day24_status", "day25_status",
                    "xpander_status", "day23_evaluation_scores"}
    \/ call.source = "index" /\ \A k \in DOMAIN call.around : call.around[k] # "retrieve"
    \/ handler = "day25_evaluation_run" /\ call.source = "session"

\* A call whose failures the handler tells, if they come through at all.
Explains(handler, catches, call) ==
    /\ call \in Calling
    /\ \E arrived : /\ Arrives(call.source, call.around, arrived)
                    /\ arrived \subseteq Errors!Classes \cup catches
                    /\ Escaping(handler, call) \/ arrived \ Unheard \subseteq catches

ToldCalls(handler, catches) == {call \in Calling : Explains(handler, catches, call)}

GoodRow(row) ==
    /\ row.calls \in Seq(ToldCalls(row.handler, row.catches))
    /\ row.catches \cap Statusless = {}

LEMMA NoLayers ==
    ASSUME NEW source \in Sources, NEW arrived,
           \A c \in Errors!Raises(source) : c.class \in arrived
    PROVE  Arrives(source, <<>>, arrived)
<1> DEFINE reach == [k \in {0} |-> arrived]
<1>1. Flow(source, <<>>, reach) /\ reach[Len(<<>>)] = arrived /\ <<>> \in Seq(Errors!Layers)
    BY DEF Flow
<1> QED BY <1>1 DEF Arrives

LEMMA LayerAdded ==
    ASSUME NEW around \in Seq(Errors!Layers), NEW layer \in Errors!Layers
    PROVE  /\ Append(around, layer) \in Seq(Errors!Layers)
           /\ Len(around) \in Nat /\ Len(Append(around, layer)) = Len(around) + 1
           /\ Append(around, layer)[Len(around) + 1] = layer
           /\ \A k \in 1 .. Len(around) : Append(around, layer)[k] = around[k]
    OBVIOUS

\* One layer more.
LEMMA OneLayerMore ==
    ASSUME NEW source, NEW around, NEW arrived, NEW layer, NEW next,
           Arrives(source, around, arrived), layer \in Errors!Layers,
           \A class \in arrived :
              class \in Errors!Absorbs(layer) \/ ClassAfter(layer, class) \in next,
           arrived = {} \/ Errors!Absorbs(layer) # {} => next = {}
    PROVE  Arrives(source, Append(around, layer), next)
<1> DEFINE n == Len(around)
           more == Append(around, layer)
<1>1. PICK reach : Flow(source, around, reach) /\ reach[n] = arrived
    BY Zenon DEF Arrives
<1>2. /\ n \in Nat /\ Len(more) = n + 1 /\ more[n + 1] = layer
      /\ \A k \in 1 .. n : more[k] = around[k]
      /\ more \in Seq(Errors!Layers)
    BY LayerAdded, Zenon DEF Arrives
<1> DEFINE further == [k \in 0 .. n + 1 |-> IF k = n + 1 THEN next ELSE reach[k]]
<1> HIDE DEF n, more
<1>3. /\ further[n + 1] = next /\ further[n] = arrived
      /\ \A k \in 0 .. n : further[k] = reach[k]
    BY <1>1, <1>2
<1> HIDE DEF further
<1>4. Flow(source, more, further)
    <2>1. \A c \in Errors!Raises(source) : c.class \in further[0]
        <3>1. further[0] = reach[0]
            BY <1>2, <1>3
        <3> QED BY <1>1, <3>1, Zenon DEF Flow
    <2>2. ASSUME NEW k \in 1 .. n + 1, NEW class \in further[k - 1]
          PROVE  \/ class \in Errors!Absorbs(more[k])
                 \/ ClassAfter(more[k], class) \in further[k]
        <3>1. CASE k = n + 1
            <4>1. further[k - 1] = arrived /\ more[k] = layer /\ further[k] = next
                <5>1. k - 1 = n
                    BY <1>2, <3>1
                <5> QED BY <1>2, <1>3, <3>1, <5>1, Zenon
            <4> QED BY <2>2, <4>1, Zenon
        <3>2. CASE k # n + 1
            <4>1. /\ k \in 1 .. n /\ further[k - 1] = reach[k - 1]
                  /\ more[k] = around[k] /\ further[k] = reach[k]
                BY <1>2, <1>3, <3>2
            <4> QED BY <1>1, <2>2, <4>1, Zenon DEF Flow, n
        <3> QED BY <3>1, <3>2
    <2> QED BY <1>2, <2>1, <2>2, Zenon DEF Flow
<1>5. ASSUME NEW k \in 1 .. n + 1, Errors!Absorbs(more[k]) # {}
      PROVE  next = {}
    <2>1. CASE k = n + 1
        BY <1>2, <1>5, <2>1
    <2>2. CASE k # n + 1
        <3>1. k \in 1 .. n /\ more[k] = around[k]
            BY <1>2, <2>2
        <3> QED BY <1>5, <3>1, Zenon DEF Arrives, n
    <2> QED BY <2>1, <2>2
<1>6. Arrives(source, more, next)
    BY <1>2, <1>3, <1>4, <1>5, Zenon DEF Arrives
<1> QED BY <1>6 DEF more

\* A layer that absorbs whatever comes.
LEMMA LayerAbsorbs ==
    ASSUME NEW source, NEW around, NEW arrived, NEW layer,
           Arrives(source, around, arrived), layer \in Errors!Layers,
           \A class \in arrived : class \in Errors!Absorbs(layer)
    PROVE  Arrives(source, Append(around, layer), {})
<1>1. \A class \in arrived :
         class \in Errors!Absorbs(layer) \/ ClassAfter(layer, class) \in {}
    BY Zenon
<1> QED BY <1>1, OneLayerMore

LEMMA AbsorbsAre ==
    /\ Errors!Absorbs("generation") = {} /\ Errors!Absorbs("retrieve") = {}
    /\ Errors!Absorbs("chat") = {}
    /\ "DeepSeekError" \in Errors!Absorbs("controlled")
    /\ "DeepSeekError" \in Errors!Absorbs("summary")
    /\ "DeepSeekError" \in Errors!Absorbs("tool loop")
    /\ \A layer \in {"rewriter", "facts", "classifier", "intent", "stage", "updater",
                     "final answer", "scenario"} : Errors!Absorbs(layer) = Errors!Classes
    BY DEF Errors!Absorbs

\* A layer that absorbs nothing.
LEMMA LayerPasses ==
    ASSUME NEW source, NEW around, NEW arrived, NEW layer, NEW next,
           Arrives(source, around, arrived), layer \in Errors!Layers,
           arrived # {}, Errors!Absorbs(layer) = {},
           \A class \in arrived : ClassAfter(layer, class) \in next
    PROVE  Arrives(source, Append(around, layer), next)
<1>1. \A class \in arrived :
         class \in Errors!Absorbs(layer) \/ ClassAfter(layer, class) \in next
    BY Zenon
<1>2. arrived = {} \/ Errors!Absorbs(layer) # {} => next = {}
    BY Zenon
<1> QED BY <1>1, <1>2, OneLayerMore

\* Errors!Layers as they are written.
LEMMA LayersAre ==
    /\ <<>> \in Seq(Errors!Layers)
    /\ \A x \in Errors!Layers : <<x>> \in Seq(Errors!Layers) /\ Append(<<>>, x) = <<x>>
    /\ \A x, y \in Errors!Layers : <<x, y>> \in Seq(Errors!Layers) /\ Append(<<x>>, y) = <<x, y>>
    /\ \A x, y, z \in Errors!Layers : /\ <<x, y, z>> \in Seq(Errors!Layers)
                                      /\ Append(<<x, y>>, z) = <<x, y, z>>
<1>1. <<>> \in Seq(Errors!Layers)
    OBVIOUS
<1>2. ASSUME NEW x \in Errors!Layers
      PROVE  <<x>> \in Seq(Errors!Layers) /\ Append(<<>>, x) = <<x>>
    OBVIOUS
<1>3. ASSUME NEW x \in Errors!Layers, NEW y \in Errors!Layers
      PROVE  <<x, y>> \in Seq(Errors!Layers) /\ Append(<<x>>, y) = <<x, y>>
    <2>1. /\ <<x>> \in Seq(Errors!Layers) /\ Len(<<x>>) = 1 /\ <<x>>[1] = x
          /\ <<x, y>> \in Seq(Errors!Layers) /\ Len(<<x, y>>) = 2
          /\ <<x, y>>[1] = x /\ <<x, y>>[2] = y
        OBVIOUS
    <2>2. /\ Append(<<x>>, y) \in Seq(Errors!Layers) /\ Len(Append(<<x>>, y)) = 2
          /\ Append(<<x>>, y)[1] = x /\ Append(<<x>>, y)[2] = y
        BY <2>1
    <2>3. \A i \in 1 .. 2 : Append(<<x>>, y)[i] = <<x, y>>[i]
        BY <2>1, <2>2
    <2> QED BY <2>1, <2>2, <2>3, SeqEqual
<1>4. ASSUME NEW x \in Errors!Layers, NEW y \in Errors!Layers, NEW z \in Errors!Layers
      PROVE  <<x, y, z>> \in Seq(Errors!Layers) /\ Append(<<x, y>>, z) = <<x, y, z>>
    <2>1. /\ <<x, y>> \in Seq(Errors!Layers) /\ Len(<<x, y>>) = 2
          /\ <<x, y>>[1] = x /\ <<x, y>>[2] = y
          /\ <<x, y, z>> \in Seq(Errors!Layers) /\ Len(<<x, y, z>>) = 3
          /\ <<x, y, z>>[1] = x /\ <<x, y, z>>[2] = y /\ <<x, y, z>>[3] = z
        OBVIOUS
    <2>2. /\ Append(<<x, y>>, z) \in Seq(Errors!Layers) /\ Len(Append(<<x, y>>, z)) = 3
          /\ Append(<<x, y>>, z)[1] = x /\ Append(<<x, y>>, z)[2] = y
          /\ Append(<<x, y>>, z)[3] = z
        BY <2>1
    <2>3. \A i \in 1 .. 3 : Append(<<x, y>>, z)[i] = <<x, y, z>>[i]
        BY <2>1, <2>2
    <2> QED BY <2>1, <2>2, <2>3, SeqEqual
<1> QED BY <1>1, <1>2, <1>3, <1>4, Zenon

\* A call of DeepSeek within a layer that lives without it.
LEMMA SideCalls ==
    ASSUME NEW layer \in {"controlled", "summary", "tool loop", "facts", "classifier", "stage",
                          "intent", "final answer"}
    PROVE  Arrives("deepseek", <<layer>>, {})
<1>1. Arrives("deepseek", <<>>, {"DeepSeekError"})
    BY RaisedAre, NoLayers, Zenon DEF Sources
<1>2. \A class \in {"DeepSeekError"} : class \in Errors!Absorbs(layer)
    <2>1. "DeepSeekError" \in Errors!Classes
        BY DEF Errors!Classes
    <2>2. \A other \in {"facts", "classifier", "stage", "intent", "final answer"} :
             "DeepSeekError" \in Errors!Absorbs(other)
        BY <2>1, AbsorbsAre, Zenon
    <2>3. "DeepSeekError" \in Errors!Absorbs(layer)
        BY <2>2, AbsorbsAre, Zenon
    <2> QED BY <2>3, Zenon
<1>3. layer \in Errors!Layers /\ "deepseek" \in Sources
    BY DEF Errors!Layers, Sources
<1>4. Arrives("deepseek", Append(<<>>, layer), {})
    BY <1>1, <1>2, <1>3, LayersAre, LayerAbsorbs, Zenon
<1> QED BY <1>3, <1>4, LayersAre, Zenon

\* The model behind the generation adapter, and what lives without it.
LEMMA GenerationCalls ==
    /\ Arrives("generation", <<"generation">>, {"GenerationError", "JSONDecodeError"})
    /\ Arrives("generation", <<"generation", "rewriter">>, {})
    /\ Arrives("generation", <<"generation", "updater">>, {})
    /\ Arrives("generation", <<"generation", "rewriter", "chat">>, {})
    /\ Arrives("generation", <<"generation", "chat">>, {"ChatServiceError", "JSONDecodeError"})
<1> DEFINE Asked == {"DeepSeekError", "GenerationError", "JSONDecodeError"}
           Adapted == {"GenerationError", "JSONDecodeError"}
           Chatted == {"ChatServiceError", "JSONDecodeError"}
           Nothing == {}
<1>1. Arrives("generation", <<>>, Asked)
    BY RaisedAre, NoLayers, Zenon DEF Sources
<1>2. "generation" \in Errors!Layers /\ "chat" \in Errors!Layers
    BY DEF Errors!Layers
<1>3. \A class \in Asked : ClassAfter("generation", class) \in Adapted
    BY DEF ClassAfter
<1>4. \A class \in Adapted : ClassAfter("chat", class) \in Chatted
    BY DEF ClassAfter
<1>5. Asked # {} /\ Adapted # {}
    BY Zenon
<1>6. \A layer \in {"rewriter", "updater"} :
         layer \in Errors!Layers /\ \A class \in Adapted : class \in Errors!Absorbs(layer)
    BY AbsorbsAre DEF Errors!Classes, Errors!Layers
<1>7. Errors!Absorbs("generation") = {} /\ Errors!Absorbs("chat") = {}
    BY AbsorbsAre, Zenon
<1>8. \A class \in Nothing : class \in Errors!Absorbs("chat")
    BY Zenon
<1> HIDE DEF Asked, Adapted, Chatted, Nothing
<1>9. Arrives("generation", Append(<<>>, "generation"), Adapted)
    BY <1>1, <1>2, <1>3, <1>5, <1>7, LayerPasses, Zenon
<1>10. Arrives("generation", <<"generation">>, Adapted)
    BY <1>2, <1>9, LayersAre, Zenon
<1>11. ASSUME NEW layer \in {"rewriter", "updater"}
       PROVE  Arrives("generation", <<"generation", layer>>, {})
    <2>1. layer \in Errors!Layers /\ \A class \in Adapted : class \in Errors!Absorbs(layer)
        BY <1>6, Zenon
    <2>2. Arrives("generation", Append(<<"generation">>, layer), {})
        BY <1>10, <2>1, LayerAbsorbs, Zenon
    <2> QED BY <1>2, <2>1, <2>2, LayersAre, Zenon
<1>12. Arrives("generation", <<"generation", "rewriter">>, Nothing)
    BY <1>11, Zenon DEF Nothing
<1>13. Arrives("generation", <<"generation", "rewriter", "chat">>, {})
    <2>1. Arrives("generation", Append(<<"generation", "rewriter">>, "chat"), {})
        BY <1>2, <1>8, <1>12, LayerAbsorbs, Zenon
    <2> QED BY <1>2, <1>6, <2>1, LayersAre, Zenon
<1>14. Arrives("generation", <<"generation", "chat">>, Chatted)
    <2>1. Arrives("generation", Append(<<"generation">>, "chat"), Chatted)
        BY <1>2, <1>4, <1>5, <1>7, <1>10, LayerPasses, Zenon
    <2> QED BY <1>2, <2>1, LayersAre, Zenon
<1>15. Arrives("generation", <<"generation", "updater">>, {})
    BY <1>11, Zenon
<1> QED BY <1>10, <1>12, <1>13, <1>14, <1>15, Zenon DEF Adapted, Chatted, Nothing

\* Searches, the index and the choice of a provider.
LEMMA RetrievalCalls ==
    /\ Arrives("search", <<"retrieve">>, {"RagRetrievalError", "HTTPStatusError"})
    /\ Arrives("search", <<"retrieve", "chat">>, {"ChatServiceError", "HTTPStatusError"})
    /\ Arrives("index", <<>>, {"VectorIndexError"})
    /\ Arrives("index", <<"chat">>, {"VectorIndexError"})
    /\ Arrives("index", <<"retrieve">>, {"RagRetrievalError"})
    /\ Arrives("index", <<"retrieve", "chat">>, {"ChatServiceError"})
    /\ Arrives("provider", <<>>, {"GenerationError"})
    /\ Arrives("provider", <<"chat">>, {"ChatServiceError"})
<1> DEFINE Searched == {"EmbeddingError", "VectorIndexError", "HTTPStatusError",
                        "RagRetrievalError"}
           Retrieved == {"RagRetrievalError", "HTTPStatusError"}
           Chatted == {"ChatServiceError", "HTTPStatusError"}
           Indexed == {"VectorIndexError"}
           Checked == {"RagRetrievalError"}
           Chosen == {"GenerationError"}
           Wrapped == {"ChatServiceError"}
<1>1. Arrives("search", <<>>, Searched)
    BY RaisedAre, NoLayers, Zenon DEF Sources
<1>2. Arrives("index", <<>>, Indexed)
    BY RaisedAre, NoLayers, Zenon DEF Sources
<1>3. Arrives("provider", <<>>, Chosen)
    BY RaisedAre, NoLayers, Zenon DEF Sources
<1>4. "retrieve" \in Errors!Layers /\ "chat" \in Errors!Layers
    BY DEF Errors!Layers
<1>5. \A class \in Searched : ClassAfter("retrieve", class) \in Retrieved
    BY DEF ClassAfter
<1>6. \A class \in Indexed : ClassAfter("retrieve", class) \in Checked
    BY DEF ClassAfter
<1>7. \A class \in Retrieved : ClassAfter("chat", class) \in Chatted
    BY DEF ClassAfter
<1>8. \A class \in Checked : ClassAfter("chat", class) \in Wrapped
    BY DEF ClassAfter
<1>9. \A class \in Chosen : ClassAfter("chat", class) \in Wrapped
    BY DEF ClassAfter
<1>10. \A class \in Indexed : ClassAfter("chat", class) \in Indexed
    BY DEF ClassAfter
<1>11. Searched # {} /\ Retrieved # {} /\ Checked # {} /\ Chosen # {} /\ Indexed # {}
    BY Zenon
<1>12. Errors!Absorbs("retrieve") = {} /\ Errors!Absorbs("chat") = {}
    BY AbsorbsAre, Zenon
<1> HIDE DEF Searched, Retrieved, Chatted, Indexed, Checked, Chosen, Wrapped
<1>13. Arrives("search", Append(<<>>, "retrieve"), Retrieved)
    BY <1>1, <1>4, <1>5, <1>11, <1>12, LayerPasses, Zenon
<1>14. Arrives("index", Append(<<>>, "retrieve"), Checked)
    BY <1>2, <1>4, <1>6, <1>11, <1>12, LayerPasses, Zenon
<1>15. Arrives("index", Append(<<>>, "chat"), Indexed)
    BY <1>2, <1>4, <1>10, <1>11, <1>12, LayerPasses, Zenon
<1>16. Arrives("provider", Append(<<>>, "chat"), Wrapped)
    BY <1>3, <1>4, <1>9, <1>11, <1>12, LayerPasses, Zenon
<1>17. Arrives("search", <<"retrieve">>, Retrieved)
    BY <1>4, <1>13, LayersAre, Zenon
<1>18. Arrives("index", <<"retrieve">>, Checked)
    BY <1>4, <1>14, LayersAre, Zenon
<1>19. Arrives("search", Append(<<"retrieve">>, "chat"), Chatted)
    BY <1>4, <1>7, <1>11, <1>12, <1>17, LayerPasses, Zenon
<1>20. Arrives("index", Append(<<"retrieve">>, "chat"), Wrapped)
    BY <1>4, <1>8, <1>11, <1>12, <1>18, LayerPasses, Zenon
<1>21. /\ Arrives("index", <<"chat">>, Indexed) /\ Arrives("provider", <<"chat">>, Wrapped)
    BY <1>4, <1>15, <1>16, LayersAre, Zenon
<1>22. /\ Arrives("search", <<"retrieve", "chat">>, Chatted)
       /\ Arrives("index", <<"retrieve", "chat">>, Wrapped)
    BY <1>4, <1>19, <1>20, LayersAre, Zenon
<1> QED BY <1>2, <1>3, <1>17, <1>18, <1>21, <1>22, Zenon
        DEF Retrieved, Chatted, Indexed, Checked, Chosen, Wrapped

\* A call whose exceptions, as far as they arrive, are known.
LEMMA ToldBy ==
    ASSUME NEW handler, NEW catches, NEW source, NEW around, NEW arrived,
           NEW optional \in BOOLEAN,
           Arrives(source, around, arrived), arrived \subseteq Errors!Classes \cup catches,
           \/ Escaping(handler, [source |-> source, around |-> around, optional |-> optional])
           \/ arrived \ Unheard \subseteq catches
    PROVE  [source |-> source, around |-> around, optional |-> optional]
               \in ToldCalls(handler, catches)
<1> DEFINE call == [source |-> source, around |-> around, optional |-> optional]
<1>1. call \in Calling /\ call.source = source /\ call.around = around
    BY DEF Arrives, Calling
<1> HIDE DEF call
<1>2. Explains(handler, catches, call)
    BY <1>1, Zenon DEF Explains, call
<1> QED BY <1>1, <1>2, Zenon DEF ToldCalls, call

LEMMA MaybeTold ==
    ASSUME NEW handler, NEW catches, NEW call \in ToldCalls(handler, catches)
    PROVE  Errors!Maybe(call) \in ToldCalls(handler, catches)
<1> DEFINE maybe == Errors!Maybe(call)
<1>1. /\ maybe \in Calling /\ maybe.source = call.source /\ maybe.around = call.around
      /\ call \in Calling /\ Explains(handler, catches, call)
    BY DEF Errors!Maybe, ToldCalls, Calling
<1> HIDE DEF maybe
<1>2. Escaping(handler, call) => Escaping(handler, maybe)
    BY <1>1, Zenon DEF Escaping
<1>3. Explains(handler, catches, maybe)
    BY <1>1, <1>2, Zenon DEF Explains
<1> QED BY <1>1, <1>3, Zenon DEF ToldCalls, maybe

\* Calls without a layer.
LEMMA BareCalls ==
    ASSUME NEW handler, NEW catches, NEW source \in Sources, NEW class,
           \A c \in Errors!Raises(source) : c.class \in {class},
           class \in Errors!Classes \cup catches,
           class \in catches \cup Unheard
    PROVE  Errors!Call(source, <<>>) \in ToldCalls(handler, catches)
<1>1. Arrives(source, <<>>, {class})
    BY NoLayers, Zenon
<1>2. {class} \subseteq Errors!Classes \cup catches /\ {class} \ Unheard \subseteq catches
    BY Zenon
<1>3. FALSE \in BOOLEAN
    BY Zenon
<1> QED BY <1>1, <1>2, <1>3, ToldBy, Zenon DEF Errors!Call

LEMMA OnGood ==
    ASSUME NEW handlers, NEW calls, NEW catches,
           \A h \in handlers : calls \in Seq(ToldCalls(h, catches)),
           catches \cap Statusless = {}
    PROVE  \A row \in Errors!On(handlers, calls, catches) : GoodRow(row)
<1> SUFFICES ASSUME NEW row \in Errors!On(handlers, calls, catches)
             PROVE  GoodRow(row)
    OBVIOUS
<1>1. PICK h \in handlers : row = [handler |-> h, calls |-> calls, catches |-> catches]
    BY Zenon DEF Errors!On
<1>2. row.handler = h /\ row.calls = calls /\ row.catches = catches
    BY <1>1
<1> QED BY <1>2, Zenon DEF GoodRow

\* Lists of calls.
LEMMA ShortLists ==
    ASSUME NEW S
    PROVE  /\ <<>> \in Seq(S)
           /\ \A a \in S : <<a>> \in Seq(S)
           /\ \A a, b \in S : <<a, b>> \in Seq(S)
           /\ \A a, b, c \in S : <<a, b, c>> \in Seq(S)
           /\ \A a, b, c, d \in S : <<a, b, c, d>> \in Seq(S)
           /\ \A a, b, c, d, e \in S : <<a, b, c, d, e>> \in Seq(S)
           /\ \A a, b, c, d, e, f \in S : <<a, b, c, d, e, f>> \in Seq(S)
           /\ \A a, b, c, d, e, f, g \in S : <<a, b, c, d, e, f, g>> \in Seq(S)
           /\ \A s, t \in Seq(S) : s \o t \in Seq(S)
    BY ConcatProperties

\* Calls whose failures the handler knows by their class.
LEMMA CaughtCalls ==
    ASSUME NEW h, NEW K
    PROVE  /\ Errors!Call("storage", <<>>) \in ToldCalls(h, K)
           /\ "DeepSeekError" \in K => Errors!Call("deepseek", <<>>) \in ToldCalls(h, K)
           /\ "OpenRouterError" \in K => Errors!Call("openrouter", <<>>) \in ToldCalls(h, K)
           /\ "GenerationError" \in K => Errors!Call("provider", <<>>) \in ToldCalls(h, K)
           /\ "EvaluationError" \in K => Errors!Call("questions", <<>>) \in ToldCalls(h, K)
           /\ "ScenarioError" \in K => Errors!Call("scenarios", <<>>) \in ToldCalls(h, K)
           /\ "SessionNotFoundError" \in K => Errors!Call("session", <<>>) \in ToldCalls(h, K)
           /\ "TaskStateError" \in K => Errors!Call("task", <<>>) \in ToldCalls(h, K)
           /\ "Day15Error" \in K => Errors!Call("lifecycle", <<>>) \in ToldCalls(h, K)
           /\ "Day15Error" \in K => Errors!Call("scenario name", <<>>) \in ToldCalls(h, K)
           /\ "ValueError" \in K => Errors!Call("argument", <<>>) \in ToldCalls(h, K)
           /\ "ArtifactError" \in K => Errors!Call("artifact", <<>>) \in ToldCalls(h, K)
           /\ "HTTPException" \in K => Errors!Call("lookup", <<>>) \in ToldCalls(h, K)
<1>1. ASSUME NEW source \in Sources, NEW class \in Errors!Classes \cup {"HTTPException"},
             \A c \in Errors!Raises(source) : c.class \in {class},
             class \in K \/ class = "Error"
      PROVE  Errors!Call(source, <<>>) \in ToldCalls(h, K)
    <2>1. /\ class \in Errors!Classes \cup K
          /\ class \in K \cup Unheard
        BY <1>1 DEF Unheard, Errors!Classes
    <2> QED BY <1>1, <2>1, BareCalls, Zenon
<1>2. Errors!Call("storage", <<>>) \in ToldCalls(h, K)
    <2>1. "storage" \in Sources /\ "Error" \in Errors!Classes \cup {"HTTPException"}
        BY DEF Sources, Errors!Classes
    <2>2. \A c \in Errors!Raises("storage") : c.class \in {"Error"}
        BY RaisedAre, Zenon
    <2> QED BY <1>1, <2>1, <2>2, Zenon
<1>3. "DeepSeekError" \in K => Errors!Call("deepseek", <<>>) \in ToldCalls(h, K)
    <2>1. "deepseek" \in Sources /\ "DeepSeekError" \in Errors!Classes \cup {"HTTPException"}
        BY DEF Sources, Errors!Classes
    <2>2. \A c \in Errors!Raises("deepseek") : c.class \in {"DeepSeekError"}
        BY RaisedAre, Zenon
    <2> QED BY <1>1, <2>1, <2>2, Zenon
<1>4. "OpenRouterError" \in K => Errors!Call("openrouter", <<>>) \in ToldCalls(h, K)
    <2>1. "openrouter" \in Sources /\ "OpenRouterError" \in Errors!Classes \cup {"HTTPException"}
        BY DEF Sources, Errors!Classes
    <2>2. \A c \in Errors!Raises("openrouter") : c.class \in {"OpenRouterError"}
        BY RaisedAre, Zenon
    <2> QED BY <1>1, <2>1, <2>2, Zenon
<1>5. "GenerationError" \in K => Errors!Call("provider", <<>>) \in ToldCalls(h, K)
    <2>1. "provider" \in Sources /\ "GenerationError" \in Errors!Classes \cup {"HTTPException"}
        BY DEF Sources, Errors!Classes
    <2>2. \A c \in Errors!Raises("provider") : c.class \in {"GenerationError"}
        BY RaisedAre, Zenon
    <2> QED BY <1>1, <2>1, <2>2, Zenon
<1>6. "EvaluationError" \in K => Errors!Call("questions", <<>>) \in ToldCalls(h, K)
    <2>1. "questions" \in Sources /\ "EvaluationError" \in Errors!Classes \cup {"HTTPException"}
        BY DEF Sources, Errors!Classes
    <2>2. \A c \in Errors!Raises("questions") : c.class \in {"EvaluationError"}
        BY RaisedAre, Zenon
    <2> QED BY <1>1, <2>1, <2>2, Zenon
<1>7. "ScenarioError" \in K => Errors!Call("scenarios", <<>>) \in ToldCalls(h, K)
    <2>1. "scenarios" \in Sources /\ "ScenarioError" \in Errors!Classes \cup {"HTTPException"}
        BY DEF Sources, Errors!Classes
    <2>2. \A c \in Errors!Raises("scenarios") : c.class \in {"ScenarioError"}
        BY RaisedAre, Zenon
    <2> QED BY <1>1, <2>1, <2>2, Zenon
<1>8. "SessionNotFoundError" \in K => Errors!Call("session", <<>>) \in ToldCalls(h, K)
    <2>1. "session" \in Sources /\ "SessionNotFoundError" \in Errors!Classes \cup {"HTTPException"}
        BY DEF Sources, Errors!Classes
    <2>2. \A c \in Errors!Raises("session") : c.class \in {"SessionNotFoundError"}
        BY RaisedAre, Zenon
    <2> QED BY <1>1, <2>1, <2>2, Zenon
<1>9. "TaskStateError" \in K => Errors!Call("task", <<>>) \in ToldCalls(h, K)
    <2>1. "task" \in Sources /\ "TaskStateError" \in Errors!Classes \cup {"HTTPException"}
        BY DEF Sources, Errors!Classes
    <2>2. \A c \in Errors!Raises("task") : c.class \in {"TaskStateError"}
        BY RaisedAre, Zenon
    <2> QED BY <1>1, <2>1, <2>2, Zenon
<1>10. "Day15Error" \in K => Errors!Call("lifecycle", <<>>) \in ToldCalls(h, K)
    <2>1. "lifecycle" \in Sources /\ "Day15Error" \in Errors!Classes \cup {"HTTPException"}
        BY DEF Sources, Errors!Classes
    <2>2. \A c \in Errors!Raises("lifecycle") : c.class \in {"Day15Error"}
        BY RaisedAre, Zenon
    <2> QED BY <1>1, <2>1, <2>2, Zenon
<1>11. "Day15Error" \in K => Errors!Call("scenario name", <<>>) \in ToldCalls(h, K)
    <2>1. "scenario name" \in Sources /\ "Day15Error" \in Errors!Classes \cup {"HTTPException"}
        BY DEF Sources, Errors!Classes
    <2>2. \A c \in Errors!Raises("scenario name") : c.class \in {"Day15Error"}
        BY RaisedAre, Zenon
    <2> QED BY <1>1, <2>1, <2>2, Zenon
<1>12. "ValueError" \in K => Errors!Call("argument", <<>>) \in ToldCalls(h, K)
    <2>1. "argument" \in Sources /\ "ValueError" \in Errors!Classes \cup {"HTTPException"}
        BY DEF Sources, Errors!Classes
    <2>2. \A c \in Errors!Raises("argument") : c.class \in {"ValueError"}
        BY RaisedAre, Zenon
    <2> QED BY <1>1, <2>1, <2>2, Zenon
<1>13. "ArtifactError" \in K => Errors!Call("artifact", <<>>) \in ToldCalls(h, K)
    <2>1. "artifact" \in Sources /\ "ArtifactError" \in Errors!Classes \cup {"HTTPException"}
        BY DEF Sources, Errors!Classes
    <2>2. \A c \in Errors!Raises("artifact") : c.class \in {"ArtifactError"}
        BY RaisedAre, Zenon
    <2> QED BY <1>1, <2>1, <2>2, Zenon
<1>14. "HTTPException" \in K => Errors!Call("lookup", <<>>) \in ToldCalls(h, K)
    <2>1. "lookup" \in Sources /\ "HTTPException" \in Errors!Classes \cup {"HTTPException"}
        BY DEF Sources, Errors!Classes
    <2>2. \A c \in Errors!Raises("lookup") : c.class \in {"HTTPException"}
        BY RaisedAre, Zenon
    <2> QED BY <1>1, <2>1, <2>2, Zenon
<1> QED BY <1>2, <1>3, <1>4, <1>5, <1>6, <1>7, <1>8, <1>9, <1>10, <1>11, <1>12, <1>13, <1>14, Zenon

\* Calls that layers change, and those that cost nothing.
LEMMA LayeredCalls ==
    ASSUME NEW handler, NEW catches
    PROVE  /\ {"DeepSeekError", "OpenRouterError"} \subseteq catches =>
                 Errors!Call("agent llm", <<>>) \in ToldCalls(handler, catches)
           /\ \A layer \in {"controlled", "summary", "tool loop", "facts", "classifier", "stage",
                            "intent", "final answer"} :
                 Errors!Call("deepseek", <<layer>>) \in ToldCalls(handler, catches)
           /\ "GenerationError" \in catches => Errors!Generate \in ToldCalls(handler, catches)
           /\ Errors!Rewrite \in ToldCalls(handler, catches)
           /\ Errors!Call("generation", <<"generation", "updater">>) \in ToldCalls(handler, catches)
           /\ "RagRetrievalError" \in catches =>
                 /\ Errors!Retrieve \in ToldCalls(handler, catches)
                 /\ Errors!Stats \in ToldCalls(handler, catches)
           /\ Errors!Call("index", <<>>) \in ToldCalls(handler, catches)
<1>1. \A source, around : Errors!Call(source, around)
                              = [source |-> source, around |-> around, optional |-> FALSE]
    BY Zenon DEF Errors!Call
<1>2. FALSE \in BOOLEAN
    BY Zenon
<1>3. ASSUME NEW source, NEW around, NEW arrived, Arrives(source, around, arrived),
             arrived \subseteq Errors!Classes, arrived \ Unheard \subseteq catches
      PROVE  Errors!Call(source, around) \in ToldCalls(handler, catches)
    <2>1. arrived \subseteq Errors!Classes \cup catches
        BY <1>3, Zenon
    <2>2. [source |-> source, around |-> around, optional |-> FALSE] \in ToldCalls(handler, catches)
        BY <1>2, <1>3, <2>1, ToldBy, Zenon
    <2> QED BY <1>1, <2>2, Zenon
<1>4. ASSUME {"DeepSeekError", "OpenRouterError"} \subseteq catches
      PROVE  Errors!Call("agent llm", <<>>) \in ToldCalls(handler, catches)
    <2>1. Arrives("agent llm", <<>>, {"DeepSeekError", "OpenRouterError"})
        BY RaisedAre, NoLayers, Zenon DEF Sources
    <2>2. /\ {"DeepSeekError", "OpenRouterError"} \subseteq Errors!Classes
          /\ {"DeepSeekError", "OpenRouterError"} \ Unheard \subseteq catches
        BY <1>4 DEF Errors!Classes
    <2> QED BY <1>3, <2>1, <2>2, Zenon
<1>5. \A source, around : Arrives(source, around, {}) =>
         Errors!Call(source, around) \in ToldCalls(handler, catches)
    <2> DEFINE Nothing == {}
    <2>1. Nothing \subseteq Errors!Classes /\ Nothing \ Unheard \subseteq catches
        BY Zenon
    <2> HIDE DEF Nothing
    <2>2. \A source, around : Arrives(source, around, Nothing) =>
             Errors!Call(source, around) \in ToldCalls(handler, catches)
        BY <1>3, <2>1, Zenon
    <2> QED BY <2>2, Zenon DEF Nothing
<1>6. \A layer \in {"controlled", "summary", "tool loop", "facts", "classifier", "stage",
                    "intent", "final answer"} :
         Errors!Call("deepseek", <<layer>>) \in ToldCalls(handler, catches)
    BY <1>5, SideCalls, Zenon
<1>7. ASSUME "GenerationError" \in catches
      PROVE  Errors!Generate \in ToldCalls(handler, catches)
    <2>1. /\ {"GenerationError", "JSONDecodeError"} \subseteq Errors!Classes
          /\ {"GenerationError", "JSONDecodeError"} \ Unheard \subseteq catches
        BY <1>7 DEF Errors!Classes, Unheard
    <2> QED BY <1>3, <2>1, GenerationCalls, Zenon DEF Errors!Generate
<1>8. /\ Errors!Rewrite \in ToldCalls(handler, catches)
      /\ Errors!Call("generation", <<"generation", "updater">>) \in ToldCalls(handler, catches)
    BY <1>5, GenerationCalls, Zenon DEF Errors!Rewrite
<1>9. ASSUME "RagRetrievalError" \in catches
      PROVE  Errors!Retrieve \in ToldCalls(handler, catches)
    <2>1. /\ {"RagRetrievalError", "HTTPStatusError"} \subseteq Errors!Classes
          /\ {"RagRetrievalError", "HTTPStatusError"} \ Unheard \subseteq catches
        BY <1>9 DEF Errors!Classes, Unheard
    <2> QED BY <1>3, <2>1, RetrievalCalls, Zenon DEF Errors!Retrieve
<1>10. ASSUME "RagRetrievalError" \in catches
       PROVE  Errors!Stats \in ToldCalls(handler, catches)
    <2>1. /\ {"RagRetrievalError"} \subseteq Errors!Classes
          /\ {"RagRetrievalError"} \ Unheard \subseteq catches
        BY <1>10 DEF Errors!Classes, Unheard
    <2> QED BY <1>3, <2>1, RetrievalCalls, Zenon DEF Errors!Stats
<1>11. Errors!Call("index", <<>>) \in ToldCalls(handler, catches)
    <2>1. Escaping(handler, [source |-> "index", around |-> <<>>, optional |-> FALSE])
        BY DEF Escaping
    <2>2. {"VectorIndexError"} \subseteq Errors!Classes \cup catches
        BY DEF Errors!Classes
    <2>3. [source |-> "index", around |-> <<>>, optional |-> FALSE] \in ToldCalls(handler, catches)
        BY <1>2, <2>1, <2>2, RetrievalCalls, ToldBy, Zenon
    <2> QED BY <1>1, <2>3, Zenon
<1> QED BY <1>4, <1>6, <1>7, <1>8, <1>9, <1>10, <1>11, Zenon

\* What the pipelines call.
LEMMA PipelineCalls ==
    ASSUME NEW handler, NEW catches
    PROVE  /\ Errors!RagErrors \subseteq catches =>
                 /\ Errors!Plain \in Seq(ToldCalls(handler, catches))
                 /\ Errors!Improved \in Seq(ToldCalls(handler, catches))
                 /\ Errors!Grounded \in Seq(ToldCalls(handler, catches))
                 /\ <<Errors!Provider, Errors!Generate>> \in Seq(ToldCalls(handler, catches))
           /\ "EvaluationError" \in catches =>
                 /\ Errors!Questions \in ToldCalls(handler, catches)
                 /\ <<Errors!Questions>> \in Seq(ToldCalls(handler, catches))
<1> DEFINE K == ToldCalls(handler, catches)
<1>1. ASSUME Errors!RagErrors \subseteq catches
      PROVE  /\ Errors!Provider \in K /\ Errors!Generate \in K /\ Errors!Retrieve \in K
             /\ Errors!Stats \in K /\ Errors!Rewrite \in K
             /\ Errors!Maybe(Errors!Retrieve) \in K /\ Errors!Maybe(Errors!Generate) \in K
    <2>1. "GenerationError" \in catches /\ "RagRetrievalError" \in catches
        BY <1>1, Zenon DEF Errors!RagErrors
    <2>2. /\ Errors!Provider \in K /\ Errors!Generate \in K /\ Errors!Retrieve \in K
          /\ Errors!Stats \in K /\ Errors!Rewrite \in K
        BY <2>1, CaughtCalls, LayeredCalls, Zenon DEF Errors!Provider
    <2> QED BY <2>2, MaybeTold, Zenon
<1>2. ASSUME "EvaluationError" \in catches
      PROVE  Errors!Questions \in K
    BY <1>2, CaughtCalls, Zenon DEF Errors!Questions
<1> HIDE DEF K
<1>3. ASSUME Errors!RagErrors \subseteq catches
      PROVE  /\ Errors!Plain \in Seq(K) /\ Errors!Improved \in Seq(K)
             /\ Errors!Grounded \in Seq(K) /\ <<Errors!Provider, Errors!Generate>> \in Seq(K)
    BY <1>1, <1>3, ShortLists, Zenon DEF Errors!Plain, Errors!Improved, Errors!Grounded
<1>4. "EvaluationError" \in catches => <<Errors!Questions>> \in Seq(K)
    BY <1>2, ShortLists, Zenon
<1> QED BY <1>2, <1>3, <1>4, Zenon DEF K

\* The handlers that make calls and catch classes get good rows, whichever they are.
Tells(calls, catches) ==
    /\ \A h : calls \in Seq(ToldCalls(h, catches))
    /\ catches \cap Statusless = {}

LEMMA TellsGood ==
    ASSUME NEW calls, NEW catches, Tells(calls, catches)
    PROVE  \A handlers : \A row \in Errors!On(handlers, calls, catches) : GoodRow(row)
    BY OnGood, Zenon DEF Tells

LEMMA NoCalls == \A handlers : \A row \in Errors!On(handlers, <<>>, {}) : GoodRow(row)
<1>1. Tells(<<>>, {})
    BY ShortLists, Zenon DEF Tells
<1> QED BY <1>1, TellsGood, Zenon

\* None of the classes that the handlers catch comes without a status.
LEMMA OnlyKnown ==
    /\ {"DeepSeekError", "OpenRouterError"} \cap Statusless = {}
    /\ {} \cap Statusless = {}
    /\ {"DeepSeekError"} \cap Statusless = {}
    /\ {"OpenRouterError"} \cap Statusless = {}
    /\ {"ValueError", "DeepSeekError"} \cap Statusless = {}
    /\ {"ValueError"} \cap Statusless = {}
    /\ {"TaskStateError", "DeepSeekError"} \cap Statusless = {}
    /\ {"TaskStateError"} \cap Statusless = {}
    /\ {"Day15Error"} \cap Statusless = {}
    /\ {"HTTPException"} \cap Statusless = {}
    /\ {"ArtifactError"} \cap Statusless = {}
    BY DEF Statusless, Unheard

\* The handlers of the pages, the agents and the comparisons.
LEMMA AgentRows ==
    /\ \A row \in Errors!PageRoutes : GoodRow(row)
    /\ \A row \in Errors!AgentRoutes : GoodRow(row)
    /\ \A row \in Errors!PromptRoutes : GoodRow(row)
    /\ \A row \in Errors!Day8Routes : GoodRow(row)
    /\ \A row \in Errors!Day9Routes : GoodRow(row)
<1>1. \A row \in Errors!PageRoutes : GoodRow(row)
    BY TellsGood, NoCalls, Zenon
    DEF Errors!PageRoutes
<1>2. Tells(<<Errors!Storage, Errors!Call("agent llm", <<>>), Errors!Storage>>,
            {"DeepSeekError", "OpenRouterError"})
    <2>1. \A h : /\ Errors!Storage \in ToldCalls(h, {"DeepSeekError", "OpenRouterError"})
                 /\ Errors!Call("agent llm", <<>>)
                       \in ToldCalls(h, {"DeepSeekError", "OpenRouterError"})
        BY CaughtCalls, LayeredCalls, MaybeTold, Zenon
        DEF Errors!Storage
    <2> QED BY <2>1, OnlyKnown, ShortLists, Zenon DEF Tells
<1>3. Tells(<<Errors!Storage>>, {})
    <2>1. \A h : Errors!Storage \in ToldCalls(h, {})
        BY CaughtCalls, LayeredCalls, MaybeTold, Zenon
        DEF Errors!Storage
    <2> QED BY <2>1, OnlyKnown, ShortLists, Zenon DEF Tells
<1>4. \A row \in Errors!AgentRoutes : GoodRow(row)
    BY <1>2, <1>3, TellsGood, NoCalls, Zenon
    DEF Errors!AgentRoutes
<1>5. Tells(Errors!Comparison, {"DeepSeekError"})
    <2>1. \A h : /\ Errors!DeepSeek \in ToldCalls(h, {"DeepSeekError"})
                 /\ Errors!Call("deepseek", <<"controlled">>) \in ToldCalls(h, {"DeepSeekError"})
        BY CaughtCalls, LayeredCalls, MaybeTold, Zenon
        DEF Errors!DeepSeek
    <2> QED BY <2>1, OnlyKnown, ShortLists, Zenon DEF Tells, Errors!Comparison
<1>6. Tells(Errors!Reasoning, {"DeepSeekError"})
    <2>1. \A h : Errors!DeepSeek \in ToldCalls(h, {"DeepSeekError"})
        BY CaughtCalls, LayeredCalls, MaybeTold, Zenon
        DEF Errors!DeepSeek
    <2> QED BY <2>1, OnlyKnown, ShortLists, Zenon DEF Tells, Errors!Reasoning
<1>7. Tells(Errors!Temperature, {"DeepSeekError"})
    <2>1. \A h : Errors!DeepSeek \in ToldCalls(h, {"DeepSeekError"})
        BY CaughtCalls, LayeredCalls, MaybeTold, Zenon
        DEF Errors!DeepSeek
    <2> QED BY <2>1, OnlyKnown, ShortLists, Zenon DEF Tells, Errors!Temperature
<1>8. Tells(Errors!OpenRouterRun, {"OpenRouterError"})
    <2>1. \A h : Errors!Call("openrouter", <<>>) \in ToldCalls(h, {"OpenRouterError"})
        BY CaughtCalls, LayeredCalls, MaybeTold, Zenon
    <2> QED BY <2>1, OnlyKnown, ShortLists, Zenon DEF Tells, Errors!OpenRouterRun
<1>9. \A row \in Errors!PromptRoutes : GoodRow(row)
    BY <1>5, <1>6, <1>7, <1>8, TellsGood, NoCalls, Zenon
    DEF Errors!PromptRoutes
<1>10. Tells(<<Errors!DeepSeek>>, {"DeepSeekError"})
    <2>1. \A h : Errors!DeepSeek \in ToldCalls(h, {"DeepSeekError"})
        BY CaughtCalls, LayeredCalls, MaybeTold, Zenon
        DEF Errors!DeepSeek
    <2> QED BY <2>1, OnlyKnown, ShortLists, Zenon DEF Tells
<1>11. \A row \in Errors!Day8Routes : GoodRow(row)
    BY <1>10, TellsGood, NoCalls, Zenon
    DEF Errors!Day8Routes
<1>12. Tells(<<Errors!Maybe(Errors!Call("deepseek", <<"summary">>)), Errors!DeepSeek>>,
             {"DeepSeekError"})
    <2>1. \A h : /\ Errors!Maybe(Errors!Call("deepseek", <<"summary">>))
                       \in ToldCalls(h, {"DeepSeekError"})
                 /\ Errors!DeepSeek \in ToldCalls(h, {"DeepSeekError"})
        BY CaughtCalls, LayeredCalls, MaybeTold, Zenon
        DEF Errors!DeepSeek
    <2> QED BY <2>1, OnlyKnown, ShortLists, Zenon DEF Tells
<1>13. \A row \in Errors!Day9Routes : GoodRow(row)
    BY <1>12, TellsGood, NoCalls, Zenon
    DEF Errors!Day9Routes
<1> QED BY <1>1, <1>4, <1>9, <1>11, <1>13, Zenon

\* Those of Days 10 to 15.
LEMMA DialogRows ==
    /\ \A row \in Errors!Day10Routes : GoodRow(row)
    /\ \A row \in Errors!Day11Routes : GoodRow(row)
    /\ \A row \in Errors!Day12Routes : GoodRow(row)
    /\ \A row \in Errors!Day13Routes : GoodRow(row)
    /\ \A row \in Errors!Day14Routes : GoodRow(row)
    /\ \A row \in Errors!Day15Routes : GoodRow(row)
    /\ \A row \in Errors!Day15ChatRoutes : GoodRow(row)
<1>1. Tells(<<Errors!Maybe(Errors!Call("argument", <<>>)), Errors!Facts, Errors!DeepSeek>>,
            {"ValueError", "DeepSeekError"})
    <2>1. \A h : /\ Errors!Maybe(Errors!Call("argument", <<>>))
                       \in ToldCalls(h, {"ValueError", "DeepSeekError"})
                 /\ Errors!Facts \in ToldCalls(h, {"ValueError", "DeepSeekError"})
                 /\ Errors!DeepSeek \in ToldCalls(h, {"ValueError", "DeepSeekError"})
        BY CaughtCalls, LayeredCalls, MaybeTold, Zenon
        DEF Errors!DeepSeek, Errors!Facts
    <2> QED BY <2>1, OnlyKnown, ShortLists, Zenon DEF Tells
<1>2. Tells(<<Errors!Facts, Errors!DeepSeek, Errors!Facts, Errors!DeepSeek>>, {"DeepSeekError"})
    <2>1. \A h : /\ Errors!Facts \in ToldCalls(h, {"DeepSeekError"})
                 /\ Errors!DeepSeek \in ToldCalls(h, {"DeepSeekError"})
        BY CaughtCalls, LayeredCalls, MaybeTold, Zenon
        DEF Errors!DeepSeek, Errors!Facts
    <2> QED BY <2>1, OnlyKnown, ShortLists, Zenon DEF Tells
<1>3. Tells(<<Errors!Call("argument", <<>>)>>, {"ValueError"})
    <2>1. \A h : Errors!Call("argument", <<>>) \in ToldCalls(h, {"ValueError"})
        BY CaughtCalls, LayeredCalls, MaybeTold, Zenon
    <2> QED BY <2>1, OnlyKnown, ShortLists, Zenon DEF Tells
<1>4. \A row \in Errors!Day10Routes : GoodRow(row)
    BY <1>1, <1>2, <1>3, TellsGood, NoCalls, Zenon
    DEF Errors!Day10Routes
<1>5. Tells(<<Errors!Classify, Errors!DeepSeek>>, {"DeepSeekError"})
    <2>1. \A h : /\ Errors!Classify \in ToldCalls(h, {"DeepSeekError"})
                 /\ Errors!DeepSeek \in ToldCalls(h, {"DeepSeekError"})
        BY CaughtCalls, LayeredCalls, MaybeTold, Zenon
        DEF Errors!Classify, Errors!DeepSeek
    <2> QED BY <2>1, OnlyKnown, ShortLists, Zenon DEF Tells
<1>6. \A row \in Errors!Day11Routes : GoodRow(row)
    BY <1>5, TellsGood, NoCalls, Zenon
    DEF Errors!Day11Routes
<1>7. Tells(<<Errors!Call("argument", <<>>), Errors!DeepSeek, Errors!DeepSeek>>,
            {"ValueError", "DeepSeekError"})
    <2>1. \A h : /\ Errors!Call("argument", <<>>) \in ToldCalls(h, {"ValueError", "DeepSeekError"})
                 /\ Errors!DeepSeek \in ToldCalls(h, {"ValueError", "DeepSeekError"})
        BY CaughtCalls, LayeredCalls, MaybeTold, Zenon
        DEF Errors!DeepSeek
    <2> QED BY <2>1, OnlyKnown, ShortLists, Zenon DEF Tells
<1>8. \A row \in Errors!Day12Routes : GoodRow(row)
    BY <1>5, <1>7, <1>3, TellsGood, NoCalls, Zenon
    DEF Errors!Day12Routes
<1>9. Tells(<<Errors!Call("task", <<>>), Errors!Maybe(Errors!DeepSeek)>>,
            {"TaskStateError", "DeepSeekError"})
    <2>1. \A h : /\ Errors!Call("task", <<>>) \in ToldCalls(h, {"TaskStateError", "DeepSeekError"})
                 /\ Errors!Maybe(Errors!DeepSeek)
                       \in ToldCalls(h, {"TaskStateError", "DeepSeekError"})
        BY CaughtCalls, LayeredCalls, MaybeTold, Zenon
        DEF Errors!DeepSeek
    <2> QED BY <2>1, OnlyKnown, ShortLists, Zenon DEF Tells
<1>10. Tells(<<Errors!Call("task", <<>>)>>, {"TaskStateError"})
    <2>1. \A h : Errors!Call("task", <<>>) \in ToldCalls(h, {"TaskStateError"})
        BY CaughtCalls, LayeredCalls, MaybeTold, Zenon
    <2> QED BY <2>1, OnlyKnown, ShortLists, Zenon DEF Tells
<1>11. \A row \in Errors!Day13Routes : GoodRow(row)
    BY <1>9, <1>10, TellsGood, NoCalls, Zenon
    DEF Errors!Day13Routes
<1>12. Tells(<<Errors!Maybe(Errors!DeepSeek)>>, {"DeepSeekError"})
    <2>1. \A h : Errors!Maybe(Errors!DeepSeek) \in ToldCalls(h, {"DeepSeekError"})
        BY CaughtCalls, LayeredCalls, MaybeTold, Zenon
        DEF Errors!DeepSeek
    <2> QED BY <2>1, OnlyKnown, ShortLists, Zenon DEF Tells
<1>13. \A row \in Errors!Day14Routes : GoodRow(row)
    BY <1>12, TellsGood, NoCalls, Zenon
    DEF Errors!Day14Routes
<1>14. Tells(<<Errors!Call("lifecycle", <<>>), Errors!Stage>>, {"Day15Error"})
    <2>1. \A h : /\ Errors!Call("lifecycle", <<>>) \in ToldCalls(h, {"Day15Error"})
                 /\ Errors!Stage \in ToldCalls(h, {"Day15Error"})
        BY CaughtCalls, LayeredCalls, MaybeTold, Zenon
        DEF Errors!Stage
    <2> QED BY <2>1, OnlyKnown, ShortLists, Zenon DEF Tells
<1>15. Tells(<<Errors!Call("lifecycle", <<>>)>>, {"Day15Error"})
    <2>1. \A h : Errors!Call("lifecycle", <<>>) \in ToldCalls(h, {"Day15Error"})
        BY CaughtCalls, LayeredCalls, MaybeTold, Zenon
    <2> QED BY <2>1, OnlyKnown, ShortLists, Zenon DEF Tells
<1>16. \A row \in Errors!Day15Routes : GoodRow(row)
    BY <1>14, <1>15, TellsGood, NoCalls, Zenon
    DEF Errors!Day15Routes
<1>17. Tells(<<Errors!Recognize, Errors!Call("lifecycle", <<>>), Errors!Stage, Errors!Stage>>,
             {"Day15Error"})
    <2>1. \A h : /\ Errors!Recognize \in ToldCalls(h, {"Day15Error"})
                 /\ Errors!Call("lifecycle", <<>>) \in ToldCalls(h, {"Day15Error"})
                 /\ Errors!Stage \in ToldCalls(h, {"Day15Error"})
        BY CaughtCalls, LayeredCalls, MaybeTold, Zenon
        DEF Errors!Recognize, Errors!Stage
    <2> QED BY <2>1, OnlyKnown, ShortLists, Zenon DEF Tells
<1>18. Tells(<<Errors!Call("scenario name", <<>>)>>, {"Day15Error"})
    <2>1. \A h : Errors!Call("scenario name", <<>>) \in ToldCalls(h, {"Day15Error"})
        BY CaughtCalls, LayeredCalls, MaybeTold, Zenon
    <2> QED BY <2>1, OnlyKnown, ShortLists, Zenon DEF Tells
<1>19. \A row \in Errors!Day15ChatRoutes : GoodRow(row)
    BY <1>17, <1>18, TellsGood, NoCalls, Zenon
    DEF Errors!Day15ChatRoutes
<1> QED BY <1>4, <1>6, <1>8, <1>11, <1>13, <1>16, <1>19, Zenon

\* Those of Days 16 to 20.
LEMMA ToolRows ==
    /\ \A row \in Errors!ToolRoutes : GoodRow(row)
    /\ \A row \in Errors!MonitoringRoutes : GoodRow(row)
    /\ \A row \in Errors!PipelineRoutes : GoodRow(row)
    /\ \A row \in Errors!InvestigationRoutes : GoodRow(row)
<1>1. Tells(<<Errors!Call("deepseek", <<"tool loop">>),
              Errors!Maybe(Errors!Call("deepseek", <<"tool loop">>))>>,
            {})
    <2>1. \A h : /\ Errors!Call("deepseek", <<"tool loop">>) \in ToldCalls(h, {})
                 /\ Errors!Maybe(Errors!Call("deepseek", <<"tool loop">>)) \in ToldCalls(h, {})
        BY CaughtCalls, LayeredCalls, MaybeTold, Zenon
    <2> QED BY <2>1, OnlyKnown, ShortLists, Zenon DEF Tells
<1>2. \A row \in Errors!ToolRoutes : GoodRow(row)
    BY <1>1, TellsGood, NoCalls, Zenon
    DEF Errors!ToolRoutes
<1>3. Tells(<<Errors!Storage, Errors!Call("lookup", <<>>)>>, {"HTTPException"})
    <2>1. \A h : /\ Errors!Storage \in ToldCalls(h, {"HTTPException"})
                 /\ Errors!Call("lookup", <<>>) \in ToldCalls(h, {"HTTPException"})
        BY CaughtCalls, LayeredCalls, MaybeTold, Zenon
        DEF Errors!Storage
    <2> QED BY <2>1, OnlyKnown, ShortLists, Zenon DEF Tells
<1>4. Tells(<<Errors!Storage>>, {})
    <2>1. \A h : Errors!Storage \in ToldCalls(h, {})
        BY CaughtCalls, LayeredCalls, MaybeTold, Zenon
        DEF Errors!Storage
    <2> QED BY <2>1, OnlyKnown, ShortLists, Zenon DEF Tells
<1>5. \A row \in Errors!MonitoringRoutes : GoodRow(row)
    BY <1>3, <1>4, TellsGood, NoCalls, Zenon
    DEF Errors!MonitoringRoutes
<1>6. Tells(<<Errors!Maybe(Errors!Call("deepseek", <<"final answer">>))>>, {})
    <2>1. \A h : Errors!Maybe(Errors!Call("deepseek", <<"final answer">>)) \in ToldCalls(h, {})
        BY CaughtCalls, LayeredCalls, MaybeTold, Zenon
    <2> QED BY <2>1, OnlyKnown, ShortLists, Zenon DEF Tells
<1>7. Tells(<<Errors!Call("artifact", <<>>)>>, {"ArtifactError"})
    <2>1. \A h : Errors!Call("artifact", <<>>) \in ToldCalls(h, {"ArtifactError"})
        BY CaughtCalls, LayeredCalls, MaybeTold, Zenon
    <2> QED BY <2>1, OnlyKnown, ShortLists, Zenon DEF Tells
<1>8. \A row \in Errors!PipelineRoutes : GoodRow(row)
    BY <1>6, <1>7, TellsGood, NoCalls, Zenon
    DEF Errors!PipelineRoutes
<1>9. Tells(<<Errors!Call("deepseek", <<"tool loop">>),
              Errors!Maybe(Errors!Call("deepseek", <<"final answer">>))>>,
            {})
    <2>1. \A h : /\ Errors!Call("deepseek", <<"tool loop">>) \in ToldCalls(h, {})
                 /\ Errors!Maybe(Errors!Call("deepseek", <<"final answer">>)) \in ToldCalls(h, {})
        BY CaughtCalls, LayeredCalls, MaybeTold, Zenon
    <2> QED BY <2>1, OnlyKnown, ShortLists, Zenon DEF Tells
<1>10. \A row \in Errors!InvestigationRoutes : GoodRow(row)
    BY <1>9, <1>7, TellsGood, NoCalls, Zenon
    DEF Errors!InvestigationRoutes
<1> QED BY <1>2, <1>5, <1>8, <1>10, Zenon

\* Evaluations of Days 22 to 24.
LEMMA EvaluationRows ==
    \A questions, results :
        \A row \in Errors!EvaluationRoutes(questions, results) : GoodRow(row)
<1> DEFINE catches == {"EvaluationError"}
<1>1. catches \cap Statusless = {}
    BY DEF Statusless, Unheard
<1>2. ASSUME NEW h
      PROVE  /\ <<Errors!Questions>> \in Seq(ToldCalls(h, catches))
             /\ <<Errors!Questions, Errors!Storage>> \in Seq(ToldCalls(h, catches))
    <2>1. Errors!Questions \in ToldCalls(h, catches) /\ Errors!Storage \in ToldCalls(h, catches)
        BY CaughtCalls, Zenon DEF Errors!Questions, Errors!Storage
    <2> HIDE DEF catches
    <2> QED BY <2>1, ShortLists, Zenon
<1> HIDE DEF catches
<1>3. Tells(<<Errors!Questions>>, catches) /\ Tells(<<Errors!Questions, Errors!Storage>>, catches)
    BY <1>1, <1>2, Zenon DEF Tells
<1>4. /\ \A handlers : \A row \in Errors!On(handlers, <<Errors!Questions>>, catches) : GoodRow(row)
      /\ \A handlers :
            \A row \in Errors!On(handlers, <<Errors!Questions, Errors!Storage>>, catches) :
               GoodRow(row)
    BY <1>3, TellsGood, Zenon
<1> QED BY <1>4, Zenon DEF Errors!EvaluationRoutes, catches

\* The status pages tell some failures as a bare 500.
LEMMA StatusRows ==
    ASSUME NEW handler \in {"day22_status", "day23_status", "day24_status", "day25_status",
                            "xpander_status"}
    PROVE  \A row \in Errors!On({handler}, Errors!Status, {}) : GoodRow(row)
<1>1. \A call : Escaping(handler, call)
    BY Zenon DEF Escaping
<1> DEFINE unread == {"RagRetrievalError"}
           unset == {"GenerationError"}
<1>2. unread \subseteq Errors!Classes /\ unset \subseteq Errors!Classes
    BY DEF Errors!Classes
<1>3. ASSUME NEW source, NEW around, NEW arrived, Arrives(source, around, arrived),
             arrived \subseteq Errors!Classes
      PROVE  Errors!Call(source, around) \in ToldCalls(handler, {})
    <2>1. arrived \subseteq Errors!Classes \cup {} /\ FALSE \in BOOLEAN
        BY <1>3, Zenon
    <2> QED BY <1>1, <1>3, <2>1, ToldBy, Zenon DEF Errors!Call
<1>4. Arrives("index", <<"retrieve">>, unread) /\ Arrives("provider", <<>>, unset)
    BY RetrievalCalls, Zenon
<1> HIDE DEF unread, unset
<1>5. Errors!Stats \in ToldCalls(handler, {}) /\ Errors!Provider \in ToldCalls(handler, {})
    BY <1>2, <1>3, <1>4, Zenon DEF Errors!Stats, Errors!Provider
<1>6. Errors!Status \in Seq(ToldCalls(handler, {}))
    BY <1>5, ShortLists, Zenon DEF Errors!Status
<1>7. {} \cap Statusless = {} /\ \A h \in {handler} : h = handler
    BY Zenon
<1> QED BY <1>6, <1>7, OnGood, Zenon

\* What a pipeline catches, and an evaluation with it.
LEMMA PipelineCatches ==
    /\ Errors!RagErrors \cap Statusless = {}
    /\ (Errors!RagErrors \cup {"EvaluationError"}) \cap Statusless = {}
    /\ Errors!RagErrors \subseteq Errors!RagErrors \cup {"EvaluationError"}
    /\ "EvaluationError" \in Errors!RagErrors \cup {"EvaluationError"}
    BY DEF Statusless, Unheard, Errors!RagErrors

LEMMA PipelinesTell ==
    /\ Tells(Errors!Plain, Errors!RagErrors) /\ Tells(Errors!Improved, Errors!RagErrors)
    /\ Tells(Errors!Grounded, Errors!RagErrors)
    /\ Tells(<<Errors!Provider, Errors!Generate>> \o Errors!Plain, Errors!RagErrors)
    /\ Tells(Errors!Plain \o Errors!Improved, Errors!RagErrors)
<1>1. ASSUME NEW h
      PROVE  LET K == ToldCalls(h, Errors!RagErrors)
             IN  /\ Errors!Plain \in Seq(K) /\ Errors!Improved \in Seq(K)
                 /\ Errors!Grounded \in Seq(K)
                 /\ <<Errors!Provider, Errors!Generate>> \o Errors!Plain \in Seq(K)
                 /\ Errors!Plain \o Errors!Improved \in Seq(K)
    <2> DEFINE K == ToldCalls(h, Errors!RagErrors)
    <2>1. Errors!RagErrors \subseteq Errors!RagErrors
        BY Zenon
    <2>2. /\ Errors!Plain \in Seq(K) /\ Errors!Improved \in Seq(K)
          /\ Errors!Grounded \in Seq(K) /\ <<Errors!Provider, Errors!Generate>> \in Seq(K)
        BY <2>1, PipelineCalls, Zenon
    <2> HIDE DEF K
    <2>3. /\ <<Errors!Provider, Errors!Generate>> \o Errors!Plain \in Seq(K)
          /\ Errors!Plain \o Errors!Improved \in Seq(K)
        BY <2>2, ShortLists, Zenon
    <2> QED BY <2>2, <2>3, Zenon DEF K
<1> QED BY <1>1, PipelineCatches, Zenon DEF Tells

LEMMA EvaluationsTell ==
    LET catches == Errors!RagErrors \cup {"EvaluationError"}
    IN  /\ Tells(<<Errors!Questions, Errors!Provider, Errors!Generate>> \o Errors!Plain, catches)
        /\ Tells(<<Errors!Questions>> \o Errors!Plain \o Errors!Improved, catches)
        /\ Tells(<<Errors!Questions>> \o Errors!Grounded \o <<Errors!Storage>>, catches)
        /\ Tells(<<Errors!Questions>> \o Errors!Grounded, catches)
<1> DEFINE catches == Errors!RagErrors \cup {"EvaluationError"}
<1>1. ASSUME NEW h
      PROVE  LET K == ToldCalls(h, catches)
             IN  /\ <<Errors!Questions, Errors!Provider, Errors!Generate>> \o Errors!Plain
                       \in Seq(K)
                 /\ <<Errors!Questions>> \o Errors!Plain \o Errors!Improved \in Seq(K)
                 /\ <<Errors!Questions>> \o Errors!Grounded \o <<Errors!Storage>> \in Seq(K)
                 /\ <<Errors!Questions>> \o Errors!Grounded \in Seq(K)
    <2> DEFINE K == ToldCalls(h, catches)
    <2>1. Errors!RagErrors \subseteq catches /\ "EvaluationError" \in catches
        BY PipelineCatches, Zenon
    <2>2. "GenerationError" \in catches
        BY DEF Errors!RagErrors
    <2> HIDE DEF catches
    <2>3. /\ Errors!Plain \in Seq(K) /\ Errors!Improved \in Seq(K)
          /\ Errors!Grounded \in Seq(K) /\ Errors!Questions \in K
        BY <2>1, PipelineCalls, Zenon
    <2>4. Errors!Provider \in K /\ Errors!Generate \in K /\ Errors!Storage \in K
        BY <2>2, CaughtCalls, LayeredCalls, Zenon DEF Errors!Provider, Errors!Storage
    <2> HIDE DEF K
    <2>5. /\ <<Errors!Questions>> \in Seq(K) /\ <<Errors!Storage>> \in Seq(K)
          /\ <<Errors!Questions, Errors!Provider, Errors!Generate>> \in Seq(K)
        BY <2>3, <2>4, ShortLists, Zenon
    <2>6. \A s, u \in Seq(K) : s \o u \in Seq(K)
        BY ShortLists, Zenon
    <2> QED BY <2>3, <2>5, <2>6, Zenon DEF K
<1>2. catches \cap Statusless = {}
    BY PipelineCatches, Zenon
<1> QED BY <1>1, <1>2, Zenon DEF Tells

\* The handlers of Days 22 to 24.
LEMMA PipelineRows ==
    /\ \A row \in Errors!Day22Routes : GoodRow(row)
    /\ \A row \in Errors!Day23Routes : GoodRow(row)
    /\ \A row \in Errors!Day23EvaluationRoutes : GoodRow(row)
    /\ \A row \in Errors!Day24Routes : GoodRow(row)
    /\ \A row \in Errors!Day24EvaluationRoutes : GoodRow(row)
    /\ \A row \in Errors!Day24NegativeRoutes : GoodRow(row)
<1>1. \A calls, catches : Tells(calls, catches) =>
         \A handlers : \A row \in Errors!On(handlers, calls, catches) : GoodRow(row)
    BY TellsGood, Zenon
<1>2. \A row \in Errors!Day22Routes : GoodRow(row)
    BY <1>1, StatusRows, PipelinesTell, EvaluationsTell, EvaluationRows, Zenon
    DEF Errors!Day22Routes
<1>3. \A row \in Errors!Day23Routes : GoodRow(row)
    BY <1>1, StatusRows, PipelinesTell, Zenon DEF Errors!Day23Routes
<1>4. \A row \in Errors!Day23EvaluationRoutes : GoodRow(row)
    <2> DEFINE catches == {"EvaluationError", "RagRetrievalError"}
               calls == <<Errors!Questions, Errors!Call("bare search", <<>>)>>
               handler == "day23_evaluation_scores"
               found == {"EmbeddingError", "VectorIndexError", "HTTPStatusError"}
    <2>1. catches \cap Statusless = {} /\ "EvaluationError" \in catches
        BY DEF Statusless, Unheard
    <2>2. Errors!Questions \in ToldCalls(handler, catches)
        BY <2>1, CaughtCalls, Zenon DEF Errors!Questions
    <2>3. Errors!Call("bare search", <<>>) \in ToldCalls(handler, catches)
        <3>1. Arrives("bare search", <<>>, found)
            BY RaisedAre, NoLayers, Zenon DEF Sources
        <3>2. found \subseteq Errors!Classes \cup catches
            BY DEF Errors!Classes
        <3>3. Escaping(handler, [source |-> "bare search", around |-> <<>>, optional |-> FALSE])
            BY DEF Escaping
        <3>4. FALSE \in BOOLEAN
            BY Zenon
        <3> HIDE DEF found, catches, handler
        <3> QED BY <3>1, <3>2, <3>3, <3>4, ToldBy, Zenon DEF Errors!Call
    <2>4. \A h \in {handler} : calls \in Seq(ToldCalls(h, catches))
        <3> DEFINE K == ToldCalls(handler, catches)
        <3> HIDE DEF K
        <3>1. calls \in Seq(K)
            BY <2>2, <2>3, ShortLists, Zenon DEF K
        <3> QED BY <3>1, Zenon DEF K
    <2> HIDE DEF catches, calls
    <2>5. \A row \in Errors!On({handler}, calls, catches) : GoodRow(row)
        BY <2>1, <2>4, OnGood, Zenon
    <2> QED BY <1>1, <2>5, EvaluationsTell, EvaluationRows, Zenon
            DEF Errors!Day23EvaluationRoutes, calls, catches
<1>5. \A row \in Errors!Day24Routes : GoodRow(row)
    <2>1. Tells(<<Errors!Call("lookup", <<>>)>>, {"HTTPException"})
        <3>1. {"HTTPException"} \cap Statusless = {}
            BY DEF Statusless, Unheard
        <3>2. \A h : Errors!Call("lookup", <<>>) \in ToldCalls(h, {"HTTPException"})
            BY CaughtCalls, Zenon
        <3> QED BY <3>1, <3>2, ShortLists, Zenon DEF Tells
    <2> QED BY <1>1, <2>1, StatusRows, PipelinesTell, Zenon DEF Errors!Day24Routes
<1>6. \A row \in Errors!Day24EvaluationRoutes : GoodRow(row)
    BY <1>1, EvaluationsTell, EvaluationRows, Zenon DEF Errors!Day24EvaluationRoutes
<1>7. \A row \in Errors!Day24NegativeRoutes : GoodRow(row)
    <2>1. Tells(<<Errors!Questions>>, {"EvaluationError"})
        <3>1. {"EvaluationError"} \cap Statusless = {}
            BY DEF Statusless, Unheard
        <3>2. \A h : Errors!Questions \in ToldCalls(h, {"EvaluationError"})
            BY CaughtCalls, Zenon DEF Errors!Questions
        <3> QED BY <3>1, <3>2, ShortLists, Zenon DEF Tells
    <2> QED BY <1>1, <2>1, EvaluationsTell, Zenon DEF Errors!Day24NegativeRoutes
<1> QED BY <1>2, <1>3, <1>4, <1>5, <1>6, <1>7, Zenon

\* A call with one more layer, as a record.
LEMMA CallWrapped ==
    ASSUME NEW call \in Calling, NEW around
    PROVE  [call EXCEPT !.around = around, !.optional = TRUE]
               = [source |-> call.source, around |-> around, optional |-> TRUE]
<1> DEFINE first == [call EXCEPT !.around = around]
<1>1. first = [source |-> call.source, around |-> around, optional |-> call.optional]
    BY DEF Calling
<1>2. first \in [source : {call.source}, around : {around}, optional : BOOLEAN]
    BY <1>1 DEF Calling
<1> HIDE DEF first
<1> DEFINE last == [first EXCEPT !.optional = TRUE]
<1>3. /\ last \in [source : {call.source}, around : {around}, optional : BOOLEAN]
      /\ last.source = call.source /\ last.around = around
    BY <1>2
<1>4. last.optional = TRUE
    BY <1>2
<1> HIDE DEF last
<1>5. last = [source |-> last.source, around |-> last.around, optional |-> last.optional]
    BY <1>3
<1>6. last = [source |-> call.source, around |-> around, optional |-> TRUE]
    BY <1>3, <1>4, <1>5
<1> QED BY <1>6 DEF first, last

\* A function on the first numbers is a list.
LEMMA ListOf ==
    ASSUME NEW S, NEW n \in Nat, NEW f \in [1 .. n -> S]
    PROVE  f \in Seq(S)
    OBVIOUS

\* One layer around each of several calls.
LEMMA AroundEach ==
    ASSUME NEW S, NEW layer, NEW calls \in Seq(Calling),
           \A call \in Calling : (\E i \in 1 .. Len(calls) : call = calls[i]) =>
              [call EXCEPT !.around = Append(@, layer), !.optional = TRUE] \in S
    PROVE  Errors!Around(layer, calls) \in Seq(S)
<1> DEFINE wrapped(i) == [calls[i] EXCEPT !.around = Append(@, layer), !.optional = TRUE]
           all == Errors!Around(layer, calls)
<1>1. Len(calls) \in Nat /\ DOMAIN calls = 1 .. Len(calls)
    BY LenProperties, Zenon
<1>2. \A i \in 1 .. Len(calls) : calls[i] \in Calling
    BY ElementOfSeq, Zenon
<1>3. ASSUME NEW i \in 1 .. Len(calls)
      PROVE  wrapped(i) \in S
    BY <1>2, Zenon
<1>4. all = [i \in 1 .. Len(calls) |-> wrapped(i)]
    BY <1>1, Zenon DEF Errors!Around
<1> HIDE DEF wrapped, all
<1>5. all \in [1 .. Len(calls) -> S]
    BY <1>3, <1>4, Zenon
<1>6. all \in Seq(S)
    BY <1>1, <1>5, ListOf, Zenon
<1> QED BY <1>6 DEF all

\* A call that is told is one that a scenario absorbs.
LEMMA InScenario ==
    ASSUME NEW handler, NEW catches, catches \subseteq Errors!Classes,
           NEW call \in ToldCalls(handler, catches), NEW other, NEW expected
    PROVE  [call EXCEPT !.around = Append(@, "scenario"), !.optional = TRUE]
               \in ToldCalls(other, expected)
<1> DEFINE wrapped == [call EXCEPT !.around = Append(@, "scenario"), !.optional = TRUE]
           around == Append(call.around, "scenario")
<1>1. call \in Calling /\ Explains(handler, catches, call)
    BY Zenon DEF ToldCalls
<1>2. PICK arrived : /\ Arrives(call.source, call.around, arrived)
                     /\ arrived \subseteq Errors!Classes \cup catches
    BY <1>1, Zenon DEF Explains
<1>3. "scenario" \in Errors!Layers
    BY DEF Errors!Layers
<1>4. \A class \in arrived : class \in Errors!Absorbs("scenario")
    BY <1>2, AbsorbsAre, Zenon
<1>5. Arrives(call.source, around, {})
    BY <1>2, <1>3, <1>4, LayerAbsorbs, Zenon
<1>6. wrapped = [source |-> call.source, around |-> around, optional |-> TRUE]
    BY <1>1, CallWrapped, Zenon
<1> HIDE DEF wrapped, around
<1> DEFINE Nothing == {}
<1>7. /\ Nothing \subseteq Errors!Classes \cup expected /\ Nothing \ Unheard \subseteq expected
      /\ TRUE \in BOOLEAN /\ Arrives(call.source, around, Nothing)
    BY <1>5, Zenon
<1> HIDE DEF Nothing
<1>8. wrapped \in ToldCalls(other, expected)
    BY <1>6, <1>7, ToldBy, Zenon
<1> QED BY <1>8 DEF wrapped

\* The classes a chat and its evaluation know.
LEMMA ChatCatches ==
    LET chatted == Errors!ChatErrors \cup Errors!RagErrors
    IN  /\ {"ChatServiceError", "SessionNotFoundError", "GenerationError", "RagRetrievalError"}
              \subseteq chatted
        /\ chatted \subseteq Errors!Classes /\ chatted \cap Statusless = {}
        /\ Errors!ChatErrors \cap Statusless = {}
        /\ "SessionNotFoundError" \in Errors!ChatErrors
        /\ (Errors!RagErrors \cup {"ScenarioError"}) \cap Statusless = {}
    BY DEF Errors!ChatErrors, Errors!RagErrors, Errors!Classes, Statusless, Unheard

\* What the answer to a message calls, within the chat.
LEMMA ChatAnswers ==
    ASSUME NEW handler
    PROVE  Errors!Around("chat", Errors!Answer)
               \in Seq(ToldCalls(handler, Errors!ChatErrors \cup Errors!RagErrors))
<1> DEFINE chatted == Errors!ChatErrors \cup Errors!RagErrors
           K == ToldCalls(handler, chatted)
<1>1. /\ "ChatServiceError" \in chatted /\ TRUE \in BOOLEAN
      /\ {"ChatServiceError"} \subseteq Errors!Classes
      /\ {"ChatServiceError", "JSONDecodeError"} \subseteq Errors!Classes
      /\ {"ChatServiceError", "HTTPStatusError"} \subseteq Errors!Classes
      /\ {"VectorIndexError"} \subseteq Errors!Classes
      /\ {"ChatServiceError", "JSONDecodeError"} \ Unheard \subseteq chatted
      /\ {"ChatServiceError", "HTTPStatusError"} \ Unheard \subseteq chatted
      /\ {"ChatServiceError"} \ Unheard \subseteq chatted
    BY ChatCatches DEF Errors!Classes, Unheard
<1>2. ASSUME NEW source, NEW around, NEW arrived, Arrives(source, around, arrived),
             arrived \subseteq Errors!Classes,
             \/ arrived \ Unheard \subseteq chatted
             \/ Escaping(handler, [source |-> source, around |-> around, optional |-> TRUE])
      PROVE  [source |-> source, around |-> around, optional |-> TRUE] \in K
    <2>1. arrived \subseteq Errors!Classes \cup chatted /\ TRUE \in BOOLEAN
        BY <1>2, Zenon
    <2> HIDE DEF chatted
    <2> QED BY <1>2, <2>1, ToldBy, Zenon
<1> HIDE DEF chatted, K
<1>3. [source |-> "provider", around |-> <<"chat">>, optional |-> TRUE] \in K
    <2>1. Arrives("provider", <<"chat">>, {"ChatServiceError"})
        BY RetrievalCalls, Zenon
    <2> QED BY <1>1, <1>2, <2>1, Zenon
<1>4. [source |-> "generation", around |-> <<"generation", "rewriter", "chat">>, optional |-> TRUE]
          \in K
    <2> DEFINE Nothing == {}
    <2>1. Arrives("generation", <<"generation", "rewriter", "chat">>, Nothing)
        BY GenerationCalls, Zenon
    <2>2. Nothing \subseteq Errors!Classes /\ Nothing \ Unheard \subseteq chatted
        BY Zenon
    <2> HIDE DEF Nothing
    <2> QED BY <1>2, <2>1, <2>2, Zenon
<1>5. [source |-> "search", around |-> <<"retrieve", "chat">>, optional |-> TRUE] \in K
    <2>1. Arrives("search", <<"retrieve", "chat">>, {"ChatServiceError", "HTTPStatusError"})
        BY RetrievalCalls, Zenon
    <2> QED BY <1>1, <1>2, <2>1, Zenon
<1>6. [source |-> "index", around |-> <<"chat">>, optional |-> TRUE] \in K
    <2>1. Arrives("index", <<"chat">>, {"VectorIndexError"})
        BY RetrievalCalls, Zenon
    <2>2. Escaping(handler, [source |-> "index", around |-> <<"chat">>, optional |-> TRUE])
        BY DEF Escaping
    <2> QED BY <1>1, <1>2, <2>1, <2>2, Zenon
<1>7. [source |-> "index", around |-> <<"retrieve", "chat">>, optional |-> TRUE] \in K
    <2>1. Arrives("index", <<"retrieve", "chat">>, {"ChatServiceError"})
        BY RetrievalCalls, Zenon
    <2> QED BY <1>1, <1>2, <2>1, Zenon
<1>8. [source |-> "generation", around |-> <<"generation", "chat">>, optional |-> TRUE] \in K
    <2>1. Arrives("generation", <<"generation", "chat">>, {"ChatServiceError", "JSONDecodeError"})
        BY GenerationCalls, Zenon
    <2> QED BY <1>1, <1>2, <2>1, Zenon
<1>9. /\ "chat" \in Errors!Layers /\ "generation" \in Errors!Layers
      /\ "rewriter" \in Errors!Layers /\ "retrieve" \in Errors!Layers
    BY DEF Errors!Layers
<1>10. /\ Append(<<>>, "chat") = <<"chat">>
       /\ Append(<<"generation">>, "chat") = <<"generation", "chat">>
       /\ Append(<<"retrieve">>, "chat") = <<"retrieve", "chat">>
       /\ Append(<<"generation", "rewriter">>, "chat") = <<"generation", "rewriter", "chat">>
    BY <1>9, LayersAre, Zenon
<1>11. ASSUME NEW source \in Sources, NEW around \in Seq(Errors!Layers)
       PROVE  /\ Errors!Call(source, around) \in Calling
              /\ [Errors!Call(source, around) EXCEPT !.around = Append(@, "chat"),
                                                     !.optional = TRUE]
                    = [source |-> source, around |-> Append(around, "chat"), optional |-> TRUE]
    <2>1. /\ Errors!Call(source, around) \in Calling
          /\ Errors!Call(source, around).source = source
          /\ Errors!Call(source, around).around = around
        BY DEF Errors!Call, Calling
    <2> QED BY <2>1, CallWrapped, Zenon
<1> DEFINE wrap(call) == [call EXCEPT !.around = Append(@, "chat"), !.optional = TRUE]
<1>12. /\ "provider" \in Sources /\ "generation" \in Sources /\ "search" \in Sources
       /\ "index" \in Sources
       /\ {<<>>, <<"retrieve">>, <<"generation">>, <<"generation", "rewriter">>}
             \subseteq Seq(Errors!Layers)
    BY <1>9, LayersAre, Zenon DEF Sources
<1>13. /\ wrap(Errors!Provider) \in K /\ Errors!Provider \in Calling
       /\ wrap(Errors!Rewrite) \in K /\ Errors!Rewrite \in Calling
       /\ wrap(Errors!Retrieve) \in K /\ Errors!Retrieve \in Calling
       /\ wrap(Errors!Call("index", <<>>)) \in K /\ Errors!Call("index", <<>>) \in Calling
       /\ wrap(Errors!Stats) \in K /\ Errors!Stats \in Calling
       /\ wrap(Errors!Generate) \in K /\ Errors!Generate \in Calling
    <2>1. wrap(Errors!Provider) \in K /\ Errors!Provider \in Calling
        <3>1. /\ Errors!Call("provider", <<>>) \in Calling
              /\ wrap(Errors!Call("provider", <<>>))
                    = [source |-> "provider", around |-> Append(<<>>, "chat"), optional |-> TRUE]
            BY <1>11, <1>12, Zenon
        <3> HIDE DEF wrap
        <3> QED BY <1>3, <1>10, <3>1, Zenon DEF Errors!Provider
    <2>2. wrap(Errors!Rewrite) \in K /\ Errors!Rewrite \in Calling
        <3>1. /\ Errors!Call("generation", <<"generation", "rewriter">>) \in Calling
              /\ wrap(Errors!Call("generation", <<"generation", "rewriter">>))
                    = [source |-> "generation",
                        around |-> Append(<<"generation", "rewriter">>, "chat"),
                       optional |-> TRUE]
            BY <1>11, <1>12, Zenon
        <3> HIDE DEF wrap
        <3> QED BY <1>4, <1>10, <3>1, Zenon DEF Errors!Rewrite
    <2>3. wrap(Errors!Retrieve) \in K /\ Errors!Retrieve \in Calling
        <3>1. /\ Errors!Call("search", <<"retrieve">>) \in Calling
              /\ wrap(Errors!Call("search", <<"retrieve">>))
                    = [source |-> "search", around |-> Append(<<"retrieve">>, "chat"),
                       optional |-> TRUE]
            BY <1>11, <1>12, Zenon
        <3> HIDE DEF wrap
        <3> QED BY <1>5, <1>10, <3>1, Zenon DEF Errors!Retrieve
    <2>4. wrap(Errors!Call("index", <<>>)) \in K /\ Errors!Call("index", <<>>) \in Calling
        <3>1. /\ Errors!Call("index", <<>>) \in Calling
              /\ wrap(Errors!Call("index", <<>>))
                    = [source |-> "index", around |-> Append(<<>>, "chat"), optional |-> TRUE]
            BY <1>11, <1>12, Zenon
        <3> HIDE DEF wrap
        <3> QED BY <1>6, <1>10, <3>1, Zenon
    <2>5. wrap(Errors!Stats) \in K /\ Errors!Stats \in Calling
        <3>1. /\ Errors!Call("index", <<"retrieve">>) \in Calling
              /\ wrap(Errors!Call("index", <<"retrieve">>))
                    = [source |-> "index", around |-> Append(<<"retrieve">>, "chat"),
                       optional |-> TRUE]
            BY <1>11, <1>12, Zenon
        <3> HIDE DEF wrap
        <3> QED BY <1>7, <1>10, <3>1, Zenon DEF Errors!Stats
    <2>6. wrap(Errors!Generate) \in K /\ Errors!Generate \in Calling
        <3>1. /\ Errors!Call("generation", <<"generation">>) \in Calling
              /\ wrap(Errors!Call("generation", <<"generation">>))
                    = [source |-> "generation", around |-> Append(<<"generation">>, "chat"),
                       optional |-> TRUE]
            BY <1>11, <1>12, Zenon
        <3> HIDE DEF wrap
        <3> QED BY <1>8, <1>10, <3>1, Zenon DEF Errors!Generate
    <2> HIDE DEF wrap
    <2> QED BY <2>1, <2>2, <2>3, <2>4, <2>5, <2>6, Zenon
<1>14. Errors!Answer \in Seq(Calling)
    BY <1>13, ShortLists, Zenon DEF Errors!Answer
<1>15. ASSUME NEW i \in 1 .. Len(Errors!Answer)
       PROVE  wrap(Errors!Answer[i]) \in K
    <2> HIDE DEF wrap
    <2>1. Len(Errors!Answer) = 7
        BY DEF Errors!Answer
    <2>2. /\ Errors!Answer[1] = Errors!Provider /\ Errors!Answer[2] = Errors!Rewrite
          /\ Errors!Answer[3] = Errors!Retrieve /\ Errors!Answer[4] = Errors!Retrieve
          /\ Errors!Answer[5] = Errors!Call("index", <<>>) /\ Errors!Answer[6] = Errors!Stats
          /\ Errors!Answer[7] = Errors!Generate
        BY DEF Errors!Answer
    <2>3. i \in {1, 2, 3, 4, 5, 6, 7}
        BY <2>1
    <2> QED BY <1>13, <2>2, <2>3, Zenon
<1>16. \A call \in Calling : (\E i \in 1 .. Len(Errors!Answer) : call = Errors!Answer[i]) =>
          wrap(call) \in K
    <2> HIDE DEF wrap
    <2> QED BY <1>15, Zenon
<1>17. Errors!Around("chat", Errors!Answer) \in Seq(K)
    BY <1>14, <1>16, AroundEach, Zenon
<1> QED BY <1>17, Zenon DEF K, chatted

\* What a message calls.
LEMMA ChatSends ==
    ASSUME NEW handler
    PROVE  Errors!SendMessage \in Seq(ToldCalls(handler, Errors!ChatErrors \cup Errors!RagErrors))
<1> DEFINE chatted == Errors!ChatErrors \cup Errors!RagErrors
           K == ToldCalls(handler, chatted)
<1>1. "SessionNotFoundError" \in chatted
    BY ChatCatches, Zenon
<1> HIDE DEF chatted
<1>2. Errors!Session \in K /\ Errors!Storage \in K
    BY <1>1, CaughtCalls, Zenon DEF Errors!Session, Errors!Storage
<1>3. Errors!Maybe(Errors!Call("generation", <<"generation", "updater">>)) \in K
    BY LayeredCalls, MaybeTold, Zenon
<1>4. Errors!Around("chat", Errors!Answer) \in Seq(K)
    BY ChatAnswers, Zenon DEF chatted
<1> HIDE DEF K
<1>5. /\ <<Errors!Session, Errors!Storage,
           Errors!Maybe(Errors!Call("generation", <<"generation", "updater">>))>> \in Seq(K)
      /\ <<Errors!Storage>> \in Seq(K)
    BY <1>2, <1>3, ShortLists, Zenon
<1>6. Errors!SendMessage \in Seq(K)
    BY <1>4, <1>5, ShortLists, Zenon DEF Errors!SendMessage
<1> QED BY <1>6, Zenon DEF K, chatted

\* The handlers of Day 25.
LEMMA ChatRows ==
    /\ \A row \in Errors!Day25Routes : GoodRow(row)
    /\ \A row \in Errors!XpanderRoutes : GoodRow(row)
<1>1. \A calls, catches : Tells(calls, catches) =>
         \A handlers : \A row \in Errors!On(handlers, calls, catches) : GoodRow(row)
    BY TellsGood, Zenon
<1>2. Tells(Errors!SendMessage, Errors!ChatErrors \cup Errors!RagErrors)
    BY ChatSends, ChatCatches, Zenon DEF Tells
<1>3. Tells(<<Errors!Storage>>, {})
    BY CaughtCalls, ShortLists, Zenon DEF Tells, Errors!Storage
<1>4. Tells(<<Errors!Session, Errors!Storage>>, Errors!ChatErrors)
    <2>1. \A h : /\ Errors!Session \in ToldCalls(h, Errors!ChatErrors)
                 /\ Errors!Storage \in ToldCalls(h, Errors!ChatErrors)
        BY ChatCatches, CaughtCalls, Zenon DEF Errors!Session, Errors!Storage
    <2> QED BY <2>1, ChatCatches, ShortLists, Zenon DEF Tells
<1>5. ASSUME NEW handler \in {"day25_status", "xpander_status"}, NEW send, NEW sessions, NEW read
      PROVE  \A row \in Errors!ChatRoutes(handler, send, sessions, read) : GoodRow(row)
    <2>1. \A row \in Errors!On({handler}, Errors!Status, {}) : GoodRow(row)
        BY StatusRows, Zenon
    <2> QED BY <1>1, <1>2, <1>3, <1>4, <2>1, Zenon DEF Errors!ChatRoutes
<1> QED BY <1>5, Zenon DEF Errors!Day25Routes, Errors!XpanderRoutes

\* The scenarios record the errors of their turns.
LEMMA ScenarioRows == \A row \in Errors!Day25EvaluationRoutes : GoodRow(row)
<1> DEFINE chatted == Errors!ChatErrors \cup Errors!RagErrors
           catches == Errors!RagErrors \cup {"ScenarioError"}
           handler == "day25_evaluation_run"
           K == ToldCalls(handler, catches)
           calls == <<Errors!Call("scenarios", <<>>), Errors!Storage>>
                        \o Errors!Around("scenario", Errors!SendMessage) \o <<Errors!Session>>
<1>1. chatted \subseteq Errors!Classes /\ catches \cap Statusless = {}
    BY ChatCatches, Zenon
<1>2. Errors!SendMessage \in Seq(ToldCalls(handler, chatted))
    BY ChatSends, Zenon
<1>3. Errors!Around("scenario", Errors!SendMessage) \in Seq(K)
    <2> HIDE DEF chatted, catches
    <2>1. \A call \in ToldCalls(handler, chatted) :
             [call EXCEPT !.around = Append(@, "scenario"), !.optional = TRUE] \in K
        BY <1>1, InScenario, Zenon
    <2>2. /\ ToldCalls(handler, chatted) \subseteq Calling
          /\ \A i \in 1 .. Len(Errors!SendMessage) :
                Errors!SendMessage[i] \in ToldCalls(handler, chatted)
        BY <1>2, ElementOfSeq, Zenon DEF ToldCalls
    <2>3. Errors!SendMessage \in Seq(Calling)
        BY <1>2, <2>2, SeqMonotonic, Zenon
    <2>4. \A call \in Calling :
             (\E i \in 1 .. Len(Errors!SendMessage) : call = Errors!SendMessage[i]) =>
                [call EXCEPT !.around = Append(@, "scenario"), !.optional = TRUE] \in K
        BY <2>1, <2>2, Zenon
    <2> HIDE DEF K
    <2> QED BY <2>3, <2>4, AroundEach, Zenon
<1>4. Errors!Call("scenarios", <<>>) \in K /\ Errors!Storage \in K
    BY CaughtCalls, Zenon DEF Errors!Storage
<1>5. Errors!Session \in K
    <2> DEFINE gone == {"SessionNotFoundError"}
               call == [source |-> "session", around |-> <<>>, optional |-> FALSE]
    <2>1. Arrives("session", <<>>, gone)
        BY RaisedAre, NoLayers, Zenon DEF Sources
    <2>2. gone \subseteq Errors!Classes \cup catches
        BY DEF Errors!Classes
    <2>3. Escaping(handler, call)
        BY DEF Escaping
    <2>4. FALSE \in BOOLEAN
        BY Zenon
    <2> HIDE DEF gone, catches, handler
    <2>5. call \in K
        BY <2>1, <2>2, <2>3, <2>4, ToldBy, Zenon
    <2> QED BY <2>5, Zenon DEF Errors!Session, Errors!Call
<1>6. calls \in Seq(K)
    <2> HIDE DEF K
    <2>1. /\ <<Errors!Call("scenarios", <<>>), Errors!Storage>> \in Seq(K)
          /\ <<Errors!Session>> \in Seq(K)
        BY <1>4, <1>5, ShortLists, Zenon
    <2>2. \A s, u \in Seq(K) : s \o u \in Seq(K)
        BY ShortLists, Zenon
    <2> QED BY <1>3, <2>1, <2>2, Zenon
<1>7. \A row \in Errors!On({handler}, calls, catches) : GoodRow(row)
    <2>1. \A h \in {handler} : calls \in Seq(ToldCalls(h, catches))
        <3> HIDE DEF calls, catches
        <3> QED BY <1>6, Zenon
    <2> HIDE DEF calls, catches, K
    <2> QED BY <1>1, <2>1, OnGood, Zenon
<1>8. \A handlers : \A row \in Errors!On(handlers, <<Errors!Call("scenarios", <<>>)>>,
                                                {"ScenarioError"}) : GoodRow(row)
    <2>1. {"ScenarioError"} \cap Statusless = {}
        BY DEF Statusless, Unheard
    <2>2. \A h : Errors!Call("scenarios", <<>>) \in ToldCalls(h, {"ScenarioError"})
        BY CaughtCalls, Zenon
    <2>3. Tells(<<Errors!Call("scenarios", <<>>)>>, {"ScenarioError"})
        BY <2>1, <2>2, ShortLists, Zenon DEF Tells
    <2> QED BY <2>3, TellsGood, Zenon
<1> QED BY <1>7, <1>8, NoCalls, Zenon DEF Errors!Day25EvaluationRoutes

\* All handlers.
LEMMA TableIsGood == \A row \in Errors!Table : GoodRow(row)
    BY AgentRows, DialogRows, ToolRows, PipelineRows, ChatRows, ScenarioRows, Zenon
    DEF Errors!Table

LEMMA RouteIsGood ==
    ASSUME NEW h \in Errors!Handlers
    PROVE  /\ Errors!Routes[h].calls \in Seq(ToldCalls(h, Errors!Routes[h].catches))
           /\ Errors!Routes[h].catches \cap Statusless = {}
<1>1. \E row \in Errors!Table : row.handler = h
    BY Zenon DEF Errors!Handlers
<1>2. Errors!Routes[h] \in Errors!Table /\ Errors!Routes[h].handler = h
    BY <1>1, Zenon DEF Errors!Routes
<1> QED BY <1>2, TableIsGood, Zenon DEF GoodRow

----------------------------------------------------------------------------
(* The way of one request.                                                  *)

\* Class c may be behind the first k layers of a call.
Behind(call, k, class) ==
    \A reach : Flow(call.source, call.around, reach) => class \in reach[k]

\* An exception under way is kin of its cause and behind the layers it has passed.
Rising ==
    exception # Errors!NoExc =>
        /\ at \in 1 .. Len(Errors!Calls)
        /\ cause \in Errors!Raises(Errors!Calls[at].source)
        /\ Kin(cause, exception)
        /\ \E k \in 0 .. Len(Errors!Calls[at].around) :
              /\ layers = SubSeq(Errors!Calls[at].around, k + 1, Len(Errors!Calls[at].around))
              /\ Behind(Errors!Calls[at], k, exception.class)

\* An answer says how the request ended.
Answered ==
    \/ response = Errors!NoResponse
    \/ response = [status |-> 200, text |-> "body"]
    \/ /\ exception # Errors!NoExc /\ layers = <<>>
       /\ IF exception.class \in Errors!Routes[endpoint].catches
          THEN response = [status |-> exception.status, text |-> "error"]
          ELSE response = [status |-> 500, text |-> "generic"]

Exceptions == Errors!Exception \cup {Errors!NoExc}

ErrorInv ==
    /\ endpoint \in Errors!Handlers
    /\ at \in 1 .. Len(Errors!Calls) + 1
    /\ layers \in Seq(Errors!Layers)
    /\ cause \in Exceptions /\ exception \in Exceptions
    /\ Rising /\ Answered

\* What the table says of the request's calls.
LEMMA CallsAreTold ==
    ASSUME endpoint \in Errors!Handlers
    PROVE  /\ Errors!Calls \in Seq(ToldCalls(endpoint, Errors!Routes[endpoint].catches))
           /\ Len(Errors!Calls) \in Nat
           /\ \A i \in 1 .. Len(Errors!Calls) :
                 /\ Errors!Calls[i] \in ToldCalls(endpoint, Errors!Routes[endpoint].catches)
                 /\ Errors!Calls[i] \in Calling
                 /\ Errors!Calls[i].source \in Sources
                 /\ Errors!Calls[i].around \in Seq(Errors!Layers)
                 /\ Len(Errors!Calls[i].around) \in Nat
<1> DEFINE K == ToldCalls(endpoint, Errors!Routes[endpoint].catches)
<1>1. Errors!Calls \in Seq(K)
    BY RouteIsGood, Zenon DEF Errors!Calls
<1>2. K \subseteq Calling
    BY Zenon DEF ToldCalls
<1> HIDE DEF K
<1>3. Len(Errors!Calls) \in Nat /\ \A i \in 1 .. Len(Errors!Calls) : Errors!Calls[i] \in K
    BY <1>1, LenProperties, ElementOfSeq, Zenon
<1>4. \A call \in Calling : /\ call.source \in Sources /\ call.around \in Seq(Errors!Layers)
                            /\ Len(call.around) \in Nat
    BY LenProperties DEF Calling
<1> QED BY <1>1, <1>2, <1>3, <1>4, Zenon DEF K

LEMMA ErrorsStart == Errors!Init => ErrorInv
<1> SUFFICES ASSUME Errors!Init PROVE ErrorInv
    OBVIOUS
<1> USE DEF Errors!Init
<1>1. Len(Errors!Calls) \in Nat
    BY CallsAreTold
<1>2. at \in 1 .. Len(Errors!Calls) + 1 /\ layers \in Seq(Errors!Layers)
    BY <1>1
<1>3. cause \in Exceptions /\ exception \in Exceptions /\ Rising /\ Answered
    BY Zenon DEF Exceptions, Rising, Answered
<1> QED BY <1>2, <1>3, Zenon DEF ErrorInv

\* What stays where neither the call nor the exception changes.
LEMMA CallsStay ==
    ASSUME UNCHANGED endpoint
    PROVE  Errors!Calls' = Errors!Calls /\ Errors!Routes' = Errors!Routes
    BY Zenon DEF Errors!Calls, Errors!Routes, Errors!Handlers, Errors!Table

LEMMA ErrorsFail == ErrorInv /\ Errors!Fail => ErrorInv'
<1> SUFFICES ASSUME ErrorInv, Errors!Fail PROVE ErrorInv'
    OBVIOUS
<1>1. /\ at \in 1 .. Len(Errors!Calls) + 1 /\ endpoint \in Errors!Handlers
      /\ at <= Len(Errors!Calls)
      /\ UNCHANGED <<endpoint, at, response>> /\ response = Errors!NoResponse
      /\ layers' = Errors!Calls[at].around
    BY Zenon DEF ErrorInv, Errors!Fail, Errors!Running
<1>2. Errors!Calls' = Errors!Calls
    BY <1>1, CallsStay, Zenon
<1>3. at \in 1 .. Len(Errors!Calls)
    BY <1>1, CallsAreTold
<1>4. PICK e \in Errors!Raises(Errors!Calls[at].source) : cause' = e /\ exception' = e
    BY Zenon DEF Errors!Fail
<1> DEFINE call == Errors!Calls[at]
<1>5. /\ call.source \in Sources /\ call.around \in Seq(Errors!Layers) /\ Len(call.around) \in Nat
    BY <1>1, <1>3, CallsAreTold, Zenon
<1>6. Kin(e, e) /\ e \in Errors!Exception
    BY <1>4, <1>5, CauseIsKin, RaisedFits, Zenon DEF Kin
<1>7. call.around = SubSeq(call.around, 0 + 1, Len(call.around))
    BY <1>5, SubSeqFull
<1>8. Behind(call, 0, e.class)
    BY <1>4, Zenon DEF Behind, Flow
<1>9. 0 \in 0 .. Len(call.around)
    BY <1>5
<1>10. Rising'
    <2>1. /\ at' \in 1 .. Len(Errors!Calls') /\ Kin(cause', exception')
          /\ cause' \in Errors!Raises(Errors!Calls'[at'].source)
        BY <1>1, <1>2, <1>3, <1>4, <1>6, Zenon
    <2>2. /\ layers' = SubSeq(Errors!Calls'[at'].around, 0 + 1, Len(Errors!Calls'[at'].around))
          /\ Behind(Errors!Calls'[at'], 0, exception'.class)
          /\ 0 \in 0 .. Len(Errors!Calls'[at'].around)
        BY <1>1, <1>2, <1>4, <1>7, <1>8, <1>9, Zenon
    <2> QED BY <2>1, <2>2, Zenon DEF Rising
<1>11. Answered'
    BY <1>1, Zenon DEF Answered
<1>12. /\ cause' \in Exceptions /\ exception' \in Exceptions /\ layers' \in Seq(Errors!Layers)
    BY <1>1, <1>4, <1>5, <1>6, Zenon DEF Exceptions
<1> QED BY <1>1, <1>2, <1>10, <1>11, <1>12, Zenon DEF ErrorInv

\* The layers that are left, one by one.
LEMMA LayersLeft ==
    ASSUME NEW around \in Seq(Errors!Layers), NEW k \in 0 .. Len(around)
    PROVE  /\ SubSeq(around, k + 1, Len(around)) = <<>> => k = Len(around)
           /\ SubSeq(around, k + 1, Len(around)) # <<>> =>
                 /\ k + 1 \in 1 .. Len(around) /\ (k + 1) - 1 = k
                 /\ Head(SubSeq(around, k + 1, Len(around))) = around[k + 1]
                 /\ Tail(SubSeq(around, k + 1, Len(around)))
                       = SubSeq(around, (k + 1) + 1, Len(around))
<1> DEFINE n == Len(around)
<1>1. n \in Nat
    BY LenProperties
<1>2. CASE k = n
    <2>1. SubSeq(around, k + 1, n) = <<>>
        BY <1>1, <1>2, SubSeqEmpty
    <2> QED BY <1>2, <2>1
<1>3. CASE k # n
    <2>1. k + 1 \in 1 .. n /\ n \in k + 1 .. n /\ (k + 1) - 1 = k
        BY <1>1, <1>3
    <2>2. /\ Head(SubSeq(around, k + 1, n)) = around[k + 1]
          /\ Tail(SubSeq(around, k + 1, n)) = SubSeq(around, (k + 1) + 1, n)
        BY <2>1, HeadTailOfSubSeq
    <2>3. SubSeq(around, k + 1, n) # <<>>
        <3>1. \A i \in k + 1 .. n : around[i] \in Errors!Layers
            BY ElementOfSeq
        <3>2. Len(SubSeq(around, k + 1, n)) = n - (k + 1) + 1
            BY <2>1, <3>1, SubSeqProperties
        <3>3. n - (k + 1) + 1 # 0
            BY <1>1, <2>1
        <3>4. Len(<<>>) = 0
            BY EmptySeq
        <3> QED BY <3>2, <3>3, <3>4, Zenon
    <2> QED BY <2>1, <2>2, <2>3
<1> QED BY <1>2, <1>3

\* An exception that a layer lets through is behind it.
LEMMA OneLayerFurther ==
    ASSUME NEW call, NEW k, k + 1 \in 1 .. Len(call.around), (k + 1) - 1 = k, NEW class,
           Behind(call, k, class), class \notin Errors!Absorbs(call.around[k + 1])
    PROVE  Behind(call, k + 1, ClassAfter(call.around[k + 1], class))
    BY Zenon DEF Behind, Flow

LEMMA ErrorsRise == ErrorInv /\ Errors!Rise => ErrorInv'
<1> SUFFICES ASSUME ErrorInv, Errors!Rise PROVE ErrorInv'
    OBVIOUS
<1> DEFINE call == Errors!Calls[at]
           around == Errors!Calls[at].around
           layer == Head(layers)
<1>1. /\ endpoint \in Errors!Handlers /\ Rising /\ Answered
      /\ exception # Errors!NoExc /\ layers # <<>>
      /\ cause \in Exceptions /\ exception \in Exceptions /\ layers \in Seq(Errors!Layers)
      /\ UNCHANGED <<endpoint, cause, response>>
    BY Zenon DEF ErrorInv, Errors!Rise
<1>2. Errors!Calls' = Errors!Calls
    BY <1>1, CallsStay, Zenon
<1>3. /\ at \in 1 .. Len(Errors!Calls) /\ cause \in Errors!Raises(call.source)
      /\ Kin(cause, exception)
    BY <1>1, Zenon DEF Rising
<1>4. PICK k \in 0 .. Len(around) : /\ layers = SubSeq(around, k + 1, Len(around))
                                    /\ Behind(call, k, exception.class)
    BY <1>1, Zenon DEF Rising
<1>5. around \in Seq(Errors!Layers) /\ Len(Errors!Calls) \in Nat
    BY <1>1, <1>3, CallsAreTold, Zenon
<1>6. /\ k + 1 \in 1 .. Len(around) /\ (k + 1) - 1 = k /\ layer = around[k + 1]
      /\ Tail(layers) = SubSeq(around, (k + 1) + 1, Len(around))
    BY <1>1, <1>4, <1>5, LayersLeft, Zenon
<1>7. \/ response' = Errors!NoResponse
      \/ response' = [status |-> 200, text |-> "body"]
    BY <1>1, Zenon DEF Answered
<1>8. CASE exception.class \in Errors!Absorbs(layer)
    <2>1. exception' = Errors!NoExc /\ layers' = <<>> /\ at' = at + 1
        BY <1>8, Zenon DEF Errors!Rise
    <2>2. at' \in 1 .. Len(Errors!Calls) + 1 /\ layers' \in Seq(Errors!Layers)
        BY <1>3, <1>5, <2>1
    <2>3. Rising' /\ Answered'
        BY <1>7, <2>1, Zenon DEF Rising, Answered
    <2>4. exception' \in Exceptions
        BY <2>1, Zenon DEF Exceptions
    <2> QED BY <1>1, <1>2, <2>2, <2>3, <2>4, Zenon DEF ErrorInv
<1>9. CASE exception.class \notin Errors!Absorbs(layer)
    <2>1. /\ exception' = Errors!Translate(layer, exception)
          /\ layers' = Tail(layers) /\ at' = at
        BY <1>9, Zenon DEF Errors!Rise
    <2>2. Kin(cause, exception') /\ exception'.class = ClassAfter(layer, exception.class)
        BY <1>3, <2>1, LayerKeepsKin, Zenon
    <2>3. Behind(call, k + 1, exception'.class)
        BY <1>4, <1>6, <1>9, <2>2, OneLayerFurther, Zenon
    <2>4. k + 1 \in 0 .. Len(around)
        BY <1>6
    <2>5. layers' = SubSeq(around, (k + 1) + 1, Len(around))
        BY <1>6, <2>1, Zenon
    <2>6. Rising'
        <3>1. /\ at' \in 1 .. Len(Errors!Calls') /\ Kin(cause', exception')
              /\ cause' \in Errors!Raises(Errors!Calls'[at'].source)
            BY <1>1, <1>2, <1>3, <2>1, <2>2, Zenon
        <3>2. /\ layers' = SubSeq(Errors!Calls'[at'].around, (k + 1) + 1,
                                  Len(Errors!Calls'[at'].around))
              /\ Behind(Errors!Calls'[at'], k + 1, exception'.class)
              /\ k + 1 \in 0 .. Len(Errors!Calls'[at'].around)
            BY <1>2, <2>1, <2>3, <2>4, <2>5, Zenon
        <3> QED BY <3>1, <3>2, Zenon DEF Rising
    <2>7. Answered'
        BY <1>7, Zenon DEF Answered
    <2>8. exception' \in Exceptions
        BY <2>2, Zenon DEF Kin, Exceptions
    <2>9. layers' \in Seq(Errors!Layers)
        BY <1>1, <2>1, HeadTailProperties, Zenon
    <2>10. at' \in 1 .. Len(Errors!Calls) + 1
        BY <1>3, <1>5, <2>1
    <2> QED BY <1>1, <1>2, <2>6, <2>7, <2>8, <2>9, <2>10, Zenon DEF ErrorInv
<1> QED BY <1>8, <1>9

LEMMA ErrorsGoOn ==
    ErrorInv /\ (Errors!Succeed \/ Errors!Skip \/ Errors!Respond) => ErrorInv'
<1> SUFFICES ASSUME ErrorInv, Errors!Succeed \/ Errors!Skip \/ Errors!Respond
             PROVE  ErrorInv'
    OBVIOUS
<1>1. /\ endpoint \in Errors!Handlers /\ at \in 1 .. Len(Errors!Calls) + 1
      /\ layers \in Seq(Errors!Layers) /\ cause \in Exceptions /\ exception \in Exceptions
      /\ exception = Errors!NoExc /\ response = Errors!NoResponse
      /\ UNCHANGED <<endpoint, layers, cause, exception>>
      /\ \/ at' = at /\ response' = [status |-> 200, text |-> "body"]
         \/ at <= Len(Errors!Calls) /\ at' = at + 1 /\ response' = response
    BY Zenon DEF ErrorInv, Errors!Succeed, Errors!Skip, Errors!Respond, Errors!Running
<1>2. Errors!Calls' = Errors!Calls
    BY <1>1, CallsStay, Zenon
<1>3. Len(Errors!Calls) \in Nat
    BY <1>1, CallsAreTold, Zenon
<1>4. at' \in 1 .. Len(Errors!Calls') + 1
    BY <1>1, <1>2, <1>3
<1>5. Rising' /\ Answered'
    BY <1>1, Zenon DEF Rising, Answered
<1> QED BY <1>1, <1>4, <1>5, Zenon DEF ErrorInv

LEMMA ErrorsAnswer == ErrorInv /\ (Errors!Caught \/ Errors!Unhandled) => ErrorInv'
<1> SUFFICES ASSUME ErrorInv, Errors!Caught \/ Errors!Unhandled PROVE ErrorInv'
    OBVIOUS
<1>1. /\ UNCHANGED <<endpoint, at, layers, cause, exception>>
      /\ exception # Errors!NoExc /\ layers = <<>>
      /\ IF exception.class \in Errors!Routes[endpoint].catches
         THEN response' = [status |-> exception.status, text |-> "error"]
         ELSE response' = [status |-> 500, text |-> "generic"]
    BY Zenon DEF Errors!Caught, Errors!Unhandled
<1>2. Errors!Calls' = Errors!Calls /\ Errors!Routes' = Errors!Routes
    BY <1>1, CallsStay, Zenon
<1>3. Answered'
    BY <1>1, <1>2, Zenon DEF Answered
<1>4. Rising'
    BY <1>1, <1>2, Zenon DEF ErrorInv, Rising
<1> QED BY <1>1, <1>2, <1>3, <1>4, Zenon DEF ErrorInv

LEMMA ErrorsStay == ErrorInv /\ UNCHANGED errorVars => ErrorInv'
<1> SUFFICES ASSUME ErrorInv, UNCHANGED errorVars PROVE ErrorInv'
    OBVIOUS
<1>1. UNCHANGED <<endpoint, at, layers, cause, exception, response>>
    BY Zenon DEF errorVars
<1>2. Errors!Calls' = Errors!Calls /\ Errors!Routes' = Errors!Routes
    BY <1>1, CallsStay, Zenon
<1> QED BY <1>1, <1>2, Zenon DEF ErrorInv, Rising, Answered

\* Wherever the exception began and whatever it became on its way.
LEMMA ErrorsExplained ==
    ErrorInv => Errors!FailureIsExplained /\ Errors!SideCallsAreHarmless
<1> SUFFICES ASSUME ErrorInv, response.status # 200
             PROVE  /\ ~Errors!Escapes => /\ response.text = "error"
                                          /\ response.status = IF cause.status = Errors!NoStatus
                                                               THEN 503 ELSE cause.status
                    /\ \A i \in DOMAIN Errors!Calls[at].around :
                          Errors!Absorbs(Errors!Calls[at].around[i]) = {}
    BY Zenon DEF Errors!FailureIsExplained, Errors!SideCallsAreHarmless
<1> DEFINE call == Errors!Calls[at]
           around == Errors!Calls[at].around
           catches == Errors!Routes[endpoint].catches
<1>1. endpoint \in Errors!Handlers /\ Rising /\ Answered
    BY Zenon DEF ErrorInv
<1>2. response # Errors!NoResponse /\ response # [status |-> 200, text |-> "body"]
    BY DEF Errors!NoResponse
<1>3. /\ exception # Errors!NoExc /\ layers = <<>>
      /\ IF exception.class \in catches
         THEN response = [status |-> exception.status, text |-> "error"]
         ELSE response = [status |-> 500, text |-> "generic"]
    BY <1>1, <1>2, Zenon DEF Answered
<1>4. /\ at \in 1 .. Len(Errors!Calls) /\ Kin(cause, exception)
      /\ cause \in Errors!Raises(call.source)
    BY <1>1, <1>3, Zenon DEF Rising
<1>5. PICK k \in 0 .. Len(around) : /\ layers = SubSeq(around, k + 1, Len(around))
                                    /\ Behind(call, k, exception.class)
    BY <1>1, <1>3, Zenon DEF Rising
<1>6. around \in Seq(Errors!Layers) /\ call \in ToldCalls(endpoint, catches)
    BY <1>1, <1>4, CallsAreTold, Zenon
<1>7. k = Len(around) /\ DOMAIN around = 1 .. Len(around)
    BY <1>3, <1>5, <1>6, LayersLeft, LenProperties, Zenon
<1>8. PICK arrived : /\ Arrives(call.source, around, arrived)
                     /\ Escaping(endpoint, call) \/ arrived \ Unheard \subseteq catches
    BY <1>6, Zenon DEF ToldCalls, Explains
<1>9. exception.class \in arrived
    BY <1>5, <1>7, <1>8, Zenon DEF Arrives, Behind
<1>10. \A i \in DOMAIN around : Errors!Absorbs(around[i]) = {}
    BY <1>7, <1>8, <1>9, Zenon DEF Arrives
<1>11. ASSUME ~Errors!Escapes
       PROVE  /\ response.text = "error"
              /\ response.status = IF cause.status = Errors!NoStatus THEN 503 ELSE cause.status
    <2>1. cause.class \notin Unheard /\ ~Escaping(endpoint, call)
        BY <1>11, Zenon DEF Errors!Escapes, Escaping, Unheard
    <2>2. exception.class \notin Unheard
        BY <1>4, <2>1, Zenon DEF Kin
    <2>3. exception.class \in catches
        BY <1>8, <1>9, <2>1, <2>2, Zenon
    <2>4. exception.class \notin Statusless
        BY <1>1, <2>3, RouteIsGood, Zenon
    <2>5. response.text = "error" /\ response.status = exception.status
        BY <1>3, <2>3
    <2>6. exception.status # 0
        BY <1>4, <2>4, Zenon DEF Kin
    <2>7. \/ exception.status = cause.status
          \/ cause.status = 0 /\ exception.status = 503
        BY <1>4 DEF Kin
    <2> QED BY <2>5, <2>6, <2>7 DEF Errors!NoStatus
<1> QED BY <1>10, <1>11, Zenon

\* The variables of a request have their types.
LEMMA ErrorsTyped == ErrorInv => Errors!TypeOK
<1> SUFFICES ASSUME ErrorInv PROVE Errors!TypeOK
    OBVIOUS
<1>1. /\ endpoint \in Errors!Handlers /\ at \in 1 .. Len(Errors!Calls) + 1
      /\ layers \in Seq(Errors!Layers) /\ cause \in Exceptions /\ exception \in Exceptions
      /\ Rising /\ Answered
    BY Zenon DEF ErrorInv
<1>5. response \in Errors!Responses
    <2>1. CASE response = Errors!NoResponse
        BY <2>1 DEF Errors!NoResponse, Errors!Responses
    <2>2. CASE response = [status |-> 200, text |-> "body"]
        BY <2>2 DEF Errors!Responses
    <2>3. CASE response = [status |-> 500, text |-> "generic"]
        BY <2>3 DEF Errors!Responses
    <2>4. CASE /\ exception # Errors!NoExc
               /\ exception.class \in Errors!Routes[endpoint].catches
               /\ response = [status |-> exception.status, text |-> "error"]
        <3>1. Kin(cause, exception)
            BY <1>1, <2>4, Zenon DEF Rising
        <3>2. exception.class \notin Statusless
            BY <1>1, <2>4, RouteIsGood, Zenon
        <3>3. exception.status \in 400 .. 504
            BY <3>1, <3>2 DEF Kin, Errors!Exception, Errors!NoStatus
        <3> QED BY <2>4, <3>3 DEF Errors!Responses
    <2> QED BY <1>1, <2>1, <2>2, <2>3, <2>4, Zenon DEF Answered
<1> QED BY <1>1, <1>5, Zenon DEF Errors!TypeOK, Exceptions

LEMMA ErrorsNext == ErrorInv /\ [Next]_vars => ErrorInv'
<1> SUFFICES ASSUME ErrorInv, [Next]_vars PROVE ErrorInv'
    OBVIOUS
<1>1. CASE Errors!Next
    BY <1>1, ErrorsFail, ErrorsRise, ErrorsGoOn, ErrorsAnswer, Zenon DEF Errors!Next
<1>2. CASE UNCHANGED errorVars
    BY <1>2, ErrorsStay, Zenon
<1>3. Errors!Next \/ UNCHANGED errorVars
    BY Zenon DEF Next, Only, vars
<1> QED BY <1>1, <1>2, <1>3

LEMMA ErrorsInductive == Spec => []ErrorInv
<1>1. Init => ErrorInv
    BY ErrorsStart, Zenon DEF Init
<1> QED BY <1>1, ErrorsNext, PTL DEF Spec

\* Whichever endpoint is called and whichever of its calls fails: except where the code
\* lets an exception escape, the caller learns the status of what failed, and a side
\* call never fails the request (the handlers of routes.py and main.py, the adapters).
THEOREM FailuresReachTheCaller == Spec => []FailuresAreTold
<1>1. ErrorInv => FailuresAreTold
    BY ErrorsExplained, Zenon DEF FailuresAreTold, Of
<1> QED BY ErrorsInductive, <1>1, PTL

----------------------------------------------------------------------------
(* What is left of the types, once the invariants are known.                *)

LoopTyped ==
    /\ chosen \in BOOLEAN /\ stage \in {"start", "ready", "calling", "ended"}
    /\ windows \subseteq {"own", "chosen"} /\ jobs \subseteq Loop!Places
    /\ result \in {"none", "answer", "error"}

LEMMA LoopTypes == ASSUME LoopInv, LoopTyped, [Loop!Next]_(Loop!vars) PROVE LoopTyped'
<1>1. CASE Loop!Discover
    BY <1>1, Zenon DEF Loop!Discover, LoopTyped
<1>2. CASE Loop!Fails \/ Loop!Answers \/ Loop!IterationLimit
    BY <1>2, Zenon DEF Loop!Fails, Loop!Answers, Loop!IterationLimit, Loop!Ends, LoopTyped
<1>3. CASE Loop!SelectTools
    BY <1>3, Zenon DEF Loop!SelectTools, LoopTyped
<1>4. CASE Loop!RunToolCall
    <2> DEFINE call == Head(llmCalls)
    <2>1. call \in Loop!Call
        BY <1>4, HeadAndTail, Zenon DEF Loop!RunToolCall, LoopInv, CallsTyped
    <2>2. call.place \in Loop!Places /\ call.window \in {"own", "chosen"}
        BY <2>1, SMT DEF Loop!Call
    <2>3. UNCHANGED <<windows, jobs>> \/ Loop!Serve(call)
        BY <1>4, Zenon DEF Loop!RunToolCall
    <2>4. windows' \subseteq windows \cup {call.window} /\ jobs' \subseteq jobs \cup {call.place}
        BY <2>3, Zenon DEF Loop!Serve
    <2>5. stage' \in {"ready", "calling"} /\ UNCHANGED <<chosen, result>>
        BY <1>4, Zenon DEF Loop!RunToolCall
    <2> QED BY <2>2, <2>4, <2>5, Zenon DEF LoopTyped
<1>5. CASE UNCHANGED Loop!vars
    BY <1>5, Zenon DEF Loop!vars, LoopTyped
<1> QED BY <1>1, <1>2, <1>3, <1>4, <1>5, Zenon DEF Loop!Next

LEMMA LoopIsTyped == Spec => []Loop!TypeOK
<1>1. Init => LoopTyped
    BY Zenon DEF Init, Loop!Init, LoopTyped
<1>2. [Next]_vars => [Loop!Next]_(Loop!vars)
    BY Zenon DEF Next, Only, vars, Loop!vars, loopVars
<1>3. LoopInv /\ LoopTyped /\ [Next]_vars => LoopTyped'
    BY <1>2, LoopTypes
<1>4. LoopInv /\ SearchInv /\ DialogInv /\ LoopTyped => Loop!TypeOK
    BY Zenon DEF LoopInv, CallsTyped, SearchInv, SearchTyped, DialogInv, LoopTyped, Loop!TypeOK
<1> QED BY <1>1, <1>3, <1>4, LoopInductive, TalkInductive, PTL DEF Spec

PipelineTyped ==
    /\ request \in Pipeline!Requests /\ logs \in Pipeline!Searches
    /\ known \subseteq Names /\ analysis \subseteq Names /\ sent \subseteq Names
    /\ written \subseteq Names /\ shown \subseteq Names

\* What a search finds mentions names.
LEMMA RowsMentionNames ==
    ASSUME NEW found \in Pipeline!Searches
    PROVE  found.fields \subseteq Names /\ found.messages \subseteq Names
<1>1. CASE found \in [fields : SUBSET Names, messages : SUBSET Names, any : {TRUE}]
    BY <1>1, Zenon
<1>2. CASE found = Pipeline!NoLogs
    BY <1>2, Zenon DEF Pipeline!NoLogs
<1> QED BY <1>1, <1>2, Zenon DEF Pipeline!Searches

\* Whatever is told mentions names.
LEMMA TextsMentionNames ==
    ASSUME PipelineTyped
    PROVE  /\ request.service \in Names /\ Pipeline!Service \subseteq Names
           /\ Pipeline!MaskText(request.question, known) \subseteq Names
           /\ Pipeline!Prompt \subseteq Names
           /\ \A artifact \in Pipeline!Artifacts : Pipeline!Content(artifact) \subseteq Names
<1>1. \A w \in Pipeline!Wordings : w \subseteq Names
    BY Zenon DEF Pipeline!Wordings
<1>2. request.service \in Names /\ request.question \in Pipeline!Wordings
      /\ request.filter \in Pipeline!Wordings
    BY SMT DEF PipelineTyped, Pipeline!Requests
<1>3. request.question \subseteq Names /\ request.filter \subseteq Names
    BY <1>1, <1>2, Zenon
<1>4. \A text, names : text \subseteq Names => Pipeline!MaskText(text, names) \subseteq Names
    BY Zenon DEF Pipeline!MaskText
<1>5. Pipeline!MaskText({request.service}, known) \subseteq Names
    BY <1>2, <1>4, Zenon
<1>6. Pipeline!MaskText(request.question, known) \subseteq Names
      /\ Pipeline!MaskText(request.filter, known) \subseteq Names
    BY <1>3, <1>4, Zenon
<1>7. Pipeline!Mentions(logs) \subseteq Names
    BY RowsMentionNames, Zenon DEF PipelineTyped, Pipeline!Mentions
<1>8. Pipeline!Prompt \subseteq Names
    BY <1>5, <1>6, <1>7, Zenon DEF Pipeline!Prompt, Pipeline!Service
<1>9. \A artifact \in Pipeline!Artifacts : Pipeline!Content(artifact) \subseteq Names
    BY <1>5, <1>6, <1>7, Zenon
    DEF Pipeline!Content, Pipeline!Artifacts, Pipeline!Service, PipelineTyped
<1> QED BY <1>2, <1>5, <1>6, <1>8, <1>9, Zenon DEF Pipeline!Service

\* Masked rows are rows.
LEMMA MaskedRows ==
    ASSUME NEW found \in Pipeline!Searches, NEW names
    PROVE  Pipeline!MaskLogs(found, names) \in Pipeline!Searches
<1> DEFINE masked == [[found EXCEPT !.fields = {}] EXCEPT !.messages = found.messages \ names]
           Rows(F, M, A) == [fields : F, messages : M, any : A]
<1>0. ASSUME NEW F, NEW M, NEW A, NEW r \in Rows(F, M, A), NEW f \in F, NEW m \in M
      PROVE  [[r EXCEPT !.fields = f] EXCEPT !.messages = m] \in Rows(F, M, A)
    <2>1. [r EXCEPT !.fields = f] \in Rows(F, M, A)
        BY SMT
    <2>2. ASSUME NEW s \in Rows(F, M, A) PROVE [s EXCEPT !.messages = m] \in Rows(F, M, A)
        BY SMT
    <2> HIDE DEF Rows
    <2> QED BY <2>1, <2>2, Zenon
<1>1. CASE found \in Rows(SUBSET Names, SUBSET Names, {TRUE})
    <2>1. {} \in SUBSET Names /\ found.messages \ names \in SUBSET Names
        BY <1>1, Zenon
    <2>2. masked \in Rows(SUBSET Names, SUBSET Names, {TRUE})
        <3> HIDE DEF Rows
        <3> QED BY <1>0, <1>1, <2>1, Zenon
    <2> QED BY <1>1, <2>2, Zenon DEF Pipeline!MaskLogs, Pipeline!MaskText, Pipeline!Searches
<1>2. CASE found = Pipeline!NoLogs
    <2>1. found.messages \ names = {}
        BY <1>2, Zenon DEF Pipeline!NoLogs
    <2>2. found \in Rows({{}}, {{}}, {FALSE})
        BY <1>2, Zenon DEF Pipeline!NoLogs
    <2>3. masked \in Rows({{}}, {{}}, {FALSE})
        <3>1. {} \in {{}} /\ found.messages \ names \in {{}}
            BY <2>1, Zenon
        <3> HIDE DEF Rows
        <3> QED BY <1>0, <2>2, <3>1, Zenon
    <2>4. masked = Pipeline!NoLogs
        <3> HIDE DEF masked
        <3>1. masked = [fields |-> masked.fields, messages |-> masked.messages, any |-> masked.any]
            BY <2>3, Zenon
        <3>2. masked.fields = {} /\ masked.messages = {} /\ masked.any = FALSE
            BY <2>3, Zenon
        <3> QED BY <3>1, <3>2, Zenon DEF Pipeline!NoLogs
    <2> QED BY <1>2, <2>4, Zenon DEF Pipeline!MaskLogs, Pipeline!MaskText, Pipeline!Searches
<1> QED BY <1>1, <1>2, Zenon DEF Pipeline!Searches

LEMMA ResponsesMentionNames ==
    ASSUME NEW how, NEW names, names \subseteq Names, Pipeline!Respond(how, names)
    PROVE  shown' \subseteq Names
BY Zenon DEF Pipeline!Respond, Pipeline!MaskText

LEMMA PipelineTypes ==
    ASSUME FilesInv, PipelineTyped, [Pipeline!Next]_(Pipeline!vars) PROVE PipelineTyped'
<1> USE DEF PipelineTyped
<1>0. /\ request.service \in Names /\ Pipeline!Service \subseteq Names
      /\ Pipeline!MaskText(request.question, known) \subseteq Names
      /\ Pipeline!Prompt \subseteq Names
      /\ \A artifact \in Pipeline!Artifacts : Pipeline!Content(artifact) \subseteq Names
    BY TextsMentionNames, Zenon
<1>1. CASE Pipeline!DiscoverTools
    BY <1>1, Zenon DEF Pipeline!DiscoverTools
<1>2. CASE Pipeline!NoServer
    <2>1. shown' \subseteq Names
        BY <1>0, <1>2, ResponsesMentionNames, Zenon DEF Pipeline!NoServer
    <2> QED BY <1>2, <2>1, Zenon DEF Pipeline!NoServer
<1>3. CASE Pipeline!Search
    <2>1. PICK found \in Pipeline!Searches :
              /\ known' = IF request.mask THEN known \cup Pipeline!Learnable(found.fields) ELSE known
              /\ logs' = Pipeline!MaskLogs(found, known')
        BY <1>3, Zenon DEF Pipeline!Search
    <2>2. found.fields \subseteq Names
        BY RowsMentionNames, Zenon
    <2>3. known' \subseteq Names
        BY <2>1, <2>2, Zenon DEF Pipeline!Learnable
    <2>4. logs' \in Pipeline!Searches
        BY <2>1, MaskedRows, Zenon
    <2> QED BY <1>3, <2>3, <2>4, Zenon DEF Pipeline!Search
<1>4. CASE Pipeline!Analyze
    BY <1>0, <1>4, Zenon DEF Pipeline!Analyze
<1>5. CASE Pipeline!WriteArtifact
    <2>1. Pipeline!NextArtifact \in Pipeline!Artifacts
        BY Zenon DEF Pipeline!NextArtifact, Pipeline!Artifacts
    <2>2. Pipeline!Content(Pipeline!NextArtifact) \subseteq Names
        BY <1>0, <2>1, Zenon
    <2> QED BY <1>5, <2>2, Zenon DEF Pipeline!WriteArtifact
<1>6. CASE Pipeline!Answer
    <2> DEFINE told == Pipeline!Service \cup Pipeline!MaskText(request.question, known)
                       \cup analysis
    <2>1. told \subseteq Names /\ {request.service} \cup analysis \cup told \subseteq Names
        BY <1>0, Zenon
    <2>2. Pipeline!Respond("completed", {request.service} \cup analysis \cup told)
        BY <1>6, Zenon DEF Pipeline!Answer
    <2>3. shown' \subseteq Names
        BY <2>1, <2>2, ResponsesMentionNames, Zenon
    <2>4. sent' \subseteq Names
        BY <1>6, <2>1, Zenon DEF Pipeline!Answer
    <2> QED BY <1>6, <2>3, <2>4, Zenon DEF Pipeline!Answer
<1>7. CASE Pipeline!Dies
    BY <1>7, Zenon DEF Pipeline!Dies
<1>8. ASSUME NEW tool \in Pipeline!Tools, Pipeline!ToolFails(tool) PROVE PipelineTyped'
    <2>1. {request.service} \cup analysis \subseteq Names
        BY <1>0, Zenon
    <2>2. shown' \subseteq Names
        BY <1>8, <2>1, ResponsesMentionNames, Zenon DEF Pipeline!ToolFails
    <2>3. sent' \subseteq Names
        BY <1>0, <1>8, Zenon DEF Pipeline!ToolFails
    <2> QED BY <1>8, <2>2, <2>3, Zenon DEF Pipeline!ToolFails
<1>9. CASE UNCHANGED Pipeline!vars
    BY <1>9, Zenon DEF Pipeline!vars
<1> QED BY <1>1, <1>2, <1>3, <1>4, <1>5, <1>6, <1>7, <1>8, <1>9, Zenon DEF Pipeline!Next

LEMMA PipelineIsTyped == Spec => []Pipeline!TypeOK
<1>1. Init => PipelineTyped
    <2> SUFFICES ASSUME Pipeline!Init PROVE PipelineTyped
        BY Zenon DEF Init
    <2>1. request.service \in Names
        BY SMT DEF Pipeline!Init, Pipeline!Requests
    <2>2. Pipeline!Learnable({request.service}) \subseteq Names
        BY <2>1, Zenon DEF Pipeline!Learnable
    <2>3. Pipeline!NoLogs \in Pipeline!Searches
        BY Zenon DEF Pipeline!Searches
    <2> QED BY <2>2, <2>3, Zenon DEF Pipeline!Init, PipelineTyped
<1>2. [Next]_vars => [Pipeline!Next]_(Pipeline!vars)
    BY Zenon DEF Next, Only, vars, Pipeline!vars, pipelineVars
<1>3. PipelineInv /\ PipelineTyped /\ [Next]_vars => PipelineTyped'
    BY <1>2, PipelineTypes, Zenon DEF PipelineInv
<1>4. PipelineInv /\ PipelineTyped => Pipeline!TypeOK
    <2>1. FilesInv => files \subseteq Pipeline!Artifacts
        BY Zenon DEF FilesInv, Pipeline!Artifacts
    <2> QED BY <2>1, Zenon DEF PipelineInv, TraceInv, PipelineTyped, Pipeline!TypeOK
<1> QED BY <1>1, <1>3, <1>4, PipelineInductive, PTL DEF Spec
=============================================================================
