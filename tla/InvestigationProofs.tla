------------------------ MODULE InvestigationProofs -------------------------
(***************************************************************************)
(* Proofs about Investigation: an investigation stays within its budgets,  *)
(* answers every call, and says truly whether a report was saved, for any  *)
(* servers, tools, budgets and lengths of an answer.                       *)
(***************************************************************************)
EXTENDS Investigation, TLAPS

\* Before discovery nothing was asked or called; while a call runs, the
\* report's context counts it.
Strengthening ==
    /\ phase = "discover" => asked = answered /\ Len(toolCalls) = 0
    /\ phase = "await" => Len(toolCalls) < MaxTotalToolCalls /\ context = Pending(Current)

IInv == TypeOK /\ CallsAreAnswered /\ SavedReport /\ Strengthening

LEMMA BatchIsSeq == ASSUME NEW calls \in Batches
                    PROVE  calls \in Seq(Tools) /\ Len(calls) \in Nat \ {0}
<1>1. PICK n \in 1 .. MaxBatch : calls \in [1 .. n -> Tools]
  BY DEF Batches
<1>2. n \in Nat
  BY InvestigationAssumption DEF InvestigationAssumption
<1> QED BY <1>1, <1>2

\* Appending a call keeps the calls that were there.
LEMMA Appended == ASSUME NEW S, NEW s \in Seq(S), NEW e \in S
                  PROVE  /\ Append(s, e) \in Seq(S)
                         /\ Len(Append(s, e)) = Len(s) + 1
                         /\ \A i \in DOMAIN s : Append(s, e)[i] = s[i]
                         /\ Append(s, e)[Len(s) + 1] = e
                         /\ DOMAIN Append(s, e) = DOMAIN s \cup {Len(s) + 1}
                         /\ DOMAIN s = 1 .. Len(s)
OBVIOUS

LEMMA InitIInv == Init => IInv
<1> SUFFICES ASSUME Init PROVE IInv
  OBVIOUS
<1>1. Len(toolCalls) = 0 /\ DOMAIN toolCalls = {} /\ toolCalls \in Seq(CallRecord)
  BY DEF Init
<1>2. files \in [md: File \cup {NoFile}, meta: MetadataFile \cup {NoFile}]
  BY DEF Init
<1>3. context \in Context
  BY DEF Init, Context
<1>4. TypeOK
  <2>1. batch \in Seq(Tools) /\ position \in Nat \ {0} /\ asked \in Nat /\ answered \in Nat
    BY DEF Init
  <2>2. Len(toolCalls) <= MaxTotalToolCalls /\ iterations \in 0 .. MaxToolIterations
    BY <1>1, InvestigationAssumption DEF Init, InvestigationAssumption
  <2> QED BY <1>1, <2>1, <2>2, <1>2, <1>3 DEF Init, TypeOK
<1>5. CallsAreAnswered /\ Strengthening
  BY <1>1 DEF Init, CallsAreAnswered, Strengthening
<1>6. SavedReport
  BY <1>1 DEF Init, SavedReport
<1> QED BY <1>4, <1>5, <1>6 DEF IInv

----------------------------------------------------------------------------
(* The steps that all calls of tools share.                                *)

\* Going on to the next call of the answer.
LEMMA NextCallKeeps ==
    ASSUME TypeOK, CallsAreAnswered, phase \in {"calls", "await"}, NextCall,
           answered' = answered + 1, UNCHANGED <<batch, asked, limitReached>>
    PROVE  /\ phase' \in {"ask", "calls"}
           /\ position' \in Nat \ {0}
           /\ phase' \in {"calls", "await"} => position' <= Len(batch')
           /\ answered' \in Nat /\ asked' \in Nat
           /\ CallsAreAnswered'
<1>1. Len(batch) \in Nat /\ position \in 1 .. Len(batch)
  BY DEF TypeOK
<1>2. asked = answered + (Len(batch) - position + 1)
  BY DEF CallsAreAnswered
<1>3. phase' = IF position = Len(batch) THEN "ask" ELSE "calls"
  BY DEF NextCall
<1>4. position' = position + 1
  BY DEF NextCall
<1>5. asked \in Nat /\ answered \in Nat
  BY DEF TypeOK
<1>6. phase' = "ask" => answered' = asked'
  BY <1>1, <1>2, <1>3, <1>5
<1>7. phase' = "calls" => asked' = answered' + (Len(batch') - position' + 1)
  BY <1>1, <1>2, <1>3, <1>4, <1>5
<1>8. CallsAreAnswered'
  BY <1>3, <1>6, <1>7 DEF CallsAreAnswered
<1> QED BY <1>1, <1>3, <1>4, <1>5, <1>8

\* A call that ended is in the list; nothing but the files is left to look at.
LEMMA RecordKeeps ==
    ASSUME IInv, phase = "await", NEW how \in {"ok", "error", "timeout"}, Record(how),
           files' \in [md: File \cup {NoFile}, meta: MetadataFile \cup {NoFile}],
           artifacts' \in BOOLEAN
    PROVE  TypeOK' /\ CallsAreAnswered' /\ Strengthening'
<1>1. TypeOK /\ CallsAreAnswered /\ Len(toolCalls) < MaxTotalToolCalls
  BY DEF IInv, Strengthening
<1>2. Current \in Tools
  BY <1>1 DEF Current, TypeOK
<1>3. /\ toolCalls' \in Seq(CallRecord)
      /\ Len(toolCalls') = Len(toolCalls) + 1
  <2>1. [tool |-> Current, status |-> how] \in CallRecord
    BY <1>2 DEF CallRecord
  <2> QED BY <1>1, <2>1, Appended DEF Record, TypeOK
<1>4. Len(toolCalls) \in Nat
  BY <1>1 DEF TypeOK
<1>5. context' \in Context
  BY <1>4 DEF Record, Context
<1>6. NextCall /\ answered' = answered + 1 /\ UNCHANGED <<batch, asked, limitReached>>
  BY DEF Record
<1>7. /\ phase' \in {"ask", "calls"}
      /\ position' \in Nat \ {0}
      /\ phase' \in {"calls", "await"} => position' <= Len(batch')
      /\ answered' \in Nat /\ asked' \in Nat
      /\ CallsAreAnswered'
  BY <1>1, <1>6, NextCallKeeps
<1>8. TypeOK'
  BY <1>1, <1>3, <1>4, <1>5, <1>7, InvestigationAssumption
     DEF Record, TypeOK, InvestigationAssumption
<1>9. Strengthening'
  BY <1>7 DEF Strengthening
<1> QED BY <1>7, <1>8, <1>9

\* What a call adds to the list.
LEMMA RecordAppends ==
    ASSUME IInv, phase = "await", NEW how \in {"ok", "error", "timeout"}, Record(how)
    PROVE  /\ DOMAIN toolCalls = 1 .. Len(toolCalls) /\ Len(toolCalls) \in Nat
           /\ DOMAIN toolCalls' = 1 .. (Len(toolCalls) + 1)
           /\ \A i \in DOMAIN toolCalls : toolCalls'[i] = toolCalls[i]
           /\ toolCalls'[Len(toolCalls) + 1] = [tool |-> Current, status |-> how]
<1>1. toolCalls \in Seq(CallRecord) /\ Current \in Tools
  BY DEF IInv, TypeOK, Current
<1>2. [tool |-> Current, status |-> how] \in CallRecord
  BY <1>1 DEF CallRecord
<1>3. toolCalls' = Append(toolCalls, [tool |-> Current, status |-> how])
  BY DEF Record
<1> QED BY <1>1, <1>2, <1>3

\* A call that did not save a report and left the files and the descriptor
\* as they were, or was a call of save_report and left the descriptor.
LEMMA UnsavedKeeps ==
    ASSUME IInv, phase = "await", NEW how \in {"ok", "error", "timeout"}, Record(how),
           UNCHANGED artifacts,
           \/ Current # SaveReport /\ UNCHANGED files
           \/ Current = SaveReport /\ how # "ok"
    PROVE  SavedReport'
<1> DEFINE okSave == [tool |-> SaveReport, status |-> "ok"]
<1>n. PICK n : n = Len(toolCalls) + 1
  OBVIOUS
<1>1. /\ DOMAIN toolCalls = 1 .. Len(toolCalls) /\ Len(toolCalls) \in Nat
      /\ DOMAIN toolCalls' = 1 .. n
      /\ \A i \in DOMAIN toolCalls : toolCalls'[i] = toolCalls[i]
      /\ toolCalls'[n] = [tool |-> Current, status |-> how]
  BY <1>n, RecordAppends
<1>2. toolCalls'[n] # okSave
  <2>1. [tool |-> Current, status |-> how] # okSave
    OBVIOUS
  <2> QED BY <1>1, <2>1
<1>3. artifacts <=> \E i \in DOMAIN toolCalls : toolCalls[i] = okSave
  BY DEF IInv, SavedReport, Saved
<1>4. artifacts' <=> \E i \in DOMAIN toolCalls' : toolCalls'[i] = okSave
  BY <1>n, <1>1, <1>2, <1>3
<1>5. ASSUME NEW i \in DOMAIN toolCalls', toolCalls'[i] = okSave,
             \A j \in DOMAIN toolCalls' : j > i => toolCalls'[j].tool # SaveReport
      PROVE  files' = [md |-> [call |-> i, whole |-> TRUE],
                       meta |-> [call |-> i, whole |-> TRUE,
                                 context |-> [status |-> "completed", count |-> i]]]
  <2>1. i \in DOMAIN toolCalls
    BY <1>n, <1>1, <1>2, <1>5
  <2>2. Current # SaveReport /\ UNCHANGED files
    <3>1. n \in DOMAIN toolCalls' /\ n > i
      BY <1>n, <1>1, <2>1
    <3>2. toolCalls'[n].tool = Current
      BY <1>1
    <3> QED BY <1>5, <3>1, <3>2
  <2>3. /\ toolCalls[i] = okSave
        /\ \A j \in DOMAIN toolCalls : j > i => toolCalls[j].tool # SaveReport
    BY <1>n, <1>1, <1>5, <2>1
  <2> QED BY <2>1, <2>2, <2>3 DEF IInv, SavedReport, Saved
<1> QED BY <1>4, <1>5 DEF SavedReport, Saved

\* A successful save.
LEMMA SaveKeeps == ASSUME IInv, Save PROVE IInv'
<1> DEFINE okSave == [tool |-> SaveReport, status |-> "ok"]
<1>n. PICK n : n = Len(toolCalls) + 1
  OBVIOUS
<1>1. phase = "await" /\ Current = SaveReport /\ Record("ok") /\ artifacts' = TRUE
  BY DEF Save
<1>2. /\ DOMAIN toolCalls = 1 .. Len(toolCalls) /\ Len(toolCalls) \in Nat
      /\ DOMAIN toolCalls' = 1 .. n
      /\ toolCalls'[n] = okSave
  BY <1>n, <1>1, RecordAppends
<1>3. context \in Context /\ context = [status |-> "completed", count |-> n]
  BY <1>n, <1>1 DEF IInv, TypeOK, Strengthening, Pending
<1>4. files' = [md |-> [call |-> n, whole |-> TRUE],
                meta |-> [call |-> n, whole |-> TRUE, context |-> context]]
  BY <1>n DEF Save, Md, Meta, ThisCall
<1>5. files' \in [md: File \cup {NoFile}, meta: MetadataFile \cup {NoFile}]
  <2>1. [call |-> n, whole |-> TRUE] \in File
    BY <1>n, <1>2 DEF File
  <2>2. [call |-> n, whole |-> TRUE, context |-> context] \in MetadataFile
    BY <1>n, <1>2, <1>3 DEF MetadataFile
  <2> QED BY <1>4, <2>1, <2>2
<1>6. TypeOK' /\ CallsAreAnswered' /\ Strengthening'
  BY <1>1, <1>5, RecordKeeps
<1>7. ASSUME NEW i \in DOMAIN toolCalls',
             \A j \in DOMAIN toolCalls' : j > i => toolCalls'[j].tool # SaveReport
      PROVE  i = n
  <2>1. n \in DOMAIN toolCalls' /\ toolCalls'[n].tool = SaveReport
    BY <1>n, <1>2
  <2>2. ~(n > i)
    BY <1>7, <2>1
  <2> QED BY <1>n, <1>2, <2>2
<1>8. SavedReport'
  <2>1. n \in DOMAIN toolCalls' /\ Saved(n)'
    BY <1>n, <1>2 DEF Saved
  <2> QED BY <1>1, <1>2, <1>3, <1>4, <1>7, <2>1 DEF SavedReport, Saved
<1> QED BY <1>6, <1>8 DEF IInv

\* The files after a save of which something was written are files.
LEMMA WrittenFiles ==
    ASSUME IInv, phase = "await", Current = SaveReport, NEW b \in BOOLEAN
    PROVE  Md(b) \in File /\ Meta(b) \in MetadataFile
<1>1. ThisCall \in Nat /\ context \in Context
  BY DEF IInv, TypeOK, ThisCall
<1> QED BY <1>1 DEF Md, Meta, File, MetadataFile

\* A save that failed, whatever it has written.
LEMMA FailedSaveKeeps ==
    ASSUME IInv, NEW how \in {"error", "timeout"},
           SaveRefused(how) \/ SaveLost(how) \/ SaveBroken
    PROVE  IInv'
<1>1. phase = "await" /\ Current = SaveReport /\ UNCHANGED artifacts
  BY DEF SaveRefused, SaveLost, SaveBroken
<1>2. PICK end \in {"error", "timeout"} : Record(end)
  BY DEF SaveRefused, SaveLost, SaveBroken
<1>3. \A w \in BOOLEAN : Md(w) \in File /\ Meta(w) \in MetadataFile
  BY <1>1, WrittenFiles
<1>4. files \in [md: File \cup {NoFile}, meta: MetadataFile \cup {NoFile}] /\ artifacts \in BOOLEAN
  BY DEF IInv, TypeOK
<1>5. files' \in [md: File \cup {NoFile}, meta: MetadataFile \cup {NoFile}]
  <2>1. CASE UNCHANGED files
    BY <1>4, <2>1
  <2>2. CASE \E w \in BOOLEAN : files' = [files EXCEPT !.md = Md(w)]
    <3>1. PICK w \in BOOLEAN : files' = [files EXCEPT !.md = Md(w)]
      BY <2>2
    <3>2. files.meta \in MetadataFile \cup {NoFile} /\ Md(w) \in File
      BY <1>3, <1>4
    <3>3. files' = [md |-> Md(w), meta |-> files.meta]
      BY <1>4, <3>1
    <3> QED BY <3>2, <3>3
  <2>3. CASE \E w \in BOOLEAN : files' = [md |-> Md(TRUE), meta |-> Meta(w)]
    <3>1. PICK w \in BOOLEAN : files' = [md |-> Md(TRUE), meta |-> Meta(w)]
      BY <2>3
    <3>2. Md(TRUE) \in File /\ Meta(w) \in MetadataFile
      BY <1>3
    <3> QED BY <3>1, <3>2
  <2> QED BY <2>1, <2>2, <2>3 DEF SaveRefused, SaveLost, SaveBroken
<1>6. TypeOK' /\ CallsAreAnswered' /\ Strengthening'
  BY <1>1, <1>2, <1>4, <1>5, RecordKeeps
<1>7. SavedReport'
  BY <1>1, <1>2, UnsavedKeeps
<1> QED BY <1>6, <1>7 DEF IInv

LEMMA OtherCallKeeps ==
    ASSUME IInv, NEW how \in {"ok", "error", "timeout"}, OtherCall(how) PROVE IInv'
<1>1. phase = "await" /\ Current # SaveReport /\ Record(how) /\ UNCHANGED <<files, artifacts>>
  BY DEF OtherCall
<1>2. TypeOK' /\ CallsAreAnswered' /\ Strengthening'
  BY <1>1, RecordKeeps DEF IInv, TypeOK
<1>3. SavedReport'
  BY <1>1, UnsavedKeeps
<1> QED BY <1>2, <1>3 DEF IInv

----------------------------------------------------------------------------
(* The other steps call no tool: what was saved stays as it is.            *)

LEMMA SavedUntouched ==
    ASSUME IInv, UNCHANGED <<toolCalls, files, artifacts>> PROVE SavedReport'
BY DEF IInv, SavedReport, Saved

LEMMA DiscoverKeeps ==
    ASSUME IInv, NEW listing \in Listings, Discover(listing) PROVE IInv'
<1>1. toolMap' \subseteq Tools
  BY InvestigationAssumption DEF Discover, Colliding, ToolsIn, InvestigationAssumption
<1>2. TypeOK'
  BY <1>1 DEF Discover, conversation, IInv, TypeOK
<1>3. CallsAreAnswered' /\ Strengthening'
  BY DEF Discover, conversation, IInv, Strengthening, CallsAreAnswered
<1> QED BY <1>2, <1>3, SavedUntouched DEF Discover, IInv

LEMMA AskForCallsKeeps ==
    ASSUME IInv, NEW calls \in Batches, AskForCalls(calls) PROVE IInv'
<1>1. calls \in Seq(Tools) /\ Len(calls) \in Nat \ {0}
  BY BatchIsSeq
<1>2. asked \in Nat /\ answered \in Nat /\ answered = asked /\ iterations \in Nat
  BY DEF AskForCalls, IInv, TypeOK, CallsAreAnswered
<1>3. asked' = answered' + (Len(batch') - position' + 1)
  BY <1>1, <1>2 DEF AskForCalls
<1>4. iterations' \in 0 .. MaxToolIterations
  BY <1>2, InvestigationAssumption DEF AskForCalls, InvestigationAssumption
<1>5. TypeOK'
  BY <1>1, <1>2, <1>4 DEF AskForCalls, IInv, TypeOK
<1>6. CallsAreAnswered' /\ Strengthening'
  BY <1>3 DEF AskForCalls, CallsAreAnswered, Strengthening
<1> QED BY <1>5, <1>6, SavedUntouched DEF AskForCalls, IInv

LEMMA EndOfLoopKeeps ==
    ASSUME IInv, AskForAnswer \/ IterationsUsedUp \/ CallsUsedUp PROVE IInv'
<1>1. phase' = "finish" /\ UNCHANGED <<toolMap, conversation, toolCalls, context, files,
                                       artifacts, status>>
  BY DEF AskForAnswer, IterationsUsedUp, CallsUsedUp
<1>2. iterations' \in 0 .. MaxToolIterations
  BY InvestigationAssumption
     DEF AskForAnswer, IterationsUsedUp, CallsUsedUp, IInv, TypeOK, InvestigationAssumption
<1>3. content' \in BOOLEAN /\ loopError' \in BOOLEAN /\ limitReached' \in BOOLEAN
  BY DEF AskForAnswer, IterationsUsedUp, CallsUsedUp, IInv, TypeOK
<1>4. TypeOK'
  BY <1>1, <1>2, <1>3 DEF conversation, IInv, TypeOK
<1>5. CallsAreAnswered'
  <2>1. CASE phase = "ask"
    BY <1>1, <2>1 DEF conversation, IInv, CallsAreAnswered
  <2>2. CASE CallsUsedUp
    <3>1. Len(toolCalls) = MaxTotalToolCalls
      BY <2>2, InvestigationAssumption
         DEF CallsUsedUp, HasBudget, IInv, TypeOK, InvestigationAssumption
    <3> QED BY <1>1, <2>2, <3>1 DEF conversation, CallsUsedUp, IInv, CallsAreAnswered
  <2> QED BY <2>1, <2>2 DEF AskForAnswer, IterationsUsedUp
<1>6. Strengthening'
  BY <1>1 DEF Strengthening
<1> QED BY <1>1, <1>4, <1>5, <1>6, SavedUntouched DEF IInv

LEMMA UnknownToolKeeps == ASSUME IInv, UnknownTool PROVE IInv'
<1>1. TypeOK /\ CallsAreAnswered /\ phase = "calls"
  BY DEF IInv, UnknownTool
<1>2. NextCall /\ answered' = answered + 1 /\ UNCHANGED <<batch, asked, limitReached>>
  BY DEF UnknownTool
<1>3. /\ phase' \in {"ask", "calls"}
      /\ position' \in Nat \ {0}
      /\ phase' \in {"calls", "await"} => position' <= Len(batch')
      /\ answered' \in Nat /\ asked' \in Nat
      /\ CallsAreAnswered'
  BY <1>1, <1>2, NextCallKeeps
<1>4. TypeOK'
  BY <1>1, <1>3 DEF UnknownTool, TypeOK
<1>5. Strengthening'
  BY <1>3 DEF Strengthening
<1> QED BY <1>3, <1>4, <1>5, SavedUntouched DEF UnknownTool, IInv

LEMMA StartCallKeeps == ASSUME IInv, StartCall PROVE IInv'
<1>1. TypeOK /\ CallsAreAnswered /\ phase = "calls" /\ phase' = "await"
  BY DEF IInv, StartCall
<1>2. Len(toolCalls) \in Nat /\ Len(toolCalls) < MaxTotalToolCalls
  BY <1>1 DEF StartCall, HasBudget, TypeOK
<1>3. context' = Pending(Current) /\ context' \in Context
  BY <1>2 DEF StartCall, Pending, Context
<1>4. TypeOK' /\ CallsAreAnswered'
  BY <1>1, <1>3 DEF StartCall, conversation, TypeOK, CallsAreAnswered
<1>5. Strengthening'
  <2>1. Pending(Current)' = Pending(Current)
    BY DEF StartCall, conversation, Pending, Current
  <2> QED BY <1>1, <1>2, <1>3, <2>1 DEF StartCall, Strengthening
<1> QED BY <1>4, <1>5, SavedUntouched DEF StartCall, IInv

LEMMA FinishKeeps == ASSUME IInv, NEW synthesis \in BOOLEAN, Finish(synthesis) PROVE IInv'
<1>1. content' \in BOOLEAN /\ status' \in {"completed", "partial", "failed"}
  BY DEF Finish, StatusOf, IInv, TypeOK
<1>2. context' \in Context
  <2>1. Len(toolCalls) \in Nat
    BY DEF IInv, TypeOK
  <2> QED BY <1>1, <2>1 DEF Finish, Context
<1>3. TypeOK'
  BY <1>1, <1>2 DEF Finish, conversation, IInv, TypeOK
<1>4. CallsAreAnswered' /\ Strengthening'
  BY DEF Finish, conversation, IInv, CallsAreAnswered, Strengthening
<1> QED BY <1>3, <1>4, SavedUntouched DEF Finish, IInv

----------------------------------------------------------------------------

THEOREM NextIInv == IInv /\ [Next]_vars => IInv'
<1> SUFFICES ASSUME IInv, [Next]_vars PROVE IInv'
  OBVIOUS
<1>1. CASE \E listing \in Listings : Discover(listing)
  BY <1>1, DiscoverKeeps
<1>2. CASE \E calls \in Batches : AskForCalls(calls)
  BY <1>2, AskForCallsKeeps
<1>3. CASE AskForAnswer \/ IterationsUsedUp \/ CallsUsedUp
  BY <1>3, EndOfLoopKeeps
<1>4. CASE UnknownTool
  BY <1>4, UnknownToolKeeps
<1>5. CASE StartCall
  BY <1>5, StartCallKeeps
<1>6. CASE \E how \in {"ok", "error", "timeout"} : OtherCall(how)
  BY <1>6, OtherCallKeeps
<1>7. CASE \/ \E how \in {"error", "timeout"} : SaveRefused(how) \/ SaveLost(how)
           \/ SaveBroken
  BY <1>7, FailedSaveKeeps
<1>8. CASE Save
  BY <1>8, SaveKeeps
<1>9. CASE \E synthesis \in BOOLEAN : Finish(synthesis)
  BY <1>9, FinishKeeps
<1>10. CASE UNCHANGED vars
  <2>1. UNCHANGED <<phase, toolMap, iterations, batch, position, asked, answered, toolCalls,
                    context, files, artifacts, content, loopError, limitReached, status>>
    BY <1>10 DEF vars, conversation
  <2>2. TypeOK' /\ CallsAreAnswered' /\ SavedReport'
    BY <2>1 DEF IInv, TypeOK, CallsAreAnswered, SavedReport, Saved
  <2>3. Strengthening'
    BY <2>1 DEF IInv, Strengthening, Pending, Current
  <2> QED BY <2>2, <2>3 DEF IInv
<1> QED BY <1>1, <1>2, <1>3, <1>4, <1>5, <1>6, <1>7, <1>8, <1>9, <1>10 DEF Next

THEOREM InvestigationInvariant == Spec => []IInv
BY InitIInv, NextIInv, PTL DEF Spec

\* However the model and the servers behave, neither budget is exceeded and
\* every variable has its type: the guards of the loop in investigate.
THEOREM WithinBudgets == Spec => []TypeOK
<1>1. IInv => TypeOK
  BY DEF IInv
<1> QED BY <1>1, InvestigationInvariant, PTL

\* The model is never asked for the next step with a call of its own open.
THEOREM NoCallLeftOpen == Spec => []CallsAreAnswered
<1>1. IInv => CallsAreAnswered
  BY DEF IInv
<1> QED BY <1>1, InvestigationInvariant, PTL

\* report_saved is true iff a save was successful, whose files are then whole
\* and count the save itself: the order of sync_context and call_tool.
THEOREM ReportIsThere == Spec => []SavedReport
<1>1. IInv => SavedReport
  BY DEF IInv
<1> QED BY <1>1, InvestigationInvariant, PTL
=============================================================================
