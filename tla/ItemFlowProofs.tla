------------------------------ MODULE ItemFlowProofs ------------------------------
(***************************************************************************)
(* What holds of one invocation of the item flow for any number of attempts *)
(* and planned searches, whatever the models and searches answer: how much  *)
(* work it does, what a candidate was judged with, that what is stored is   *)
(* what was judged, and that it keeps the safety part of its contract.      *)
(***************************************************************************)
EXTENDS ItemFlow, TLAPS

Before == {"start", "sources", "prepare", "shopware", "plan", "collect"}
Reading == {"parse", "validate", "route"}
Judging == {"categorize", "price", "supervise"}
Sending == {"save", "apply", "applyRun", "notify"}
After == Sending \cup {"result", "answered"}

Spare == Larger(0, initial - 1)

-----------------------------------------------------------------------------
(* The inductive invariant *)

\* Nothing is extracted before the search has ended, and a prompt is out only while an
\* attempt is left.
Started ==
  /\ pc \in Before =>
       /\ cursor = 0 /\ attempt = 1 /\ turns = 0 /\ calls = 0
       /\ judged = {} /\ kept = Nothing
  /\ pc \in Reading \cup Judging => attempt <= MaxAttempts
  /\ contexts >= initial

\* The attempts used up, the one under way with them.
Used == IF pc \in Reading \cup Judging THEN attempt ELSE attempt - 1

\* A prompt uses an attempt or leaves one of the contexts found first; a search the model
\* asked for puts the cursor where no context is left to go to.
Prompted ==
  /\ pc \notin Before \cup After /\ contexts = initial => cursor <= Spare /\ turns <= Used + cursor
  /\ pc \notin Before \cup After /\ contexts > initial => cursor + 1 >= contexts
  /\ pc \notin Before \cup After => turns <= Used + Spare
  /\ pc \in After => turns <= MaxAttempts + Spare
  /\ pc \in Judging => ~MoreContexts

\* The calls of the prompt and of the stages that are still to come at each place.
Called ==
  /\ pc \in {"extract", "route", "categorize"} => calls <= 4 * turns + 5 * (attempt - 1)
  /\ pc = "parse" => calls <= 4 * turns + 5 * (attempt - 1) - 2
  /\ pc = "validate" => calls <= 4 * turns + 5 * (attempt - 1) - 1
  /\ pc = "price" => calls <= 4 * turns + 5 * (attempt - 1) + 1
  /\ pc = "supervise" => calls <= 4 * turns + 5 * (attempt - 1) + 4
  /\ pc \in After => calls <= 4 * turns + 5 * MaxAttempts

\* The prompt that is answered carried what the cursor shows, and without a further
\* search every context before the cursor was in a prompt.
Covered ==
  /\ pc \in Reading \cup Judging => Shown \subseteq read
  /\ pc \notin Before \cup After /\ contexts = initial => 0..(cursor - 1) \subseteq read

Verdict(v, pass) == \E j \in judged : j.version = v /\ pass = (j.approves /\ j.categories)

\* What was kept was judged; the result carries what was kept; the row tells the result.
Kept ==
  /\ kept # Nothing => Verdict(kept.version, kept.pass)
  /\ pc = "result" => kept # Nothing
  /\ pc \notin Sending \cup {"answered"} => result = NoResult
  /\ pc \in Sending => result.by # "nobody"
  /\ result.by = "supervisor-agent" => Verdict(result.version, result.success)
  /\ result.by = "shopware-shortcut" => judged = {} /\ result.success
  /\ result.auto => input.complete /\ result.by = "supervisor-agent"
  /\ row # "running" => row = StatusFor(result) /\ result.by # "nobody"

\* The invocation is answered at its end, and stores before it says ok.
Answered ==
  /\ answer = "none" <=> pc # "answered"
  /\ pc \notin {"notify", "answered"} => row = "running"
  /\ pc = "notify" => row # "running"
  /\ answer = "ok" => row # "running"

Inv == TypeOK /\ Started /\ Prompted /\ Called /\ Covered /\ Kept /\ Answered

-----------------------------------------------------------------------------

\* It holds at the start: nothing is read, judged or sent.
LEMMA InitInv == Init => Inv
<1>. SUFFICES ASSUME Init PROVE Inv
  OBVIOUS
<1>. USE AttemptsAssumption, PlansAssumption DEF Init, Before, Nothing, NoResult
<1>1. TypeOK
  <2>1. input \in [skip : BOOLEAN, rework : BOOLEAN, complete : BOOLEAN]
    OBVIOUS
  <2>2. kept \in [version : Nat, pass : BOOLEAN]
    OBVIOUS
  <2>3. result \in [by : {"nobody", "shopware-shortcut", "supervisor-agent"},
                   version : Nat, success : BOOLEAN, auto : BOOLEAN]
    OBVIOUS
  <2>4. attempt \in 1..(MaxAttempts + 1) /\ queries \in 0..MaxPlans
    OBVIOUS
  <2>. QED BY <2>1, <2>2, <2>3, <2>4 DEF TypeOK
<1>2. Started /\ Answered
  BY DEF Started, Answered, Reading, Judging
<1>3. Prompted /\ Called /\ Covered
  BY DEF Prompted, Called, Covered, After, Sending, Reading, Judging
<1>4. Kept
  BY DEF Kept, Sending
<1>. QED BY <1>1, <1>2, <1>3, <1>4 DEF Inv

-----------------------------------------------------------------------------
(* Every step *)

\* Loading what the run is about, and refusing to.
LEMMA SetupInv ==
  ASSUME Inv, Setup
  PROVE  Inv'
<1>. USE AttemptsAssumption, PlansAssumption, SwitchAssumption
     DEF From, Told, Undelivered, Fail, plan, reading, candidate, extraction, stored, Nothing,
         Before, Reading, Judging, Sending, After, Inv, TypeOK, Started, Prompted, Used, Spare,
         Larger, MoreContexts, Called, Covered, Shown, Kept, Verdict, StatusFor, NoResult, Answered
<1>1. CASE Refuse
  BY <1>1 DEF Refuse
<1>2. CASE LoadTarget
  <2>1. input' \in [skip : BOOLEAN, rework : BOOLEAN, complete : BOOLEAN]
    BY <1>2 DEF LoadTarget
  <2>2. pc = "start" /\ pc' = "sources"
        /\ UNCHANGED <<contexts, initial, queries, extraction, result, request, stored,
                       lastError, answer>>
    BY <1>2 DEF LoadTarget
  <2>. QED BY <2>1, <2>2
<1>3. CASE LoadModelFails
  BY <1>3 DEF LoadModelFails
<1>4. CASE ReadStoredSources
  BY <1>4 DEF ReadStoredSources
<1>5. CASE PrepareItemContext
  BY <1>5 DEF PrepareItemContext
<1>6. CASE PrepareFails
  BY <1>6 DEF PrepareFails
<1>7. CASE ShopwareMatch
  BY <1>7 DEF ShopwareMatch
<1>8. CASE NoShopwareMatch
  BY <1>8 DEF NoShopwareMatch
<1>. QED BY <1>1, <1>2, <1>3, <1>4, <1>5, <1>6, <1>7, <1>8 DEF Setup

\* Planning and searching, and what a search that fails does to the run.
LEMMA SearchInv ==
  ASSUME Inv, Search
  PROVE  Inv'
<1>. USE AttemptsAssumption, PlansAssumption, SwitchAssumption
     DEF From, Told, Undelivered, Fail, plan, reading, candidate, extraction, stored, Nothing,
         Before, Reading, Judging, Sending, After, Inv, TypeOK, Started, Prompted, Used, Spare,
         Larger, MoreContexts, Called, Covered, Shown, Kept, Verdict, StatusFor, NoResult, Answered
<1>1. CASE PlanSearch
  BY <1>1 DEF PlanSearch, PlannerDecisions, FallbackPlans, Smaller
<1>2. CASE SkipSearch
  BY <1>2 DEF SkipSearch
<1>3. CASE RunQuery
  BY <1>3 DEF RunQuery
<1>4. CASE RateLimited
  BY <1>4 DEF RateLimited
<1>5. CASE SearchesFailed
  BY <1>5 DEF SearchesFailed
<1>6. CASE PersistSearchLinks
  <2>1. links' \in BOOLEAN /\ initial' = contexts
    BY <1>6 DEF PersistSearchLinks
  <2>2. /\ pc = "collect" /\ pc' = "extract" /\ queries = 0
        /\ UNCHANGED <<input, contexts, queries, extraction, result, request, reference, row,
                       lastError, answer>>
    BY <1>6 DEF PersistSearchLinks
  <2>. QED BY <2>1, <2>2
<1>. QED BY <1>1, <1>2, <1>3, <1>4, <1>5, <1>6 DEF Search

\* Extraction: attempts, answers that cannot be used, and searches asked for on the way.
LEMMA ExtractInv ==
  ASSUME Inv, Extract
  PROVE  Inv'
<1>. USE AttemptsAssumption, PlansAssumption, SwitchAssumption
     DEF From, Told, Undelivered, Fail, plan, reading, candidate, extraction, stored, Nothing,
         Before, Reading, Judging, Sending, After, Inv, TypeOK, Started, Prompted, Used, Spare,
         Larger, MoreContexts, Called, Covered, Shown, Kept, Verdict, StatusFor, NoResult, Answered
<1>1. CASE InvokeModel
  BY <1>1 DEF InvokeModel, MayTry
<1>2. CASE ModelFails
  BY <1>2 DEF ModelFails, MayTry
<1>3. CASE NoJson
  BY <1>3 DEF NoJson, Retry
<1>4. CASE InvalidJson
  BY <1>4 DEF InvalidJson, Retry
<1>5. CASE ParseJson
  BY <1>5 DEF ParseJson
<1>6. CASE BoundaryFails
  BY <1>6 DEF BoundaryFails, Retry, Forget
<1>7. CASE SchemaFails
  BY <1>7 DEF SchemaFails, Retry, Forget, SchemaCorrections
<1>8. CASE SchemaHolds
  BY <1>8 DEF SchemaHolds, SchemaCorrections
<1>9. CASE SearchRefused
  BY <1>9 DEF SearchRefused, Retry
<1>10. CASE SearchAgain
  BY <1>10 DEF SearchAgain, Retry, Forget, AfterSearch
<1>11. CASE SearchAgainFails
  BY <1>11 DEF SearchAgainFails
<1>12. CASE MergeFails
  BY <1>12 DEF MergeFails, Retry, Forget
<1>13. CASE AdvanceContext
  BY <1>13 DEF AdvanceContext
<1>14. CASE CompleteCandidate
  BY <1>14 DEF CompleteCandidate
<1>15. CASE AttemptsUsed
  BY <1>15 DEF AttemptsUsed
<1>16. CASE ExtractionFails
  BY <1>16 DEF ExtractionFails
<1>. QED BY <1>1, <1>2, <1>3, <1>4, <1>5, <1>6, <1>7, <1>8, <1>9, <1>10, <1>11, <1>12, <1>13,
       <1>14, <1>15, <1>16 DEF Extract

\* The categorizer and the supervisor, on the candidate of this attempt.
LEMMA JudgeInv ==
  ASSUME Inv, Judge
  PROVE  Inv'
<1>. USE AttemptsAssumption, PlansAssumption, SwitchAssumption
     DEF From, Told, Undelivered, Fail, plan, reading, candidate, extraction, stored, Nothing,
         Before, Reading, Judging, Sending, After, Inv, TypeOK, Started, Prompted, Used, Spare,
         Larger, MoreContexts, Called, Covered, Shown, Kept, Verdict, StatusFor, NoResult, Answered
<1>1. CASE Categorize
  BY <1>1 DEF Categorize
<1>2. CASE CategorizerFails
  BY <1>2 DEF CategorizerFails
<1>3. CASE Price
  BY <1>3 DEF Price, PricingCalls
<1>4. CASE PayloadInvalid
  BY <1>4 DEF PayloadInvalid, Retry, Forget
<1>5. CASE Supervise
  <2>1. PICK approves \in BOOLEAN, categories \in BOOLEAN :
          LET pass == approves /\ categories IN
            /\ kept' = [version |-> version, pass |-> pass]
            /\ judged' = judged \cup
                 {[version |-> version, approves |-> approves, categories |-> categories]}
            /\ IF pass THEN pc' = "result" /\ UNCHANGED attempt
                       ELSE attempt' = attempt + 1 /\ pc' = "extract"
    BY <1>5 DEF Supervise, Retry, Passes
  <2>2. /\ pc = "supervise" /\ calls' = calls + 1
        /\ UNCHANGED <<plan, reading, version, result, request, stored, lastError, answer>>
    BY <1>5 DEF Supervise
  <2>3. TypeOK'
    BY <2>1, <2>2
  <2>4. Kept'
    <3>1. Verdict(version, approves /\ categories)'
      <4>. DEFINE j == [version |-> version, approves |-> approves, categories |-> categories]
      <4>1. j.version = version /\ (j.approves /\ j.categories) = (approves /\ categories)
        OBVIOUS
      <4>2. j \in judged' /\ version' = version
        BY <2>1, <2>2
      <4>. HIDE DEF j
      <4>. QED BY <4>1, <4>2
    <3>. QED BY <2>1, <2>2, <3>1
  <2>5. (Started /\ Prompted /\ Called /\ Covered /\ Answered)'
    BY <2>1, <2>2
  <2>. QED BY <2>3, <2>4, <2>5
<1>6. CASE SupervisorFails
  BY <1>6 DEF SupervisorFails
<1>. QED BY <1>1, <1>2, <1>3, <1>4, <1>5, <1>6 DEF Judge

\* Building, keeping and sending the one result.
LEMMA DispatchInv ==
  ASSUME Inv, Dispatch
  PROVE  Inv'
<1>. USE AttemptsAssumption, PlansAssumption, SwitchAssumption
     DEF From, Told, Undelivered, Fail, plan, reading, candidate, extraction, stored, Nothing,
         Before, Reading, Judging, Sending, After, Inv, TypeOK, Started, Prompted, Used, Spare,
         Larger, MoreContexts, Called, Covered, Shown, Kept, Verdict, StatusFor, NoResult, Answered
<1>1. CASE BuildCallbackPayload
  BY <1>1 DEF BuildCallbackPayload, AutoApprovable
<1>2. CASE SaveRequestPayload
  BY <1>2 DEF SaveRequestPayload
<1>3. CASE SaveRequestPayloadFails
  BY <1>3 DEF SaveRequestPayloadFails
<1>4. CASE ApplyReference
  BY <1>4 DEF ApplyReference
<1>5. CASE ApplyRun
  <2>1. row' = StatusFor(result) /\ links' \in BOOLEAN
    BY <1>5 DEF ApplyRun, ResultLinks
  <2>2. StatusFor(result) \in {"review", "approved", "auto_approved", "failed"}
    OBVIOUS
  <2>3. /\ pc = "applyRun" /\ pc' = "notify"
        /\ UNCHANGED <<plan, extraction, result, request, reference, lastError, answer>>
    BY <1>5 DEF ApplyRun
  <2>. QED BY <2>1, <2>2, <2>3
<1>6. CASE MarkNotificationSuccess
  BY <1>6 DEF MarkNotificationSuccess
<1>7. CASE DispatchFails
  BY <1>7 DEF DispatchFails
<1>. QED BY <1>1, <1>2, <1>3, <1>4, <1>5, <1>6, <1>7 DEF Dispatch

\* The invariant is inductive.
LEMMA NextInv == Inv /\ [Next]_vars => Inv'
<1>. SUFFICES ASSUME Inv, [Next]_vars PROVE Inv'
  OBVIOUS
<1>1. CASE UNCHANGED vars
  BY <1>1 DEF vars, plan, reading, candidate, extraction, stored, Inv, TypeOK, Started, Prompted,
              Used, Spare, Called, Covered, Shown, Kept, Verdict, StatusFor, Answered, MoreContexts
<1>2. CASE PersistLastError
  BY <1>2 DEF PersistLastError, plan, reading, candidate, extraction, stored, Inv, TypeOK, Started,
              Prompted, Used, Spare, Called, Covered, Shown, Kept, Verdict, StatusFor, Answered,
              MoreContexts
<1>. QED BY <1>1, <1>2, SetupInv, SearchInv, ExtractInv, JudgeInv, DispatchInv DEF Next

LEMMA InvHolds == Spec => []Inv
<1>. QED BY InitInv, NextInv, PTL DEF Spec

-----------------------------------------------------------------------------
(* The contract of an invocation *)

\* A step that fails answers "error"; what was stored stays.
FailSteps == Refuse \/ LoadModelFails \/ PrepareFails \/ RateLimited \/ SearchesFailed \/ ModelFails
               \/ SearchAgainFails \/ CategorizerFails \/ SupervisorFails \/ ExtractionFails
               \/ SaveRequestPayloadFails \/ DispatchFails

LEMMA FailuresAnswer ==
  ASSUME Inv, FailSteps
  PROVE  answer = "none" /\ answer' = "error" /\ row' = row
<1>. USE DEF stored, Fail, From, Told, Undelivered
<1>1. pc # "answered" /\ answer' = "error" /\ row' = row
  BY DEF FailSteps, Refuse, LoadModelFails, PrepareFails, RateLimited, SearchesFailed, ModelFails,
         SearchAgainFails, CategorizerFails, SupervisorFails, ExtractionFails,
         SaveRequestPayloadFails, DispatchFails
<1>. QED BY <1>1 DEF Inv, Answered

\* What a step changes of the answer and the row: nothing but the one result and, once,
\* the answer.
LEMMA OutwardSteps ==
  ASSUME Inv, [Next]_vars
  PROVE  \/ UNCHANGED <<answer, row>>
         \/ answer = "none" /\ answer' = "none" /\ row = "running" /\ row' # "running"
         \/ answer = "none" /\ answer' = "error" /\ row' = row
         \/ answer = "none" /\ answer' = "ok" /\ row' = row /\ row # "running"
<1>. USE DEF stored, Undelivered, Told, From
<1>1. CASE Next /\ ~FailSteps /\ ~ApplyRun /\ ~MarkNotificationSuccess
  <2>1. CASE Setup
    BY <1>1, <2>1 DEF Setup, FailSteps, LoadTarget, ReadStoredSources, PrepareItemContext,
                      ShopwareMatch, NoShopwareMatch
  <2>2. CASE Search
    BY <1>1, <2>2 DEF Search, FailSteps, PlanSearch, SkipSearch, RunQuery, PersistSearchLinks
  <2>3. CASE Extract
    BY <1>1, <2>3 DEF Extract, FailSteps, InvokeModel, NoJson, InvalidJson, ParseJson,
                      BoundaryFails, SchemaFails, SchemaHolds, SearchRefused, SearchAgain,
                      MergeFails, AdvanceContext, CompleteCandidate, AttemptsUsed
  <2>4. CASE Judge
    BY <1>1, <2>4 DEF Judge, FailSteps, Categorize, Price, PayloadInvalid, Supervise
  <2>5. CASE Dispatch \/ PersistLastError
    BY <1>1, <2>5 DEF Dispatch, FailSteps, BuildCallbackPayload, SaveRequestPayload,
                      ApplyReference, PersistLastError
  <2>. QED BY <1>1, <2>1, <2>2, <2>3, <2>4, <2>5 DEF Next
<1>2. CASE FailSteps
  BY <1>2, FailuresAnswer
<1>3. CASE ApplyRun
  BY <1>3 DEF ApplyRun, StatusFor, Inv, Answered
<1>4. CASE MarkNotificationSuccess
  BY <1>4 DEF MarkNotificationSuccess, Inv, Answered
<1>5. CASE UNCHANGED vars
  BY <1>5 DEF vars
<1>. QED BY <1>1, <1>2, <1>3, <1>4, <1>5

-----------------------------------------------------------------------------
(* Results *)

\* Every variable of an invocation keeps its type; in particular the attempts never
\* exceed their maximum by more than one.
THEOREM TypeCorrect == Spec => []TypeOK
<1>1. Inv => TypeOK
  BY DEF Inv
<1>. QED BY <1>1, InvHolds, PTL

\* The extraction sends no more prompts, and the stages together make no more calls, than
\* the attempts and the contexts found first allow: no branch of the loop is free.
THEOREM WorkIsBounded == Spec => []WorkBounded
<1>1. Inv => WorkBounded
  <2>. SUFFICES ASSUME Inv PROVE WorkBounded
    OBVIOUS
  <2>. USE AttemptsAssumption DEF Inv, TypeOK, Spare, Larger
  <2>1. turns <= MaxAttempts + Spare
    <3>1. pc \notin Before \cup After => turns <= MaxAttempts + Spare
      BY DEF Started, Prompted, Used
    <3>2. pc \in Before => turns = 0
      BY DEF Started
    <3>3. pc \in After => turns <= MaxAttempts + Spare
      BY DEF Prompted
    <3>. QED BY <3>1, <3>2, <3>3
  <2>2. calls <= 4 * turns + 5 * MaxAttempts
    <3>1. pc \in Reading \cup Judging \cup {"extract"} => calls <= 4 * turns + 5 * MaxAttempts
      BY DEF Started, Called, Reading, Judging
    <3>2. pc \in Before => calls = 0
      BY DEF Started
    <3>3. pc \in After => calls <= 4 * turns + 5 * MaxAttempts
      BY DEF Called
    <3>. QED BY <3>1, <3>2, <3>3 DEF Before, After, Sending, Reading, Judging
  <2>. QED BY <2>1, <2>2 DEF WorkBounded
<1>. QED BY <1>1, InvHolds, PTL

\* Whatever the model asks to be searched again, a candidate is judged only after the
\* newest context was read, and without such a search after all of them were.
THEOREM NewestIsRead == Spec => []JudgedWithNewest
<1>1. Inv => JudgedWithNewest
  <2>. SUFFICES ASSUME Inv, pc \in Judging PROVE JudgedWithNewest
    BY DEF JudgedWithNewest, Judging
  <2>1. /\ contexts \in Nat /\ cursor \in Nat /\ initial \in Nat /\ contexts >= initial
        /\ cursor + 1 >= contexts /\ Shown \subseteq read
        /\ contexts = initial => 0..(cursor - 1) \subseteq read
    BY DEF Inv, TypeOK, Started, Prompted, Covered, MoreContexts, Before, After, Sending, Judging
  <2>2. contexts > 0 => contexts - 1 \in read
    BY <2>1 DEF Shown
  <2>3. contexts = initial => 0..(contexts - 1) \subseteq read
    <3>1. CASE cursor >= contexts
      BY <3>1, <2>1 DEF Shown
    <3>2. CASE cursor = contexts - 1
      BY <3>2, <2>1 DEF Shown
    <3>. QED BY <3>1, <3>2, <2>1
  <2>. QED BY <2>1, <2>2, <2>3 DEF JudgedWithNewest
<1>. QED BY <1>1, InvHolds, PTL

\* What a run is left with was judged: reviewed or approved data passed the supervisor
\* with valid categories, failed data did not, a direct match was never judged.
THEOREM StoredIsJudged == Spec => []StoredAsJudged
<1>1. Inv => StoredAsJudged
  <2>. SUFFICES ASSUME Inv PROVE StoredAsJudged
    OBVIOUS
  <2>1. row # "running" => row = StatusFor(result) /\ result.by # "nobody"
    BY DEF Inv, Kept
  <2>2. result.by \in {"nobody", "shopware-shortcut", "supervisor-agent"}
        /\ result.success \in BOOLEAN
    BY DEF Inv, TypeOK
  <2>3. result.by = "shopware-shortcut" => judged = {} /\ result.success /\ ~result.auto
    BY DEF Inv, Kept
  <2>4. \A j \in judged : j.approves /\ j.categories =>
          j = [version |-> j.version, approves |-> TRUE, categories |-> TRUE]
    BY DEF Inv, TypeOK
  <2>5. row \in {"review", "auto_approved"} =>
          [version |-> result.version, approves |-> TRUE, categories |-> TRUE]
                            \in judged
    <3>. SUFFICES ASSUME row \in {"review", "auto_approved"}
                  PROVE  [version |-> result.version, approves |-> TRUE, categories |-> TRUE]
                            \in judged
      OBVIOUS
    <3>1. result.by = "supervisor-agent" /\ result.success
      BY <2>1, <2>2, <2>3 DEF StatusFor
    <3>2. PICK j \in judged : j.version = result.version /\ j.approves /\ j.categories
      BY <3>1 DEF Inv, Kept, Verdict
    <3>. QED BY <3>2, <2>4
  <2>6. row = "failed" => \E j \in judged : j.version = result.version /\ ~(j.approves /\ j.categories)
    <3>. SUFFICES ASSUME row = "failed"
                  PROVE  \E j \in judged : j.version = result.version /\ ~(j.approves /\ j.categories)
      OBVIOUS
    <3>1. result.by = "supervisor-agent" /\ ~result.success
      BY <2>1, <2>2, <2>3 DEF StatusFor
    <3>. QED BY <3>1 DEF Inv, Kept, Verdict
  <2>7. row = "auto_approved" => input.complete
    BY <2>1, <2>2, <2>3 DEF StatusFor, Inv, Kept
  <2>8. row = "approved" => judged = {}
    BY <2>1, <2>2, <2>3 DEF StatusFor
  <2>. QED BY <2>5, <2>6, <2>7, <2>8 DEF StoredAsJudged
<1>. QED BY <1>1, InvHolds, PTL

\* Every step of an invocation is one its contract knows, or none: one result at most,
\* one answer, ok only for what was stored.
THEOREM KeepsContract == Spec => Contract!Safe
<1>. DEFINE phase == CASE answer = "ok" -> "ok"
                       [] answer = "error" /\ row = "running" -> "failed"
                       [] answer = "error" /\ row # "running" -> "stored but failed"
                       [] answer = "none" /\ row # "running" -> "stored"
                       [] OTHER -> "working"
<1>1. Init => Contract!Init
  BY DEF Init, Contract!Init
<1>2. Inv /\ [Next]_vars => [Contract!Next]_phase
  <2>. SUFFICES ASSUME Inv, [Next]_vars PROVE [Contract!Next]_phase
    OBVIOUS
  <2>1. \/ UNCHANGED <<answer, row>>
        \/ answer = "none" /\ answer' = "none" /\ row = "running" /\ row' # "running"
        \/ answer = "none" /\ answer' = "error" /\ row' = row
        \/ answer = "none" /\ answer' = "ok" /\ row' = row /\ row # "running"
    BY OutwardSteps
  <2>2. CASE UNCHANGED <<answer, row>>
    BY <2>2
  <2>3. CASE answer = "none" /\ answer' = "none" /\ row = "running" /\ row' # "running"
    <3>1. phase = "working" /\ phase' = "stored"
      BY <2>3
    <3>. QED BY <3>1 DEF Contract!Next, Contract!Store, Contract!Step
  <2>4. CASE answer = "none" /\ answer' = "error" /\ row' = row
    <3>1. CASE row = "running"
      <4>1. phase = "working" /\ phase' = "failed"
        BY <2>4, <3>1
      <4>. QED BY <4>1 DEF Contract!Next, Contract!Fail, Contract!Step
    <3>2. CASE row # "running"
      <4>1. phase = "stored" /\ phase' = "stored but failed"
        BY <2>4, <3>2
      <4>. QED BY <4>1 DEF Contract!Next, Contract!FailLate, Contract!Step
    <3>. QED BY <3>1, <3>2
  <2>5. CASE answer = "none" /\ answer' = "ok" /\ row' = row /\ row # "running"
    <3>1. phase = "stored" /\ phase' = "ok"
      BY <2>5
    <3>. QED BY <3>1 DEF Contract!Next, Contract!Succeed, Contract!Step
  <2>. QED BY <2>1, <2>2, <2>3, <2>4, <2>5
<1>. QED BY <1>1, <1>2, InvHolds, PTL DEF Spec, Contract!Safe

===================================================================================
