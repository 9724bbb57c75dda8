--------------------------------- MODULE ItemFlow ---------------------------------
(***************************************************************************)
(* One invocation of the agentic item flow: AgenticModelInvoker.invoke,    *)
(* runItemFlow, the search, the extraction loop with its categorizer,      *)
(* pricing and supervisor stages, the dispatch of the result, and          *)
(* handleAgenticResult, which stores it.                                   *)
(*                                                                         *)
(* What a model, a search or a statement answers is chosen freely from the *)
(* answers the code tells apart.  A candidate is the version of the        *)
(* accumulated extraction it was made from.                                *)
(***************************************************************************)
EXTENDS Integers

CONSTANTS
  MaxAttempts,       \* maxAttempts: 3 unless the input asks for fewer
  MaxPlans,          \* searchLimits.maxPlans
  AutoApproveEnabled \* autoApproveConfig.enabled

ASSUME AttemptsAssumption == MaxAttempts \in Nat \ {0}
ASSUME PlansAssumption == MaxPlans \in Nat \ {0}
ASSUME SwitchAssumption == AutoApproveEnabled \in BOOLEAN

VARIABLES
  pc,
  input,     \* what the invocation works from, read before the flow starts
  contexts,  \* number of search contexts
  initial,   \* of which were there when the extraction began
  queries,   \* planned queries that are left to run
  cursor,    \* contextCursor, from 0
  attempt,
  turns,     \* extraction prompts sent
  read,      \* contexts that were in a prompt
  version,   \* accepted merges into the accumulator
  judged,    \* supervisor verdicts so far, by version
  kept,      \* lastValidated: the version and its verdict
  calls,     \* calls of a model by the extraction and its stages
  result,    \* the payload that is dispatched
  request,   \* agentic_request_logs: none, saved, notified, unnotified
  links,     \* LastSearchLinksJson names sources
  reference, \* item_refs carries this result
  row,       \* agentic_runs.Status
  lastError, \* persistAgenticRunError: none, sent, written
  answer     \* what invoke returns

plan == <<input, contexts, initial, queries>>
reading == <<cursor, turns, read>>
candidate == <<version, judged, kept>>
extraction == <<attempt, reading, candidate, calls>>
stored == <<links, reference, row>>
vars == <<pc, plan, extraction, result, request, stored, lastError, answer>>

Nothing == [version |-> 0, pass |-> FALSE]
NoResult == [by |-> "nobody", version |-> 0, success |-> FALSE, auto |-> FALSE]

Larger(a, b) == IF a > b THEN a ELSE b
Smaller(a, b) == IF a < b THEN a ELSE b

From(here, there) == pc = here /\ pc' = there
Told == UNCHANGED <<lastError, answer>>
Undelivered == UNCHANGED <<result, request, stored>> /\ Told

\* The catch of runItemFlow sends the error to the run's row without awaiting
\* it, and invoke answers ok: false.
Fail ==
  /\ pc' = "answered"
  /\ answer' = "error"
  /\ lastError' = "sent"

-----------------------------------------------------------------------------
(* invoke: target, models, stored sources *)

\* No search key, no item, no reference or no model: nothing is recorded.
Refuse ==
  /\ From("start", "answered")
  /\ answer' = "error"
  /\ UNCHANGED <<plan, extraction, result, request, stored, lastError>>

\* loadItemTarget, the overrides of the request log, the models.
LoadTarget ==
  /\ From("start", "sources")
  /\ \E rework, complete \in BOOLEAN :
       input' = [input EXCEPT !.rework = rework, !.complete = complete]
  /\ UNCHANGED <<contexts, initial, queries, extraction>> /\ Undelivered

LoadModelFails ==
  /\ From("sources", "answered")
  /\ answer' = "error"
  /\ UNCHANGED <<plan, extraction, result, request, stored, lastError>>

\* A review that names missing specs searches afresh; any other run with stored
\* sources does not search, whatever the operator asked for.
ReadStoredSources ==
  /\ From("sources", "prepare")
  /\ \E missing \in BOOLEAN : input' = [input EXCEPT !.skip = links /\ ~missing]
  /\ UNCHANGED <<contexts, initial, queries, extraction>> /\ Undelivered

-----------------------------------------------------------------------------
(* runItemFlow up to the extraction *)

PrepareItemContext ==
  /\ From("prepare", "shopware")
  /\ UNCHANGED <<plan, extraction>> /\ Undelivered

\* The target or a prompt cannot be used.
PrepareFails ==
  /\ pc = "prepare" /\ Fail
  /\ UNCHANGED <<plan, extraction, result, request, stored>>

\* A match with a product page ends the flow.
ShopwareMatch ==
  /\ From("shopware", "save")
  /\ result' = [by |-> "shopware-shortcut", version |-> 0, success |-> TRUE, auto |-> FALSE]
  /\ UNCHANGED <<plan, extraction, request, stored>> /\ Told

\* No match, or any failure of the search, of the model or of its answer.
NoShopwareMatch ==
  /\ From("shopware", "plan")
  /\ UNCHANGED <<plan, extraction>> /\ Undelivered

\* The planner decides and adds queries of its own; a failing planner searches.
PlannerDecisions == [search : BOOLEAN, plans : 0..1]

\* The primary query and those the fields of the target suggest.
FallbackPlans == 1..MaxPlans

PlanSearch ==
  /\ From("plan", "collect")
  /\ ~input.skip
  /\ \E decision \in PlannerDecisions, fallback \in FallbackPlans :
       /\ decision.search
       /\ queries' = Smaller(decision.plans + fallback, MaxPlans)
  /\ UNCHANGED <<input, contexts, initial, extraction>> /\ Undelivered

\* Stored sources become the one context; a planner that saw no need leaves none.
SkipSearch ==
  /\ From("plan", "extract")
  /\ contexts' = IF input.skip THEN 1 ELSE 0
  /\ initial' = contexts'
  /\ UNCHANGED <<input, queries, extraction>> /\ Undelivered

\* One planned query; a failure of it is only counted.
RunQuery ==
  /\ pc = "collect" /\ queries > 0
  /\ queries' = queries - 1
  /\ \E found \in {0, 1} : contexts' = contexts + found
  /\ UNCHANGED <<pc, input, initial, extraction>> /\ Undelivered

RateLimited ==
  /\ pc = "collect" /\ queries > 0 /\ Fail
  /\ UNCHANGED <<plan, extraction, result, request, stored>>

SearchesFailed ==
  /\ pc = "collect" /\ queries = 0 /\ contexts = 0 /\ Fail
  /\ UNCHANGED <<plan, extraction, result, request, stored>>

\* The links are saved before the extraction; a failure of that is swallowed.
PersistSearchLinks ==
  /\ From("collect", "extract")
  /\ queries = 0 /\ contexts > 0
  /\ links' \in {links, TRUE}
  /\ initial' = contexts
  /\ UNCHANGED <<input, contexts, queries, extraction, result, request,
                 reference, row>> /\ Told

-----------------------------------------------------------------------------
(* runExtractionAttempts: one prompt and what becomes of its answer *)

\* The prompt carries the context at the cursor; past the last one it carries
\* the aggregated text of all.
Shown == IF cursor < contexts THEN {cursor} ELSE 0..(contexts - 1)

MayTry == attempt <= MaxAttempts

\* A tool call in place of an answer is asked for again once.
InvokeModel ==
  /\ From("extract", "parse")
  /\ MayTry
  /\ turns' = turns + 1
  /\ read' = read \cup Shown
  /\ \E asked \in 1..2 : calls' = calls + asked
  /\ UNCHANGED <<plan, attempt, cursor, candidate>> /\ Undelivered

ModelFails ==
  /\ pc = "extract" /\ MayTry /\ Fail
  /\ turns' = turns + 1 /\ calls' = calls + 1
  /\ UNCHANGED <<plan, attempt, cursor, read, candidate, result, request, stored>>

\* retry_same_context
Retry == attempt' = attempt + 1 /\ pc' = "extract"

\* No usable text: what was validated before stays.
NoJson ==
  /\ pc = "parse" /\ Retry
  /\ UNCHANGED <<plan, reading, candidate, calls>> /\ Undelivered

\* The correction model was asked, and its answer does not parse either.
InvalidJson ==
  /\ pc = "parse" /\ Retry
  /\ calls' = calls + 1
  /\ UNCHANGED <<plan, reading, candidate>> /\ Undelivered

ParseJson ==
  /\ From("parse", "validate")
  /\ \E corrected \in {0, 1} : calls' = calls + corrected
  /\ UNCHANGED <<plan, attempt, reading, candidate>> /\ Undelivered

Forget == kept' = Nothing /\ UNCHANGED <<version, judged>>

BoundaryFails ==
  /\ pc = "validate" /\ Retry /\ Forget
  /\ UNCHANGED <<plan, reading, calls>> /\ Undelivered

\* Asked about only when required fields are missing.
SchemaCorrections == {0, 1}

SchemaFails ==
  /\ pc = "validate" /\ Retry /\ Forget
  /\ \E asked \in SchemaCorrections : calls' = calls + asked
  /\ UNCHANGED <<plan, reading>> /\ Undelivered

SchemaHolds ==
  /\ From("validate", "route")
  /\ \E asked \in SchemaCorrections : calls' = calls + asked
  /\ UNCHANGED <<plan, attempt, reading, candidate>> /\ Undelivered

\* A valid answer may ask for a search instead of being merged.
SearchRefused ==
  /\ pc = "route" /\ input.skip /\ Retry
  /\ UNCHANGED <<plan, reading, candidate, calls>> /\ Undelivered

AfterSearch == Larger(cursor + 1, contexts)

\* What was found becomes the last context and the cursor goes there.
SearchAgain ==
  /\ pc = "route" /\ ~input.skip /\ Retry /\ Forget
  /\ contexts' = contexts + 1
  /\ cursor' = AfterSearch
  /\ UNCHANGED <<input, initial, queries, turns, read, calls>> /\ Undelivered

SearchAgainFails ==
  /\ pc = "route" /\ ~input.skip /\ Fail
  /\ UNCHANGED <<plan, extraction, result, request, stored>>

MergeFails ==
  /\ pc = "route" /\ Retry /\ Forget
  /\ UNCHANGED <<plan, reading, calls>> /\ Undelivered

\* Wrong variant: the last context is taken for read.
FewerContexts == cursor + 2 < contexts
MoreContexts == cursor + 1 < contexts

\* CONTEXT_ADVANCE uses no attempt.
AdvanceContext ==
  /\ From("route", "extract")
  /\ MoreContexts
  /\ version' = version + 1
  /\ cursor' = cursor + 1
  /\ UNCHANGED <<plan, attempt, turns, read, judged, kept, calls>> /\ Undelivered

CompleteCandidate ==
  /\ From("route", "categorize")
  /\ ~MoreContexts
  /\ version' = version + 1
  /\ UNCHANGED <<plan, attempt, reading, judged, kept, calls>> /\ Undelivered

-----------------------------------------------------------------------------
(* The stages that judge a candidate *)

\* A rework keeps its categories.
Categorize ==
  /\ From("categorize", "price")
  /\ calls' = IF input.rework THEN calls ELSE calls + 1
  /\ UNCHANGED <<plan, attempt, reading, candidate>> /\ Undelivered

CategorizerFails ==
  /\ pc = "categorize" /\ ~input.rework /\ Fail
  /\ calls' = calls + 1
  /\ UNCHANGED <<plan, attempt, reading, candidate, result, request, stored>>

\* A priced candidate and a rework are not asked about; an answer that does not
\* parse is repaired, and so is one with unknown keys.
PricingCalls == IF input.rework THEN {0} ELSE 0..3

\* Pricing never ends the flow.
Price ==
  /\ From("price", "supervise")
  /\ \E asked \in PricingCalls : calls' = calls + asked
  /\ UNCHANGED <<plan, attempt, reading, candidate>> /\ Undelivered

\* The payload for the supervisor is validated once more.
PayloadInvalid ==
  /\ pc = "supervise" /\ Retry /\ Forget
  /\ UNCHANGED <<plan, reading, calls>> /\ Undelivered

\* Wrong variant: the second-category rule is not looked at.
PassAlone(approves, categories) == approves
Passes(approves, categories) == approves /\ categories

Supervise ==
  /\ pc = "supervise"
  /\ calls' = calls + 1
  /\ \E approves, categories \in BOOLEAN :
       LET pass == Passes(approves, categories) IN
         /\ kept' = [version |-> version, pass |-> pass]
         /\ judged' = judged \cup
              {[version |-> version, approves |-> approves, categories |-> categories]}
         /\ IF pass THEN pc' = "result" /\ UNCHANGED attempt ELSE Retry
  /\ UNCHANGED <<plan, reading, version>> /\ Undelivered

SupervisorFails ==
  /\ pc = "supervise" /\ Fail
  /\ calls' = calls + 1
  /\ UNCHANGED <<plan, attempt, reading, candidate, result, request, stored>>

\* The attempts are used up: the last validated candidate goes on, if there is one.
AttemptsUsed ==
  /\ From("extract", "result")
  /\ attempt > MaxAttempts /\ kept # Nothing
  /\ UNCHANGED <<plan, extraction>> /\ Undelivered

ExtractionFails ==
  /\ pc = "extract" /\ attempt > MaxAttempts /\ kept = Nothing /\ Fail
  /\ UNCHANGED <<plan, extraction, result, request, stored>>

-----------------------------------------------------------------------------
(* The payload, its dispatch, and handleAgenticResult *)

AutoApprovable(confident) == kept.pass /\ input.complete /\ confident

BuildCallbackPayload ==
  /\ From("result", "save")
  /\ \E confident \in BOOLEAN :
       result' = [by |-> "supervisor-agent", version |-> kept.version,
                  success |-> kept.pass, auto |-> AutoApprovable(confident)]
  /\ UNCHANGED <<plan, extraction, request, stored>> /\ Told

\* Wrong variant: the request is marked before the result is applied.
NotifyFirst ==
  /\ From("save", "notify")
  /\ request' = "saved"
  /\ UNCHANGED <<plan, extraction, result, stored>> /\ Told

SaveRequestPayload ==
  /\ From("save", "apply")
  /\ request' = "saved"
  /\ UNCHANGED <<plan, extraction, result, stored>> /\ Told

SaveRequestPayloadFails ==
  /\ pc = "save" /\ Fail
  /\ UNCHANGED <<plan, extraction, result, request, stored>>

\* A payload that is no success carries an error, and an error means failed.
StatusFor(r) ==
  CASE ~r.success                                -> "failed"
    [] r.success /\ r.by = "shopware-shortcut"   -> "approved"
    [] r.success /\ r.auto /\ AutoApproveEnabled -> "auto_approved"
    [] OTHER                                     -> "review"

\* The reference is written before the run, both through the pool.
ApplyReference ==
  /\ From("apply", "applyRun")
  /\ reference' = TRUE
  /\ UNCHANGED <<plan, extraction, result, request, links, row>> /\ Told

\* The links of this run, or none when it has no sources.
ResultLinks ==
  CASE result.by = "shopware-shortcut" -> {TRUE}
    [] contexts = 0 /\ result.by = "supervisor-agent" -> {FALSE}
    [] OTHER -> BOOLEAN

\* The run is stored whatever its row says by now.
ApplyRun ==
  /\ From("applyRun", "notify")
  /\ row' = StatusFor(result)
  /\ links' \in ResultLinks
  /\ UNCHANGED <<plan, extraction, result, request, reference>> /\ Told

MarkNotificationSuccess ==
  /\ From("notify", "answered")
  /\ request' = "notified"
  /\ answer' = "ok"
  /\ UNCHANGED <<plan, extraction, result, stored, lastError>>

\* The handler, a write of it, or the mark throws; marking the failure may, too.
DispatchFails ==
  /\ pc \in {"apply", "applyRun", "notify"} /\ Fail
  /\ request' \in {"saved", "unnotified"}
  /\ UNCHANGED <<plan, extraction, result, stored>>

\* The un-awaited update of LastError and LastAttemptAt.
PersistLastError ==
  /\ lastError = "sent"
  /\ lastError' = "written"
  /\ UNCHANGED <<pc, plan, extraction, result, request, stored, answer>>

-----------------------------------------------------------------------------

Init ==
  /\ pc = "start"
  /\ input = [skip |-> FALSE, rework |-> FALSE, complete |-> FALSE]
  /\ contexts = 0 /\ initial = 0 /\ queries = 0
  /\ cursor = 0 /\ attempt = 1 /\ turns = 0 /\ read = {} /\ calls = 0
  /\ version = 0 /\ judged = {} /\ kept = Nothing
  /\ result = NoResult /\ request = "none"
  /\ links \in BOOLEAN /\ reference = FALSE /\ row = "running"
  /\ lastError = "none" /\ answer = "none"

Setup == Refuse \/ LoadTarget \/ LoadModelFails \/ ReadStoredSources \/ PrepareItemContext
           \/ PrepareFails \/ ShopwareMatch \/ NoShopwareMatch
Search == PlanSearch \/ SkipSearch \/ RunQuery \/ RateLimited \/ SearchesFailed
            \/ PersistSearchLinks
Extract == InvokeModel \/ ModelFails \/ NoJson \/ InvalidJson \/ ParseJson \/ BoundaryFails
             \/ SchemaFails \/ SchemaHolds \/ SearchRefused \/ SearchAgain \/ SearchAgainFails
             \/ MergeFails \/ AdvanceContext \/ CompleteCandidate \/ AttemptsUsed
             \/ ExtractionFails
Judge == Categorize \/ CategorizerFails \/ Price \/ PayloadInvalid \/ Supervise
           \/ SupervisorFails
Dispatch == BuildCallbackPayload \/ SaveRequestPayload \/ SaveRequestPayloadFails
              \/ ApplyReference \/ ApplyRun \/ MarkNotificationSuccess \/ DispatchFails

Next == Setup \/ Search \/ Extract \/ Judge \/ Dispatch \/ PersistLastError

Spec == Init /\ [][Next]_vars

\* Models, searches and PostgreSQL answer or time out.
FairSpec == Spec /\ WF_vars(Next)

-----------------------------------------------------------------------------
(* Properties *)

\* The variables stay in their sets.
TypeOK ==
  /\ pc \in {"start", "sources", "prepare", "shopware", "plan", "collect", "extract",
             "parse", "validate", "route", "categorize", "price", "supervise",
             "result", "save", "apply", "applyRun", "notify", "answered"}
  /\ input \in [skip : BOOLEAN, rework : BOOLEAN, complete : BOOLEAN]
  /\ contexts \in Nat /\ initial \in Nat /\ queries \in 0..MaxPlans
  /\ cursor \in Nat /\ attempt \in 1..(MaxAttempts + 1) /\ turns \in Nat /\ calls \in Nat
  /\ read \subseteq Nat /\ version \in Nat
  /\ judged \subseteq [version : Nat, approves : BOOLEAN, categories : BOOLEAN]
  /\ kept \in [version : Nat, pass : BOOLEAN]
  /\ result \in [by : {"nobody", "shopware-shortcut", "supervisor-agent"},
                 version : Nat, success : BOOLEAN, auto : BOOLEAN]
  /\ request \in {"none", "saved", "notified", "unnotified"}
  /\ links \in BOOLEAN /\ reference \in BOOLEAN
  /\ row \in {"running", "review", "approved", "auto_approved", "failed"}
  /\ lastError \in {"none", "sent", "written"}
  /\ answer \in {"none", "ok", "error"}

\* The loop has no ceiling of its own on context passes.  That the attempts and
\* the contexts found first bound the prompts and the model calls depends on every
\* branch of runExtractionAttempts using an attempt or leaving a context for good.
WorkBounded ==
  /\ turns <= MaxAttempts + Larger(0, initial - 1)
  /\ calls <= 4 * turns + 5 * MaxAttempts

\* A candidate reaches the stages that judge it only after the newest context was
\* read; a context that was passed over was passed over by a search the model asked for.
JudgedWithNewest ==
  pc \in {"categorize", "price", "supervise"} =>
    /\ contexts > 0 => contexts - 1 \in read
    /\ ~(0..(contexts - 1) \subseteq read) => contexts > initial

\* A run is left for review or approved automatically only with data the supervisor
\* passed with valid categories, whatever failed before or after that verdict: the
\* version that is stored is the one that was judged.
StoredAsJudged ==
  /\ row \in {"review", "auto_approved"} =>
       [version |-> result.version, approves |-> TRUE, categories |-> TRUE] \in judged
  /\ row = "failed" =>
       \E j \in judged : j.version = result.version /\ ~(j.approves /\ j.categories)
  /\ row = "auto_approved" => input.complete
  /\ row = "approved" => judged = {}

\* The invocation keeps the contract the run orchestration builds on.
Contract == INSTANCE Invocation WITH
  phase <- CASE answer = "ok" -> "ok"
             [] answer = "error" /\ row = "running" -> "failed"
             [] answer = "error" /\ row # "running" -> "stored but failed"
             [] answer = "none" /\ row # "running" -> "stored"
             [] OTHER -> "working"

\* One result at most, ok only for a stored one, and an answer in the end
\* (invoke, runItemFlow, dispatchAgenticResult).
ImplementsInvocation == Contract!Spec

================================================================================
