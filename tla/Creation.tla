-------------------------------- MODULE Creation --------------------------------
(***************************************************************************)
(* The entry of a device: the wizard of the browser (ItemCreate), the      *)
(* number it draws for a new article, and POST /api/import/item.           *)
(*                                                                         *)
(* An operator takes one device after the other, picks the article it is   *)
(* another piece of or enters a new one, judges its condition or skips     *)
(* that, and submits.  The server reads first and writes later, statement  *)
(* by statement: its transaction callback uses the pool, so what was       *)
(* written stays when a later statement fails (PooledTransactions).        *)
(* Pictures, boxes and printed labels are left out; ids of pieces are      *)
(* fresh (IdMinting).                                                      *)
(***************************************************************************)
EXTENDS Integers, FiniteSets

CONSTANTS
  Tabs,         \* wizards open at once, one operator each
  MaxDevice,    \* bound: devices entered
  MaxArticle,   \* bound: article numbers
  MaxUnits,     \* bound: pieces asked for at once
  MaxFaults,    \* bound: failing statements, crashes and lost answers
  Known,        \* articles with a reference row at the start
  Stocked       \* those of them with pieces in stock

ASSUME BoundsAssumption ==
  MaxDevice \in Nat /\ MaxArticle \in Nat /\ MaxUnits \in Nat \ {0} /\ MaxFaults \in Nat
ASSUME KnownAssumption == Known \subseteq 1..MaxArticle /\ Stocked \subseteq Known

Devices == 1..MaxDevice
Articles == 1..MaxArticle
NoDevice == 0
NoArticle == 0
Steps == {"artikelLookup", "basicInfo", "qualityReview", "matchSelection",
          "agenticPhotos", "manualEdit"}

\* A wizard: where it is, the device in the operator's hand, selectedRef, the drawn
\* Artikel_Nummer, Auf_Lager, the device qualityReviewResult is about, and whether the
\* health check has switched to the form with AI.
Wizards == [step : Steps, device : Devices \cup {NoDevice},
            ref : Articles \cup {NoArticle}, number : Articles \cup {NoArticle},
            units : 1..MaxUnits, review : Devices \cup {NoDevice}, ai : BOOLEAN]

Mounted == [step |-> "artikelLookup", device |-> NoDevice, ref |-> NoArticle,
            number |-> NoArticle, units |-> 1, review |-> NoDevice, ai |-> FALSE]

\* A submission: the payload, what the server has decided, and the pieces to store.
NoSubmission == [pc |-> "none", device |-> NoDevice, article |-> NoArticle,
                 review |-> NoDevice, manual |-> FALSE, byReference |-> FALSE,
                 seed |-> FALSE, dispatched |-> FALSE, left |-> 0]
Submissions == [pc : {"none", "resolve", "plan", "store", "seed", "answered", "failed"},
                device : Devices \cup {NoDevice}, article : Articles \cup {NoArticle},
                review : Devices \cup {NoDevice}, manual : BOOLEAN,
                byReference : BOOLEAN, seed : BOOLEAN, dispatched : BOOLEAN,
                left : 0..MaxUnits]

RunStates == {"absent", "notStarted", "queued", "running", "settled"}

VARIABLES
  wizard,    \* the state of each ItemCreate component
  sub,       \* the submission each wizard is waiting for
  refs,      \* item_refs: the device whose data the row carries; its own for Known
  pieces,    \* items: pieces stored for each device
  article,   \* items: the article they were stored under
  rating,    \* the device whose quality answers the pieces carry
  run,       \* agentic_runs
  next,      \* the next device
  faults,    \* failures left
  judged,    \* history: what the operator did with the device's quality step
  chosen,    \* history: devices entered as another piece of an article
  wanted,    \* history: pieces asked for, over all submissions of the device
  spoiled,   \* history: devices of which a submission failed
  drawing,   \* history: devices with a drawn number, nothing stored yet
  overlaps   \* history: pairs of devices whose numbers were drawn at the same time

store == <<refs, pieces, article, rating, run>>
history == <<judged, chosen, wanted, spoiled, drawing, overlaps>>
vars == <<wizard, sub, store, next, faults, history>>

HasReference(a) == refs[a] # {}
Stock(a) == {d \in Devices : pieces[d] > 0 /\ article[d] = a}
Idle(t) == sub[t] = NoSubmission

-----------------------------------------------------------------------------
(* The wizard *)

SetWizard(t, w) == wizard' = [wizard EXCEPT ![t] = w]
Choices == UNCHANGED <<sub, store, faults>>

\* The health check is asked once and answers before the operator's first choice; only
\* what it said when a device is submitted counts.
checkAgenticHealth(t) ==
  /\ wizard[t] = Mounted
  /\ SetWizard(t, [wizard[t] EXCEPT !.ai = TRUE])
  /\ UNCHANGED <<next, history>> /\ Choices

\* The operator takes a device and finds its article by number.
handleArtikelLookupSelect(t) ==
  /\ wizard[t].step = "artikelLookup" /\ next \in Devices
  /\ next' = next + 1
  /\ \E a \in Articles :
       /\ HasReference(a)
       /\ SetWizard(t, [wizard[t] EXCEPT !.step = "qualityReview", !.device = next, !.ref = a])
  /\ UNCHANGED history /\ Choices

handleArtikelLookupSkip(t) ==
  /\ wizard[t].step = "artikelLookup" /\ next \in Devices
  /\ next' = next + 1
  /\ SetWizard(t, [wizard[t] EXCEPT !.step = "basicInfo", !.device = next, !.ref = NoArticle])
  /\ UNCHANGED history /\ Choices

\* Several pieces are not judged together.
handleBasicInfoNext(t) ==
  /\ wizard[t].step = "basicInfo"
  /\ \E n \in 1..MaxUnits :
       SetWizard(t, IF n > 1
                    THEN [wizard[t] EXCEPT !.step = "matchSelection", !.units = n,
                                           !.review = NoDevice]
                    ELSE [wizard[t] EXCEPT !.step = "qualityReview", !.units = n])
  /\ UNCHANGED <<next, history>> /\ Choices

\* submitNewItem: the fetch goes out, the overlay blocks the wizard.  Without the AI
\* form, and from the manual form, the submission is manual.
submitNewItem(t, a, n, review, context) ==
  LET d == wizard[t].device IN
  /\ sub' = [sub EXCEPT ![t] =
               [NoSubmission EXCEPT !.pc = "resolve", !.device = d, !.article = a,
                                    !.review = review, !.left = n,
                                    !.manual = ~wizard[t].ai \/ context = "manual-edit"]]
  /\ wanted' = [wanted EXCEPT ![d] = @ + n]
  /\ chosen' = IF context = "match-selection" THEN chosen \cup {d} ELSE chosen
  /\ UNCHANGED <<store, next, faults, spoiled, drawing, overlaps>>

Judge(t, how) == judged' = [judged EXCEPT ![wizard[t].device] = how]

\* Wrong variant: the new answers are left to the state update, which the submission
\* started in the same handler does not see.
CompleteWithoutOverride(t) ==
  /\ wizard[t].step = "qualityReview" /\ Idle(t)
  /\ Judge(t, "done")
  /\ IF wizard[t].ref # NoArticle
     THEN /\ SetWizard(t, [wizard[t] EXCEPT !.review = wizard[t].device])
          /\ submitNewItem(t, wizard[t].ref, wizard[t].units, wizard[t].review, "match-selection")
     ELSE /\ SetWizard(t, [wizard[t] EXCEPT !.review = wizard[t].device,
                                            !.step = "matchSelection"])
          /\ UNCHANGED <<next, chosen, wanted, spoiled, drawing, overlaps>> /\ Choices

\* The answers are handed to the submission next to the state update.
handleQualityReviewComplete(t) ==
  /\ wizard[t].step = "qualityReview" /\ Idle(t)
  /\ Judge(t, "done")
  /\ IF wizard[t].ref # NoArticle
     THEN /\ SetWizard(t, [wizard[t] EXCEPT !.review = wizard[t].device])
          /\ submitNewItem(t, wizard[t].ref, wizard[t].units, wizard[t].device, "match-selection")
     ELSE /\ SetWizard(t, [wizard[t] EXCEPT !.review = wizard[t].device,
                                            !.step = "matchSelection"])
          /\ UNCHANGED <<next, chosen, wanted, spoiled, drawing, overlaps>> /\ Choices

\* The submission started in the same handler still sees the state before the update.
handleQualityReviewSkip(t) ==
  /\ wizard[t].step = "qualityReview" /\ Idle(t)
  /\ Judge(t, "skipped")
  /\ IF wizard[t].ref # NoArticle
     THEN /\ SetWizard(t, [wizard[t] EXCEPT !.review = NoDevice])
          /\ submitNewItem(t, wizard[t].ref, wizard[t].units, wizard[t].review, "match-selection")
     ELSE /\ SetWizard(t, [wizard[t] EXCEPT !.review = NoDevice, !.step = "matchSelection"])
          /\ UNCHANGED <<next, chosen, wanted, spoiled, drawing, overlaps>> /\ Choices

\* The operator recognises the device in the list of similar articles.
handleMatchSelection(t) ==
  /\ wizard[t].step = "matchSelection" /\ Idle(t)
  /\ \E a \in Articles :
       HasReference(a)
         /\ submitNewItem(t, a, wizard[t].units, wizard[t].review, "match-selection")
  /\ UNCHANGED <<wizard, judged>>

handleSkipMatches(t) ==
  /\ wizard[t].step = "matchSelection" /\ Idle(t)
  /\ SetWizard(t, [wizard[t] EXCEPT !.step =
                     IF wizard[t].ai THEN "agenticPhotos" ELSE "manualEdit"])
  /\ UNCHANGED <<next, history>> /\ Choices

handleAgenticFallback(t) ==
  /\ wizard[t].step = "agenticPhotos" /\ Idle(t)
  /\ SetWizard(t, [wizard[t] EXCEPT !.step = "manualEdit"])
  /\ UNCHANGED <<next, history>> /\ Choices

Numbers == {NoArticle} \cup {a \in Articles : HasReference(a)}

\* Wrong variant: the highest number itself.
HighestNumber(n) == (n = 1 \/ n \in Numbers) /\ \A m \in Numbers : m <= n

\* /api/getNewMaterialNumber: one more than the highest; nothing is reserved.
NextNumber(n) == n - 1 \in Numbers /\ \A m \in Numbers : m < n

\* The form asks for a number as soon as it has none.
generateMaterialNumber(t) ==
  LET d == wizard[t].device IN
  /\ wizard[t].step \in {"agenticPhotos", "manualEdit"} /\ wizard[t].number = NoArticle
  /\ \E n \in Articles :
       NextNumber(n) /\ SetWizard(t, [wizard[t] EXCEPT !.number = n])
  /\ drawing' = drawing \cup {d}
  /\ overlaps' = overlaps \cup {{d, e} : e \in drawing}
  /\ UNCHANGED <<next, judged, chosen, wanted, spoiled>> /\ Choices

handleAgenticPhotos(t) ==
  /\ wizard[t].step = "agenticPhotos" /\ Idle(t) /\ wizard[t].number # NoArticle
  /\ submitNewItem(t, wizard[t].number, wizard[t].units, wizard[t].review, "agentic-photos")
  /\ UNCHANGED <<wizard, judged>>

\* The manual form lets the operator change the number of pieces.
handleManualSubmit(t) ==
  /\ wizard[t].step = "manualEdit" /\ Idle(t) /\ wizard[t].number # NoArticle
  /\ \E n \in 1..MaxUnits :
       submitNewItem(t, wizard[t].number, n, wizard[t].review, "manual-edit")
  /\ UNCHANGED <<wizard, judged>>

\* The operator gives up a number or a failed submission; the component is unmounted.
\* Leaving before leaves no trace.
Leave(t) ==
  /\ wizard[t].number # NoArticle \/ wizard[t].device \in spoiled
  /\ Idle(t)
  /\ SetWizard(t, Mounted)
  /\ drawing' = drawing \ {wizard[t].device}
  /\ UNCHANGED <<next, judged, chosen, wanted, spoiled, overlaps>> /\ Choices

-----------------------------------------------------------------------------
(* The server: POST /api/import/item *)

Advance(t, s) == sub' = [sub EXCEPT ![t] = s]
At(t, pc) == sub[t].pc = pc
Handles == UNCHANGED <<wizard, next, faults, judged, chosen, wanted, spoiled, overlaps>>

\* An article number with a reference makes the device a piece of that article.
Resolve(t) ==
  /\ At(t, "resolve")
  /\ Advance(t, [sub[t] EXCEPT !.pc = "plan", !.byReference = HasReference(sub[t].article)])
  /\ UNCHANGED <<store, drawing>> /\ Handles

\* Wrong variant: the pieces are looked up once the first one is stored.
PlanAfterStore(t) ==
  /\ At(t, "plan")
  /\ Advance(t, [sub[t] EXCEPT !.pc = "store",
                   !.seed = /\ sub[t].article \notin Stocked
                            /\ Stock(sub[t].article) \cup {sub[t].device} = {}
                            /\ run[sub[t].article] = "absent"])
  /\ UNCHANGED <<store, drawing>> /\ Handles

\* A run is seeded for an article that has neither pieces nor a run.
Plan(t) ==
  /\ At(t, "plan")
  /\ Advance(t, [sub[t] EXCEPT !.pc = "store",
                   !.seed = /\ sub[t].article \notin Stocked /\ Stock(sub[t].article) = {}
                            /\ run[sub[t].article] = "absent"])
  /\ UNCHANGED <<store, drawing>> /\ Handles

StoreReference(t) ==
  refs' = IF sub[t].byReference THEN refs
          ELSE [refs EXCEPT ![sub[t].article] = {sub[t].device}]

\* Wrong variant: the first piece is stored once more.
StoreOneMore(t) ==
  /\ At(t, "store") /\ sub[t].left > 0
  /\ StoreReference(t)
  /\ pieces' = [pieces EXCEPT ![sub[t].device] = @ + (IF sub[t].seed THEN 2 ELSE 1)]
  /\ article' = [article EXCEPT ![sub[t].device] = sub[t].article]
  /\ drawing' = drawing \ {sub[t].device}
  /\ Advance(t, [sub[t] EXCEPT !.left = @ - 1, !.pc = IF sub[t].seed THEN "seed" ELSE "store"])
  /\ UNCHANGED <<rating, run>> /\ Handles

\* persistItemWithinTransaction for one piece; the first one is followed by the seed.
StorePiece(t) ==
  /\ At(t, "store") /\ sub[t].left > 0
  /\ StoreReference(t)
  /\ pieces' = [pieces EXCEPT ![sub[t].device] = @ + 1]
  /\ article' = [article EXCEPT ![sub[t].device] = sub[t].article]
  /\ drawing' = drawing \ {sub[t].device}
  /\ Advance(t, [sub[t] EXCEPT !.left = @ - 1, !.pc = IF sub[t].seed THEN "seed" ELSE "store"])
  /\ UNCHANGED <<rating, run>> /\ Handles

\* The upsert of the run takes the status the client sent.
SeedRun(t) ==
  /\ At(t, "seed")
  /\ run' = [run EXCEPT ![sub[t].article] = IF sub[t].manual THEN "notStarted" ELSE "running"]
  /\ Advance(t, [sub[t] EXCEPT !.pc = "store", !.seed = FALSE, !.dispatched = ~sub[t].manual])
  /\ UNCHANGED <<refs, pieces, article, rating, drawing>> /\ Handles

\* forwardAgenticTrigger: an active run stays, any other is queued.
forwardAgenticTrigger(a) ==
  run' = IF run[a] \in {"queued", "running"} THEN run ELSE [run EXCEPT ![a] = "queued"]

\* All pieces are stored; the server triggers the run it seeded and answers 200.
AnswerOk(t) ==
  /\ At(t, "store") /\ sub[t].left = 0
  /\ IF sub[t].dispatched THEN forwardAgenticTrigger(sub[t].article) ELSE UNCHANGED run
  /\ Advance(t, [sub[t] EXCEPT !.pc = "answered"])
  /\ UNCHANGED <<refs, pieces, article, rating, drawing>> /\ Handles

\* A statement fails, the process dies or the request is lost: what was written stays,
\* the reference of the current piece possibly with it.
ServerFails(t) ==
  /\ sub[t].pc \in {"resolve", "plan", "store", "seed"}
  /\ faults > 0 /\ faults' = faults - 1
  /\ \/ UNCHANGED refs
     \/ At(t, "store") /\ sub[t].left > 0 /\ StoreReference(t)
  /\ Advance(t, [sub[t] EXCEPT !.pc = "failed"])
  /\ UNCHANGED <<wizard, pieces, article, rating, run, next, history>>

\* The answer does not reach the browser.
AnswerLost(t) ==
  /\ At(t, "answered")
  /\ faults > 0 /\ faults' = faults - 1
  /\ Advance(t, [sub[t] EXCEPT !.pc = "failed"])
  /\ UNCHANGED <<wizard, store, next, history>>

-----------------------------------------------------------------------------
(* Back in the wizard *)

\* The quality answers are posted for each new piece; a failing post is only logged.
PostQuality(t) ==
  IF sub[t].review = NoDevice
  THEN UNCHANGED <<rating, faults>>
  ELSE \/ /\ rating' = [rating EXCEPT ![sub[t].device] = sub[t].review]
          /\ UNCHANGED faults
       \/ /\ faults > 0 /\ faults' = faults - 1
          /\ UNCHANGED rating

\* "Weiter erfassen" resets the form but for qualityReviewResult; "Zum Artikel"
\* unmounts it.
ShowSuccess(t) ==
  \/ SetWizard(t, [Mounted EXCEPT !.review = wizard[t].review, !.ai = wizard[t].ai])
  \/ SetWizard(t, Mounted)

\* The answer arrives: post the quality, trigger what the server did not, show the
\* dialog.
HandleCreated(t) ==
  /\ At(t, "answered")
  /\ PostQuality(t)
  /\ IF ~sub[t].manual /\ ~sub[t].dispatched
     THEN forwardAgenticTrigger(sub[t].article)
     ELSE UNCHANGED run
  /\ ShowSuccess(t)
  /\ Advance(t, NoSubmission)
  /\ UNCHANGED <<refs, pieces, article, next, history>>

\* The error is shown and the form can be submitted again, as it is.
HandleFailure(t) ==
  /\ At(t, "failed")
  /\ spoiled' = spoiled \cup {sub[t].device}
  /\ Advance(t, NoSubmission)
  /\ UNCHANGED <<wizard, store, next, faults, judged, chosen, wanted, drawing, overlaps>>

-----------------------------------------------------------------------------
(* Specification *)

Init ==
  /\ wizard = [t \in Tabs |-> Mounted]
  /\ sub = [t \in Tabs |-> NoSubmission]
  /\ refs = [a \in Articles |-> IF a \in Known THEN {NoDevice} ELSE {}]
  /\ pieces = [d \in Devices |-> 0]
  /\ article = [d \in Devices |-> NoArticle]
  /\ rating = [d \in Devices |-> NoDevice]
  /\ run = [a \in Articles |-> IF a \in Stocked THEN "settled" ELSE "absent"]
  /\ next = 1 /\ faults = MaxFaults
  /\ judged = [d \in Devices |-> "no"]
  /\ chosen = {} /\ spoiled = {} /\ drawing = {} /\ overlaps = {}
  /\ wanted = [d \in Devices |-> 0]

Operate(t) ==
  \/ handleArtikelLookupSelect(t) \/ handleArtikelLookupSkip(t) \/ handleBasicInfoNext(t)
  \/ handleQualityReviewComplete(t) \/ handleQualityReviewSkip(t)
  \/ handleMatchSelection(t) \/ handleSkipMatches(t) \/ handleAgenticFallback(t)
  \/ handleAgenticPhotos(t) \/ handleManualSubmit(t) \/ Leave(t)

Serve(t) == Resolve(t) \/ Plan(t) \/ StorePiece(t) \/ SeedRun(t) \/ AnswerOk(t)
Return(t) == HandleCreated(t) \/ HandleFailure(t)

Next ==
  \E t \in Tabs :
    \/ Operate(t) \/ checkAgenticHealth(t) \/ generateMaterialNumber(t)
    \/ Serve(t) \/ Return(t) \/ ServerFails(t) \/ AnswerLost(t)

Spec == Init /\ [][Next]_vars

-----------------------------------------------------------------------------
(* Properties *)

\* Every variable has its type.
TypeOK ==
  /\ wizard \in [Tabs -> Wizards]
  /\ sub \in [Tabs -> Submissions]
  /\ refs \in [Articles -> SUBSET (Devices \cup {NoDevice})]
  /\ pieces \in [Devices -> Nat]
  /\ article \in [Devices -> Articles \cup {NoArticle}]
  /\ rating \in [Devices -> Devices \cup {NoDevice}]
  /\ run \in [Articles -> RunStates]
  /\ next \in 1..(MaxDevice + 1) /\ faults \in 0..MaxFaults
  /\ judged \in [Devices -> {"no", "done", "skipped"}]
  /\ chosen \subseteq Devices /\ spoiled \subseteq Devices /\ drawing \subseteq Devices
  /\ wanted \in [Devices -> Nat]
  /\ overlaps \subseteq SUBSET Devices

\* A device carries the quality answers of another one only if its own quality step was
\* skipped for an article chosen by number: a completed step always wins over what the
\* wizard kept from the device before, and a new article starts unrated.
ForeignReviewOnlyAfterSkip ==
  \A d \in Devices :
    rating[d] \notin {d, NoDevice} => judged[d] = "skipped" /\ d \in chosen

\* Two devices entered as new articles become pieces of one article only if their
\* numbers were drawn while neither was stored.
SharedOnlyByRace ==
  \A d, e \in Devices \ chosen :
    d # e /\ pieces[d] > 0 /\ pieces[e] > 0 /\ article[d] = article[e] => {d, e} \in overlaps

InFlight(d) == \E t \in Tabs : sub[t].device = d

\* As many pieces are stored as were asked for, unless a submission failed; then a
\* repeated one stores at most what the failed and the repeated one asked for together.
CountedAsAsked ==
  \A d \in Devices :
    /\ pieces[d] <= wanted[d]
    /\ d \notin spoiled /\ ~InFlight(d) => pieces[d] = wanted[d]

\* Unless something failed, an article with pieces has a run as soon as no request is
\* under way: whichever of the requests that create it at once saw no piece seeds it.
ArticleHasRun ==
  faults = MaxFaults /\ (\A t \in Tabs : Idle(t))
    => \A a \in Articles : Stock(a) # {} => run[a] # "absent"

=============================================================================
