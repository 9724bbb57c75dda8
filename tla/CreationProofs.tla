----------------------------- MODULE CreationProofs -----------------------------
(***************************************************************************)
(* What holds of the flows that take goods in.  Of Creation, for any       *)
(* number of wizards, devices and articles, and however often a statement  *)
(* fails or an answer is lost: whose quality answers a device carries, how *)
(* many of its pieces are stored, when two new devices share an article,   *)
(* and that an article with pieces has a run.  Of Placement, for any       *)
(* things and scans: what was confirmed to be here is not offered for      *)
(* removal.  Of CsvInbox, for any files and faults: what the archive means *)
(* and that items have their boxes.                                        *)
(***************************************************************************)
EXTENDS MCCreation, FiniteSetTheorems, SequenceTheorems, TLAPS

Choosing == {"qualityReview", "matchSelection", "agenticPhotos", "manualEdit"}

-----------------------------------------------------------------------------
(* The inductive invariant *)

\* A device is in the hand of one operator, whose submission is about it; the next
\* device is in nobody's.
Held ==
  /\ \A t \in Tabs : wizard[t].step # "artikelLookup" <=> wizard[t].device # NoDevice
  /\ \A t \in Tabs : wizard[t].device < next
  /\ \A t, u \in Tabs : t # u /\ wizard[t].device # NoDevice => wizard[t].device # wizard[u].device
  /\ \A t \in Tabs : ~Idle(t) =>
       /\ wizard[t].step \in Choosing
       /\ sub[t].pc # "none"
       /\ sub[t].device = wizard[t].device
       /\ sub[t].article # NoArticle

\* The device was not judged by its operator, who could, and chose its article.
Excused(d) == judged[d] = "skipped" /\ d \in chosen

\* Answers about another device get no further than the quality step of a device that
\* is a piece of a known article, or the submission that skipping it started.
Reviewed ==
  /\ \A t \in Tabs : wizard[t].step \in Choosing \ {"qualityReview"}
       => wizard[t].review \in {wizard[t].device, NoDevice}
  /\ \A t \in Tabs : ~Idle(t) =>
       sub[t].review \in {sub[t].device, NoDevice} \/ Excused(sub[t].device)
  /\ \A t \in Tabs, d \in Devices : wizard[t].device = d => rating[d] = NoDevice
  /\ \A d \in Devices : d >= next => rating[d] = NoDevice

\* What a submission still has to store belongs to what was asked for.
Counted ==
  /\ \A d \in Devices : d >= next => pieces[d] = 0 /\ wanted[d] = 0
  /\ \A t \in Tabs : ~Idle(t) =>
       /\ pieces[sub[t].device] + sub[t].left <= wanted[sub[t].device]
       /\ sub[t].pc # "failed" /\ sub[t].device \notin spoiled
            => pieces[sub[t].device] + sub[t].left = wanted[sub[t].device]
       /\ sub[t].pc = "answered" => sub[t].left = 0

Inv1 == TypeOK /\ Held /\ Reviewed /\ Counted /\ ForeignReviewOnlyAfterSkip /\ CountedAsAsked

LEMMA InitInv1 == Init => Inv1
<1>. SUFFICES ASSUME Init PROVE Inv1
  OBVIOUS
<1>. USE BoundsAssumption, KnownAssumption
     DEF Init, Devices, Articles, NoDevice, NoArticle, Mounted, NoSubmission, Choosing, Idle
<1>1. TypeOK
  BY DEF TypeOK, Wizards, Submissions, Steps, RunStates
<1>2. Held
  BY DEF Held
<1>3. Reviewed
  BY DEF Reviewed
<1>4. Counted
  BY DEF Counted
<1>5. ForeignReviewOnlyAfterSkip /\ CountedAsAsked
  BY DEF ForeignReviewOnlyAfterSkip, CountedAsAsked, InFlight
<1>. QED BY <1>1, <1>2, <1>3, <1>4, <1>5 DEF Inv1

-----------------------------------------------------------------------------
(* The wizards *)

\* A wizard that does not submit goes on with its device, takes the next one or drops it;
\* its operator may judge it while no submission is under way.
LEMMA WizardMoves ==
  ASSUME Inv1, NEW t \in Tabs, NEW w \in Wizards, SetWizard(t, w),
         UNCHANGED <<sub, pieces, rating, wanted, spoiled, chosen>>,
         \/ next' = next /\ w.device \in {wizard[t].device, NoDevice}
         \/ next' = next + 1 /\ next \in Devices /\ w.device = next,
         w.step # "artikelLookup" <=> w.device # NoDevice,
         w.step \in Choosing \ {"qualityReview"} => w.review \in {w.device, NoDevice},
         Idle(t) \/ (w.step \in Choosing /\ w.device = wizard[t].device),
         \/ judged' = judged
         \/ Idle(t) /\ \E how \in {"done", "skipped"} : Judge(t, how),
         refs' \in [Articles -> SUBSET (Devices \cup {NoDevice})],
         article' \in [Devices -> Articles \cup {NoArticle}],
         run' \in [Articles -> RunStates], faults' \in 0..MaxFaults,
         drawing' \subseteq Devices, overlaps' \subseteq SUBSET Devices
  PROVE  Inv1'
<1>. USE DEF SetWizard, Idle
<1>a. Devices \subseteq Nat /\ NoDevice \notin Devices /\ NoDevice = 0
  BY BoundsAssumption DEF Devices, NoDevice
<1>b. next \in Nat
  BY BoundsAssumption DEF Inv1, TypeOK
<1>d. Devices \subseteq Nat /\ NoDevice \notin Devices /\ NoDevice = 0 /\ next \in Nat
      /\ \A v \in Wizards : v.device \in Nat /\ v.device \in Devices \cup {NoDevice}
  <2>1. ASSUME NEW v \in Wizards PROVE v.device \in Devices \cup {NoDevice}
    BY DEF Wizards
  <2>2. \A d \in Devices \cup {NoDevice} : d \in Nat
    BY ONLY <1>a
  <2>. QED BY ONLY <1>a, <1>b, <2>1, <2>2, Zenon
<1>w. wizard' \in [Tabs -> Wizards] /\ wizard'[t] = w /\ \A u \in Tabs \ {t} : wizard'[u] = wizard[u]
  BY DEF Inv1, TypeOK
<1>j. /\ judged' \in [Devices -> {"no", "done", "skipped"}]
      /\ \A d \in Devices : judged'[d] # judged[d] => Idle(t) /\ d = wizard[t].device
  BY DEF Inv1, TypeOK, Judge
<1>n. next' \in 1..(MaxDevice + 1)
  BY BoundsAssumption DEF Inv1, TypeOK, Devices
<1>1. TypeOK'
  BY <1>w, <1>j, <1>n DEF Inv1, TypeOK
<1>2. Held'
  BY <1>w, <1>d DEF Inv1, Held, TypeOK
<1>3. Reviewed'
  <2>1. (\A u \in Tabs : wizard[u].step \in Choosing \ {"qualityReview"}
           => wizard[u].review \in {wizard[u].device, NoDevice})'
    BY <1>w DEF Inv1, Reviewed
  <2>2. \A u \in Tabs : ~Idle(u) => (Excused(sub[u].device) => Excused(sub[u].device)')
    BY <1>j, <1>d DEF Inv1, Held, TypeOK, Submissions, Excused
  <2>3. \A u \in Tabs, d \in Devices : wizard'[u].device = d => rating'[d] = NoDevice
    BY <1>w, <1>d DEF Inv1, Reviewed
  <2>4. \A d \in Devices : d >= next' => rating'[d] = NoDevice
    BY <1>d DEF Inv1, Reviewed
  <2>. QED BY <2>1, <2>2, <2>3, <2>4 DEF Inv1, Reviewed
<1>4. Counted'
  BY <1>d DEF Inv1, Counted
<1>5. ForeignReviewOnlyAfterSkip'
  BY <1>j DEF Inv1, ForeignReviewOnlyAfterSkip, Reviewed
<1>6. CountedAsAsked'
  BY DEF Inv1, CountedAsAsked, InFlight
<1>. QED BY <1>1, <1>2, <1>3, <1>4, <1>5, <1>6 DEF Inv1

\* A submission is about the device in the operator's hand; answers about another one
\* go with it only when the operator skipped the device and named its article.
LEMMA Submits ==
  ASSUME Inv1, NEW t \in Tabs, Idle(t), wizard[t].step \in Choosing,
         NEW a \in Articles, NEW n \in 1..MaxUnits, NEW review \in Devices \cup {NoDevice},
         NEW context, submitNewItem(t, a, n, review, context),
         NEW w \in Wizards, SetWizard(t, w),
         w.step \in Choosing, w.device = wizard[t].device,
         w.step # "qualityReview" => w.review \in {w.device, NoDevice},
         judged' = judged \/ \E how \in {"done", "skipped"} : Judge(t, how),
         \/ review \in {wizard[t].device, NoDevice}
         \/ judged'[wizard[t].device] = "skipped" /\ context = "match-selection"
  PROVE  Inv1'
<1>. DEFINE d == wizard[t].device
            s == [NoSubmission EXCEPT !.pc = "resolve", !.device = d, !.article = a,
                    !.review = review, !.left = n,
                    !.manual = ~wizard[t].ai \/ context = "manual-edit"]
<1>d. Devices \subseteq Nat /\ NoDevice \notin Devices /\ NoDevice = 0 /\ next \in Nat
      /\ NoArticle \notin Articles /\ d \in Devices /\ n \in Nat /\ n \in 0..MaxUnits
  <2>1. d \in Devices
    BY DEF Inv1, TypeOK, Held, Choosing, Wizards
  <2>. QED BY <2>1, BoundsAssumption
           DEF Devices, Articles, NoArticle, NoDevice, Inv1, TypeOK
<1>s. s \in Submissions
  <2>1. NoSubmission \in Submissions
    BY BoundsAssumption DEF NoSubmission, Submissions
  <2>2. (~wizard[t].ai \/ context = "manual-edit") \in BOOLEAN
    OBVIOUS
  <2>. QED BY <2>1, <2>2, <1>d DEF Submissions
<1>e. /\ s.pc = "resolve" /\ s.device = d /\ s.article = a /\ s.review = review /\ s.left = n
      /\ s # NoSubmission
  BY DEF NoSubmission
<1>c. /\ sub' = [sub EXCEPT ![t] = s]
      /\ wanted' = [wanted EXCEPT ![d] = @ + n]
      /\ chosen' = IF context = "match-selection" THEN chosen \cup {d} ELSE chosen
      /\ UNCHANGED <<refs, pieces, article, rating, run, next, faults, spoiled, drawing, overlaps>>
  BY DEF submitNewItem, store
<1>. HIDE DEF s
<1>w. wizard' \in [Tabs -> Wizards] /\ wizard'[t] = w /\ \A u \in Tabs \ {t} : wizard'[u] = wizard[u]
  BY DEF Inv1, TypeOK, SetWizard
<1>u. sub' \in [Tabs -> Submissions] /\ sub'[t] = s /\ \A u \in Tabs \ {t} : sub'[u] = sub[u]
  BY <1>c, <1>s DEF Inv1, TypeOK
<1>n. /\ wanted' \in [Devices -> Nat] /\ wanted'[d] = wanted[d] + n
      /\ \A e \in Devices \ {d} : wanted'[e] = wanted[e]
  <2>. HIDE DEF d
  <2>1. wanted \in [Devices -> Nat]
    BY DEF Inv1, TypeOK
  <2>2. wanted[d] + n \in Nat
    BY <2>1, <1>d
  <2>. QED BY <2>1, <2>2, <1>c, <1>d
<1>j. /\ judged' \in [Devices -> {"no", "done", "skipped"}]
      /\ \A e \in Devices \ {d} : judged'[e] = judged[e]
  BY <1>d DEF Inv1, TypeOK, Judge
<1>h. chosen \subseteq chosen' /\ chosen' \subseteq Devices
  BY <1>c, <1>d DEF Inv1, TypeOK
<1>o. \A u \in Tabs \ {t} : ~Idle(u) => sub[u].device # d /\ sub[u].device \in Devices
  BY <1>d DEF Inv1, TypeOK, Held, Wizards, Choosing
<1>i. \A u \in Tabs \ {t} : Idle(u)' <=> Idle(u)
  BY <1>u DEF Idle
<1>1. TypeOK'
  BY <1>w, <1>u, <1>n, <1>j, <1>h, <1>c DEF Inv1, TypeOK
<1>2. Held'
  BY <1>w, <1>u, <1>e, <1>c, <1>d, <1>i DEF Inv1, Held, Choosing
<1>3. Reviewed'
  <2>1. (\A u \in Tabs : wizard[u].step \in Choosing \ {"qualityReview"}
           => wizard[u].review \in {wizard[u].device, NoDevice})'
    BY <1>w DEF Inv1, Reviewed
  <2>2. \A u \in Tabs \ {t} : ~Idle(u)' =>
          (sub[u].review \in {sub[u].device, NoDevice} \/ Excused(sub[u].device))'
    BY <1>u, <1>o, <1>i, <1>j, <1>h DEF Inv1, Reviewed, Excused
  <2>3. (sub[t].review \in {sub[t].device, NoDevice} \/ Excused(sub[t].device))'
    BY <1>u, <1>e, <1>c DEF Excused
  <2>4. \A u \in Tabs, e \in Devices : wizard'[u].device = e => rating'[e] = NoDevice
    BY <1>w, <1>c DEF Inv1, Reviewed
  <2>5. \A e \in Devices : e >= next' => rating'[e] = NoDevice
    BY <1>c DEF Inv1, Reviewed
  <2>. QED BY <2>1, <2>2, <2>3, <2>4, <2>5 DEF Reviewed
<1>4. Counted'
  <2>1. \A e \in Devices : e >= next' => pieces'[e] = 0 /\ wanted'[e] = 0
    BY <1>c, <1>n, <1>d DEF Inv1, Held, Counted
  <2>2. pieces[d] <= wanted[d] /\ (d \notin spoiled => pieces[d] = wanted[d])
    <3>1. \A u \in Tabs : sub[u].device # d
      BY <1>d, <1>o DEF Idle, NoSubmission
    <3>. QED BY <3>1, <1>d DEF Inv1, CountedAsAsked, InFlight
  <2>3. /\ pieces'[s.device] + s.left <= wanted'[s.device]
        /\ s.device \notin spoiled' => pieces'[s.device] + s.left = wanted'[s.device]
    <3>1. pieces[d] \in Nat /\ wanted[d] \in Nat
      BY <1>d, ZenonT(40) DEF Inv1, TypeOK
    <3>. QED BY <3>1, <2>2, <1>c, <1>e, <1>n, <1>d
  <2>4. \A u \in Tabs \ {t} : ~Idle(u) => wanted'[sub[u].device] = wanted[sub[u].device]
    BY <1>o, <1>n
  <2>. QED BY <2>1, <2>3, <2>4, <1>u, <1>e, <1>i, <1>c DEF Inv1, Counted
<1>5. ForeignReviewOnlyAfterSkip'
  BY <1>j, <1>h, <1>c, <1>d DEF Inv1, ForeignReviewOnlyAfterSkip, Reviewed
<1>6. CountedAsAsked'
  <2>1. \E u \in Tabs : sub'[u].device = d
    BY <1>u, <1>e
  <2>2. \A e \in Devices \ {d} : InFlight(e)' <=> InFlight(e)
    BY <1>u, <1>e, <1>d DEF InFlight, Idle, NoSubmission
  <2>3. pieces'[d] <= wanted'[d]
    <3>1. pieces[d] \in Nat /\ wanted[d] \in Nat
      BY <1>d, ZenonT(40) DEF Inv1, TypeOK
    <3>2. pieces[d] <= wanted[d]
      BY <1>d DEF Inv1, CountedAsAsked
    <3>. QED BY <3>1, <3>2, <1>c, <1>n, <1>d
  <2>4. \A e \in Devices \ {d} : CountedAsAsked => pieces'[e] <= wanted'[e]
          /\ (e \notin spoiled' /\ ~InFlight(e)' => pieces'[e] = wanted'[e])
    BY <2>2, <1>c, <1>n DEF CountedAsAsked
  <2>. QED BY <2>1, <2>3, <2>4 DEF Inv1, CountedAsAsked, InFlight
<1>. QED BY <1>1, <1>2, <1>3, <1>4, <1>5, <1>6 DEF Inv1

-----------------------------------------------------------------------------
(* The server and its answers *)

LEMMA Fresh ==
  /\ Devices \subseteq Nat /\ NoDevice \notin Devices /\ NoDevice = 0
  /\ NoArticle \notin Articles /\ NoSubmission \in Submissions
  /\ NoSubmission.pc = "none" /\ NoSubmission.device = NoDevice
BY BoundsAssumption DEF Devices, Articles, NoDevice, NoArticle, NoSubmission, Submissions

\* The device and the article of a submission that is under way.
LEMMA Handled ==
  ASSUME Inv1, NEW t \in Tabs, ~Idle(t)
  PROVE  /\ sub[t] \in Submissions
         /\ sub[t].device \in Devices /\ sub[t].article \in Articles /\ sub[t].pc # "none"
         /\ \A u \in Tabs \ {t} : sub[u].device # sub[t].device
<1>1. sub[t].device = wizard[t].device /\ wizard[t].device \in Devices
  BY DEF Inv1, Held, TypeOK, Wizards, Choosing
<1>2. \A u \in Tabs \ {t} : sub[u].device # sub[t].device
  BY <1>1, Fresh DEF Inv1, Held, Idle
<1>. QED BY <1>1, <1>2 DEF Inv1, TypeOK, Held, Submissions

\* A handler that stores no piece keeps what the submission is about.
LEMMA Advances ==
  ASSUME Inv1, NEW t \in Tabs, ~Idle(t), NEW s \in Submissions, Advance(t, s),
         s.device = sub[t].device, s.article = sub[t].article,
         s.review = sub[t].review, s.left = sub[t].left,
         s.pc # "none", s.pc = "answered" => s.left = 0, sub[t].pc # "failed",
         UNCHANGED <<wizard, pieces, rating, next, judged, chosen, wanted, spoiled>>,
         refs' \in [Articles -> SUBSET (Devices \cup {NoDevice})],
         article' \in [Devices -> Articles \cup {NoArticle}],
         run' \in [Articles -> RunStates], faults' \in 0..MaxFaults,
         drawing' \subseteq Devices, overlaps' \subseteq SUBSET Devices
  PROVE  Inv1'
<1>u. sub' \in [Tabs -> Submissions] /\ sub'[t] = s /\ \A u \in Tabs \ {t} : sub'[u] = sub[u]
  BY DEF Inv1, TypeOK, Advance
<1>i. \A u \in Tabs : Idle(u)' <=> Idle(u)
  BY <1>u, Fresh DEF Idle
<1>1. TypeOK'
  BY <1>u DEF Inv1, TypeOK
<1>2. Held'
  BY <1>u, <1>i DEF Inv1, Held
<1>3. Reviewed'
  BY <1>u, <1>i DEF Inv1, Reviewed, Excused
<1>4. Counted'
  BY <1>u, <1>i DEF Inv1, Counted
<1>5. ForeignReviewOnlyAfterSkip'
  BY DEF Inv1, ForeignReviewOnlyAfterSkip
<1>6. CountedAsAsked'
  <2>1. \A e \in Devices : InFlight(e)' <=> InFlight(e)
    BY <1>u DEF InFlight
  <2>. QED BY <2>1 DEF Inv1, CountedAsAsked
<1>. QED BY <1>1, <1>2, <1>3, <1>4, <1>5, <1>6 DEF Inv1

LEMMA StoreReferenceType ==
  ASSUME Inv1, NEW t \in Tabs, ~Idle(t), StoreReference(t) \/ UNCHANGED refs
  PROVE  refs' \in [Articles -> SUBSET (Devices \cup {NoDevice})]
BY Handled DEF StoreReference, Inv1, TypeOK

LEMMA TriggerType ==
  ASSUME Inv1, NEW a \in Articles, forwardAgenticTrigger(a) \/ UNCHANGED run
  PROVE  run' \in [Articles -> RunStates]
BY DEF forwardAgenticTrigger, Inv1, TypeOK, RunStates

LEMMA ServeInv ==
  ASSUME Inv1, NEW t \in Tabs,
         Resolve(t) \/ Plan(t) \/ SeedRun(t) \/ AnswerOk(t) \/ ServerFails(t) \/ AnswerLost(t)
  PROVE  Inv1'
<1>1. ~Idle(t) /\ sub[t].pc # "failed"
  BY Fresh DEF Idle, Resolve, Plan, SeedRun, AnswerOk, ServerFails, AnswerLost, At
<1>2. /\ sub[t] \in Submissions /\ sub[t].device \in Devices /\ sub[t].article \in Articles
  BY <1>1, Handled
<1>t. /\ refs \in [Articles -> SUBSET (Devices \cup {NoDevice})]
      /\ article \in [Devices -> Articles \cup {NoArticle}]
      /\ run \in [Articles -> RunStates] /\ faults \in 0..MaxFaults
      /\ drawing \subseteq Devices /\ overlaps \subseteq SUBSET Devices
  BY DEF Inv1, TypeOK
<1>3. CASE Resolve(t)
  <2>. DEFINE s == [sub[t] EXCEPT !.pc = "plan", !.byReference = HasReference(sub[t].article)]
  <2>1. s \in Submissions
    BY <1>2 DEF Submissions, HasReference
  <2>2. /\ s.device = sub[t].device /\ s.article = sub[t].article
        /\ s.review = sub[t].review /\ s.left = sub[t].left /\ s.pc = "plan"
    BY <1>2 DEF Submissions
  <2>. HIDE DEF s
  <2>. QED BY <1>3, <1>1, <1>t, <2>1, <2>2, Advances DEF Resolve, Handles, store, s
<1>4. CASE Plan(t)
  <2>. DEFINE s == [sub[t] EXCEPT !.pc = "store",
                   !.seed = /\ sub[t].article \notin Stocked /\ Stock(sub[t].article) = {}
                            /\ run[sub[t].article] = "absent"]
  <2>1. s \in Submissions
    BY <1>2 DEF Submissions
  <2>2. /\ s.device = sub[t].device /\ s.article = sub[t].article
        /\ s.review = sub[t].review /\ s.left = sub[t].left /\ s.pc = "store"
    BY <1>2 DEF Submissions
  <2>. HIDE DEF s
  <2>. QED BY <1>4, <1>1, <1>t, <2>1, <2>2, Advances DEF Plan, Handles, store, s
<1>5. CASE SeedRun(t)
  <2>. DEFINE s == [sub[t] EXCEPT !.pc = "store", !.seed = FALSE, !.dispatched = ~sub[t].manual]
  <2>1. s \in Submissions
    BY <1>2 DEF Submissions
  <2>2. /\ s.device = sub[t].device /\ s.article = sub[t].article
        /\ s.review = sub[t].review /\ s.left = sub[t].left /\ s.pc = "store"
    BY <1>2 DEF Submissions
  <2>3. run' \in [Articles -> RunStates]
    BY <1>5, <1>t, <1>2 DEF SeedRun, RunStates
  <2>. HIDE DEF s
  <2>. QED BY <1>5, <1>1, <1>t, <2>1, <2>2, <2>3, Advances DEF SeedRun, Handles, s
<1>6. CASE AnswerOk(t)
  <2>. DEFINE s == [sub[t] EXCEPT !.pc = "answered"]
  <2>1. s \in Submissions
    BY <1>2 DEF Submissions
  <2>2. /\ s.device = sub[t].device /\ s.article = sub[t].article
        /\ s.review = sub[t].review /\ s.left = sub[t].left /\ s.pc = "answered" /\ s.left = 0
    BY <1>2, <1>6 DEF Submissions, AnswerOk
  <2>3. run' \in [Articles -> RunStates]
    BY <1>6, <1>2, TriggerType DEF AnswerOk
  <2>. HIDE DEF s
  <2>. QED BY <1>6, <1>1, <1>t, <2>1, <2>2, <2>3, Advances DEF AnswerOk, Handles, s
<1>7. CASE ServerFails(t) \/ AnswerLost(t)
  <2>. DEFINE s == [sub[t] EXCEPT !.pc = "failed"]
  <2>1. s \in Submissions
    BY <1>2 DEF Submissions
  <2>2. /\ s.device = sub[t].device /\ s.article = sub[t].article
        /\ s.review = sub[t].review /\ s.left = sub[t].left /\ s.pc = "failed"
    BY <1>2 DEF Submissions
  <2>3. refs' \in [Articles -> SUBSET (Devices \cup {NoDevice})]
    BY <1>7, <1>1, StoreReferenceType DEF ServerFails, AnswerLost, store
  <2>4. faults' \in 0..MaxFaults
    BY <1>7, <1>t, BoundsAssumption DEF ServerFails, AnswerLost
  <2>. HIDE DEF s
  <2>5. Advance(t, s) /\ UNCHANGED <<wizard, pieces, article, rating, run, next, history>>
    BY <1>7 DEF ServerFails, AnswerLost, store, s
  <2>. QED BY <2>5, <1>1, <1>t, <2>1, <2>2, <2>3, <2>4, Advances DEF history
<1>. QED BY <1>3, <1>4, <1>5, <1>6, <1>7

LEMMA StorePieceInv ==
  ASSUME Inv1, NEW t \in Tabs, StorePiece(t)
  PROVE  Inv1'
<1>. DEFINE d == sub[t].device
            s == [sub[t] EXCEPT !.left = @ - 1, !.pc = IF sub[t].seed THEN "seed" ELSE "store"]
<1>1. ~Idle(t) /\ sub[t].pc = "store" /\ sub[t].left > 0
  BY Fresh DEF Idle, StorePiece, At
<1>2. /\ sub[t] \in Submissions /\ d \in Devices /\ sub[t].article \in Articles
      /\ \A u \in Tabs \ {t} : sub[u].device # d
  BY <1>1, Handled
<1>3. s \in Submissions
  <2>1. sub[t].left - 1 \in 0..MaxUnits
    BY <1>1, <1>2, BoundsAssumption DEF Submissions
  <2>. QED BY <2>1, <1>2 DEF Submissions
<1>4. /\ s.device = d /\ s.article = sub[t].article /\ s.review = sub[t].review
      /\ s.left = sub[t].left - 1 /\ s.pc \in {"seed", "store"} /\ s # NoSubmission
  BY <1>2 DEF Submissions, NoSubmission
<1>. HIDE DEF s, d
<1>5. /\ sub' = [sub EXCEPT ![t] = s]
      /\ pieces' = [pieces EXCEPT ![d] = @ + 1]
      /\ article' = [article EXCEPT ![d] = sub[t].article]
      /\ drawing' = drawing \ {d}
      /\ UNCHANGED <<wizard, rating, run, next, faults, judged, chosen, wanted, spoiled, overlaps>>
  BY DEF StorePiece, Advance, Handles, s, d
<1>u. sub' \in [Tabs -> Submissions] /\ sub'[t] = s /\ \A u \in Tabs \ {t} : sub'[u] = sub[u]
  BY <1>3, <1>5 DEF Inv1, TypeOK
<1>i. \A u \in Tabs : Idle(u)' <=> Idle(u)
  BY <1>u, <1>4, <1>1 DEF Idle
<1>p. /\ pieces' \in [Devices -> Nat] /\ pieces'[d] = pieces[d] + 1
      /\ \A e \in Devices \ {d} : pieces'[e] = pieces[e]
  BY <1>5, <1>2 DEF Inv1, TypeOK
<1>l. sub[t].left \in Nat /\ pieces[d] \in Nat /\ wanted[d] \in Nat
  BY <1>2 DEF Submissions, Inv1, TypeOK
<1>c. /\ pieces[d] + sub[t].left <= wanted[d]
      /\ d \notin spoiled => pieces[d] + sub[t].left = wanted[d]
  BY <1>1 DEF Inv1, Counted, d
<1>1a. TypeOK'
  <2>1. refs' \in [Articles -> SUBSET (Devices \cup {NoDevice})]
    BY <1>1, StoreReferenceType DEF StorePiece
  <2>2. article' \in [Devices -> Articles \cup {NoArticle}]
    BY <1>5, <1>2 DEF Inv1, TypeOK
  <2>. QED BY <2>1, <2>2, <1>u, <1>p, <1>5 DEF Inv1, TypeOK
<1>2a. Held'
  BY <1>u, <1>i, <1>4, <1>5 DEF Inv1, Held, d
<1>3a. Reviewed'
  BY <1>u, <1>i, <1>4, <1>5 DEF Inv1, Reviewed, Excused, d
<1>4a. Counted'
  <2>1. \A e \in Devices : e >= next => e # d
    BY <1>1, Fresh DEF Inv1, Held, TypeOK, Wizards, d
  <2>2. \A e \in Devices : e >= next' => pieces'[e] = 0 /\ wanted'[e] = 0
    BY <2>1, <1>p, <1>5 DEF Inv1, Counted
  <2>3. /\ pieces'[s.device] + s.left <= wanted'[s.device]
        /\ s.device \notin spoiled' => pieces'[s.device] + s.left = wanted'[s.device]
    BY <1>c, <1>l, <1>p, <1>4, <1>5
  <2>4. \A u \in Tabs \ {t} : ~Idle(u) => pieces'[sub[u].device] = pieces[sub[u].device]
    BY <1>2, <1>p, Handled
  <2>. QED BY <2>2, <2>3, <2>4, <1>u, <1>i, <1>4, <1>5 DEF Inv1, Counted
<1>5a. ForeignReviewOnlyAfterSkip'
  BY <1>5 DEF Inv1, ForeignReviewOnlyAfterSkip
<1>6a. CountedAsAsked'
  <2>1. \A e \in Devices : InFlight(e)' <=> InFlight(e)
    BY <1>u, <1>4 DEF InFlight, d
  <2>2. InFlight(d)
    BY DEF InFlight, d
  <2>3. pieces'[d] <= wanted'[d]
    BY <1>c, <1>l, <1>1, <1>p, <1>5
  <2>4. \A e \in Devices \ {d} : /\ pieces'[e] <= wanted'[e]
                                 /\ e \notin spoiled' /\ ~InFlight(e)' => pieces'[e] = wanted'[e]
    BY <2>1, <1>p, <1>5 DEF Inv1, CountedAsAsked
  <2>5. \A e \in Devices : /\ pieces'[e] <= wanted'[e]
                           /\ e \notin spoiled' /\ ~InFlight(e)' => pieces'[e] = wanted'[e]
    BY <2>1, <2>2, <2>3, <2>4
  <2>. QED BY <2>5 DEF CountedAsAsked
<1>. QED BY <1>1a, <1>2a, <1>3a, <1>4a, <1>5a, <1>6a DEF Inv1

\* The wizard starts again; what the quality step said is recorded with the device.
LEMMA HandleCreatedInv ==
  ASSUME Inv1, NEW t \in Tabs, HandleCreated(t)
  PROVE  Inv1'
<1>. DEFINE d == sub[t].device
<1>1. ~Idle(t) /\ sub[t].pc = "answered"
  BY Fresh DEF Idle, HandleCreated, At
<1>2. /\ sub[t] \in Submissions /\ d \in Devices /\ sub[t].article \in Articles
      /\ \A u \in Tabs \ {t} : sub[u].device # d
      /\ d = wizard[t].device
  BY <1>1, Handled DEF Inv1, Held
<1>. HIDE DEF d
<1>3. /\ sub' = [sub EXCEPT ![t] = NoSubmission]
      /\ UNCHANGED <<refs, pieces, article, next, judged, chosen, wanted, spoiled, drawing, overlaps>>
  BY DEF HandleCreated, Advance, history
<1>u. sub' \in [Tabs -> Submissions] /\ sub'[t] = NoSubmission
      /\ \A u \in Tabs \ {t} : sub'[u] = sub[u]
  BY <1>3, Fresh DEF Inv1, TypeOK
<1>i. Idle(t)' /\ \A u \in Tabs \ {t} : Idle(u)' <=> Idle(u)
  BY <1>u DEF Idle
<1>r. /\ rating' \in [Devices -> Devices \cup {NoDevice}]
      /\ rating'[d] \in {NoDevice, sub[t].review}
      /\ \A e \in Devices \ {d} : rating'[e] = rating[e]
  <2>1. sub[t].review \in Devices \cup {NoDevice} /\ rating[d] = NoDevice
    BY <1>2 DEF Submissions, Inv1, Reviewed
  <2>. QED BY <2>1, <1>2 DEF HandleCreated, PostQuality, Inv1, TypeOK, d
<1>f. faults' \in 0..MaxFaults
  BY BoundsAssumption DEF HandleCreated, PostQuality, Inv1, TypeOK
<1>n. run' \in [Articles -> RunStates]
  BY <1>2, TriggerType DEF HandleCreated
<1>w. /\ wizard' \in [Tabs -> Wizards]
      /\ wizard'[t].step = "artikelLookup" /\ wizard'[t].device = NoDevice
      /\ \A u \in Tabs \ {t} : wizard'[u] = wizard[u]
  <2>1. PICK w : SetWizard(t, w) /\ w \in {Mounted, [Mounted EXCEPT !.review = wizard[t].review,
                                                                   !.ai = wizard[t].ai]}
    BY DEF HandleCreated, ShowSuccess
  <2>2. w \in Wizards /\ w.step = "artikelLookup" /\ w.device = NoDevice
    <3>1. Mounted \in Wizards /\ Mounted.step = "artikelLookup" /\ Mounted.device = NoDevice
      BY BoundsAssumption DEF Mounted, Wizards, Steps
    <3>2. wizard[t] \in Wizards
      BY DEF Inv1, TypeOK
    <3>. QED BY <2>1, <3>1, <3>2 DEF Wizards
  <2>. QED BY <2>1, <2>2 DEF SetWizard, Inv1, TypeOK
<1>1a. TypeOK'
  BY <1>u, <1>r, <1>f, <1>n, <1>w, <1>3 DEF Inv1, TypeOK
<1>2a. Held'
  BY <1>u, <1>i, <1>w, <1>3, Fresh DEF Inv1, Held, TypeOK
<1>3a. Reviewed'
  <2>1. \A u \in Tabs \ {t} : wizard[u].device # d
    BY <1>2, Fresh DEF Inv1, Held
  <2>2. d < next
    BY <1>2 DEF Inv1, Held
  <2>3. \A u \in Tabs, e \in Devices : wizard'[u].device = e => rating'[e] = NoDevice
    <3>1. \A e \in Devices : wizard'[t].device # e
      BY <1>w, Fresh
    <3>2. \A u \in Tabs \ {t}, e \in Devices : wizard[u].device = e => rating'[e] = NoDevice
      BY <2>1, <1>r DEF Inv1, Reviewed
    <3>. QED BY <3>1, <3>2, <1>w
  <2>4. \A e \in Devices : e >= next' => rating'[e] = NoDevice
    BY <2>2, <1>r, <1>3, <1>2, Fresh DEF Inv1, Reviewed, TypeOK
  <2>. QED BY <2>3, <2>4, <1>u, <1>i, <1>w, <1>3 DEF Inv1, Reviewed, Excused, Choosing
<1>4a. Counted'
  BY <1>u, <1>i, <1>3 DEF Inv1, Counted
<1>5a. ForeignReviewOnlyAfterSkip'
  <2>1. sub[t].review \in {d, NoDevice} \/ Excused(d)
    BY <1>1 DEF Inv1, Reviewed, d
  <2>. QED BY <2>1, <1>r, <1>3 DEF Inv1, ForeignReviewOnlyAfterSkip, Excused
<1>6a. CountedAsAsked'
  <2>1. \A e \in Devices \ {d} : InFlight(e)' <=> InFlight(e)
    BY <1>u, Fresh DEF InFlight, d
  <2>2. d \notin spoiled => pieces[d] = wanted[d]
    BY <1>1, <1>2 DEF Inv1, Counted, TypeOK, d
  <2>. QED BY <2>1, <2>2, <1>2, <1>3 DEF Inv1, CountedAsAsked
<1>. QED BY <1>1a, <1>2a, <1>3a, <1>4a, <1>5a, <1>6a DEF Inv1

LEMMA HandleFailureInv ==
  ASSUME Inv1, NEW t \in Tabs, HandleFailure(t)
  PROVE  Inv1'
<1>. DEFINE d == sub[t].device
<1>1. ~Idle(t) /\ sub[t].pc = "failed"
  BY Fresh DEF Idle, HandleFailure, At
<1>2. d \in Devices /\ \A u \in Tabs \ {t} : sub[u].device # d
  BY <1>1, Handled
<1>. HIDE DEF d
<1>3. /\ sub' = [sub EXCEPT ![t] = NoSubmission] /\ spoiled' = spoiled \cup {d}
      /\ UNCHANGED <<wizard, refs, pieces, article, rating, run, next, faults,
                     judged, chosen, wanted, drawing, overlaps>>
  BY DEF HandleFailure, Advance, store, d
<1>u. sub' \in [Tabs -> Submissions] /\ sub'[t] = NoSubmission
      /\ \A u \in Tabs \ {t} : sub'[u] = sub[u]
  BY <1>3, Fresh DEF Inv1, TypeOK
<1>i. Idle(t)' /\ \A u \in Tabs \ {t} : Idle(u)' <=> Idle(u)
  BY <1>u DEF Idle
<1>1a. TypeOK'
  BY <1>u, <1>2, <1>3 DEF Inv1, TypeOK
<1>2a. Held'
  BY <1>u, <1>i, <1>3 DEF Inv1, Held
<1>3a. Reviewed'
  BY <1>u, <1>i, <1>3 DEF Inv1, Reviewed, Excused
<1>4a. Counted'
  BY <1>u, <1>i, <1>2, <1>3 DEF Inv1, Counted
<1>5a. ForeignReviewOnlyAfterSkip'
  BY <1>3 DEF Inv1, ForeignReviewOnlyAfterSkip
<1>6a. CountedAsAsked'
  <2>1. \A e \in Devices \ {d} : InFlight(e)' <=> InFlight(e)
    BY <1>u, Fresh DEF InFlight, d
  <2>. QED BY <2>1, <1>2, <1>3 DEF Inv1, CountedAsAsked
<1>. QED BY <1>1a, <1>2a, <1>3a, <1>4a, <1>5a, <1>6a DEF Inv1

-----------------------------------------------------------------------------
(* Every step *)

LEMMA OperateInv ==
  ASSUME Inv1, NEW t \in Tabs, Operate(t) \/ checkAgenticHealth(t) \/ generateMaterialNumber(t)
  PROVE  Inv1'
<1>. DEFINE v == wizard[t]
<1>w. /\ v \in Wizards
      /\ v.step # "artikelLookup" <=> v.device # NoDevice
      /\ v.step \in Choosing \ {"qualityReview"} => v.review \in {v.device, NoDevice}
      /\ ~Idle(t) => v.step \in Choosing
      /\ v.step \in Choosing => v.device \in Devices
  BY DEF Inv1, TypeOK, Held, Reviewed, Choosing, Wizards
<1>t. /\ refs \in [Articles -> SUBSET (Devices \cup {NoDevice})]
      /\ article \in [Devices -> Articles \cup {NoArticle}]
      /\ run \in [Articles -> RunStates] /\ faults \in 0..MaxFaults
      /\ drawing \subseteq Devices /\ overlaps \subseteq SUBSET Devices
  BY DEF Inv1, TypeOK
<1>f. /\ \A w \in Wizards : DOMAIN w = {"step", "device", "ref", "number", "units", "review", "ai"}
      /\ NoDevice \notin Devices
  BY Fresh DEF Wizards
<1>. USE DEF Choices, store, history
<1>1. CASE checkAgenticHealth(t)
  <2>. DEFINE w == [v EXCEPT !.ai = TRUE]
  <2>1. /\ w \in Wizards /\ w.step = "artikelLookup" /\ w.device = NoDevice /\ v.step = w.step
        /\ v.device = NoDevice /\ SetWizard(t, w)
    <3>1. v.step = "artikelLookup" /\ v.device = NoDevice /\ SetWizard(t, w)
      BY <1>1 DEF checkAgenticHealth, Mounted
    <3>2. w \in Wizards /\ w.step = v.step /\ w.device = v.device
      BY <1>w DEF Wizards
    <3>. QED BY <3>1, <3>2
  <2>2. Idle(t)
    BY <2>1, <1>w DEF Choosing
  <2>. HIDE DEF w
  <2>. QED BY <1>1, <1>t, <2>1, <2>2, WizardMoves DEF checkAgenticHealth, Choosing
<1>2. CASE handleArtikelLookupSelect(t)
  <2>1. PICK a \in Articles :
          SetWizard(t, [v EXCEPT !.step = "qualityReview", !.device = next, !.ref = a])
    BY <1>2 DEF handleArtikelLookupSelect
  <2>. DEFINE w == [v EXCEPT !.step = "qualityReview", !.device = next, !.ref = a]
  <2>2. /\ next \in Devices /\ next' = next + 1 /\ v.step = "artikelLookup" /\ SetWizard(t, w)
        /\ UNCHANGED <<sub, refs, pieces, article, rating, run, faults, judged,
                       chosen, wanted, spoiled, drawing, overlaps>>
    BY <1>2, <2>1 DEF handleArtikelLookupSelect
  <2>3. w \in Wizards /\ w.step = "qualityReview" /\ w.device = next /\ Idle(t)
    BY <2>2, <1>w DEF Wizards, Steps, Choosing
  <2>. HIDE DEF w
  <2>. QED BY <1>t, <1>f, <2>2, <2>3, WizardMoves DEF Choosing
<1>3. CASE handleArtikelLookupSkip(t)
  <2>. DEFINE w == [v EXCEPT !.step = "basicInfo", !.device = next, !.ref = NoArticle]
  <2>1. SetWizard(t, w) /\ next \in Devices /\ next' = next + 1 /\ v.step = "artikelLookup"
    BY <1>3 DEF handleArtikelLookupSkip
  <2>2. w \in Wizards /\ w.step = "basicInfo" /\ w.device = next /\ Idle(t)
    BY <2>1, <1>w DEF Wizards, Steps, Choosing
  <2>. HIDE DEF w
  <2>. QED BY <1>3, <1>t, <1>f, <2>1, <2>2, WizardMoves DEF handleArtikelLookupSkip, Choosing
<1>4. CASE handleBasicInfoNext(t)
  <2>1. PICK n \in 1..MaxUnits :
          SetWizard(t, IF n > 1 THEN [v EXCEPT !.step = "matchSelection", !.units = n,
                                               !.review = NoDevice]
                       ELSE [v EXCEPT !.step = "qualityReview", !.units = n])
    BY <1>4 DEF handleBasicInfoNext
  <2>. DEFINE w == IF n > 1 THEN [v EXCEPT !.step = "matchSelection", !.units = n,
                                           !.review = NoDevice]
                   ELSE [v EXCEPT !.step = "qualityReview", !.units = n]
  <2>2. v.step = "basicInfo" /\ Idle(t)
    BY <1>4, <1>w DEF handleBasicInfoNext, Choosing
  <2>3. /\ w \in Wizards /\ w.step \in {"matchSelection", "qualityReview"} /\ w.device = v.device
        /\ w.step = "matchSelection" => w.review = NoDevice
    BY <2>2, <1>w DEF Wizards, Steps
  <2>4. v.device # NoDevice
    BY <2>2, <1>w
  <2>. HIDE DEF w
  <2>. QED BY <1>4, <1>t, <2>1, <2>2, <2>3, <2>4, WizardMoves
           DEF handleBasicInfoNext, Choosing, w
<1>5. CASE handleQualityReviewComplete(t) \/ handleQualityReviewSkip(t)
  <2>1. PICK how \in {"done", "skipped"} :
          /\ Judge(t, how)
          /\ how = "done" <=> handleQualityReviewComplete(t)
          /\ how = "skipped" => handleQualityReviewSkip(t)
    BY <1>5 DEF handleQualityReviewComplete, handleQualityReviewSkip
  <2>2. v.step = "qualityReview" /\ Idle(t) /\ v.device \in Devices
    BY <1>5, <1>w DEF handleQualityReviewComplete, handleQualityReviewSkip, Choosing
  <2>. DEFINE r == IF how = "done" THEN v.device ELSE NoDevice
  <2>3. r \in {v.device, NoDevice} /\ r \in Devices \cup {NoDevice}
    BY <2>2
  <2>4. CASE v.ref # NoArticle
    <3>. DEFINE w == [v EXCEPT !.review = r]
                posted == IF how = "done" THEN v.device ELSE v.review
    <3>1. SetWizard(t, w) /\ submitNewItem(t, v.ref, v.units, posted, "match-selection")
      BY <2>1, <2>4 DEF handleQualityReviewComplete, handleQualityReviewSkip
    <3>2. w \in Wizards /\ w.step = "qualityReview" /\ w.device = v.device
      BY <1>w, <2>2, <2>3 DEF Wizards
    <3>3. v.ref \in Articles /\ v.units \in 1..MaxUnits /\ posted \in Devices \cup {NoDevice}
      BY <1>w, <2>4, <2>2 DEF Wizards
    <3>4. posted \in {v.device, NoDevice} \/ judged'[v.device] = "skipped"
      BY <2>1, <2>2 DEF Judge, Inv1, TypeOK
    <3>. HIDE DEF w, posted
    <3>. QED BY <2>1, <2>2, <3>1, <3>2, <3>3, <3>4, Submits DEF Choosing
  <2>5. CASE v.ref = NoArticle
    <3>. DEFINE w == [v EXCEPT !.review = r, !.step = "matchSelection"]
    <3>1. /\ SetWizard(t, w)
          /\ UNCHANGED <<sub, refs, pieces, article, rating, run, next, faults,
                         chosen, wanted, spoiled, drawing, overlaps>>
      BY <2>1, <2>5 DEF handleQualityReviewComplete, handleQualityReviewSkip
    <3>2. w \in Wizards /\ w.step = "matchSelection" /\ w.device = v.device /\ w.review = r
      BY <1>w, <2>2, <2>3 DEF Wizards, Steps
    <3>3. v.device # NoDevice
      BY <2>2, <1>f
    <3>. HIDE DEF w, r
    <3>. QED BY <1>t, <2>1, <2>2, <2>3, <3>1, <3>2, <3>3, WizardMoves DEF Choosing
  <2>. QED BY <2>4, <2>5
<1>6. CASE handleMatchSelection(t)
  <2>1. PICK a \in Articles : submitNewItem(t, a, v.units, v.review, "match-selection")
    BY <1>6 DEF handleMatchSelection
  <2>2. v.step = "matchSelection" /\ Idle(t) /\ SetWizard(t, v) /\ judged' = judged
    BY <1>6 DEF handleMatchSelection, SetWizard, Inv1, TypeOK
  <2>3. v.units \in 1..MaxUnits /\ v.review \in {v.device, NoDevice} /\ v.device \in Devices
    BY <2>2, <1>w DEF Wizards, Choosing
  <2>. HIDE DEF v
  <2>. QED BY <2>1, <2>2, <2>3, <1>w, Submits DEF Choosing, v
<1>7. CASE handleSkipMatches(t) \/ handleAgenticFallback(t)
  <2>1. PICK step \in {"agenticPhotos", "manualEdit"} : SetWizard(t, [v EXCEPT !.step = step])
    BY <1>7 DEF handleSkipMatches, handleAgenticFallback
  <2>. DEFINE w == [v EXCEPT !.step = step]
  <2>2. /\ v.step \in {"matchSelection", "agenticPhotos"} /\ Idle(t)
        /\ UNCHANGED <<sub, refs, pieces, article, rating, run, next, faults, judged,
                       chosen, wanted, spoiled, drawing, overlaps>>
    BY <1>7 DEF handleSkipMatches, handleAgenticFallback
  <2>3. /\ w \in Wizards /\ w.step = step /\ w.device = v.device /\ w.review = v.review
        /\ v.device # NoDevice
    BY <2>2, <1>w, <1>f DEF Wizards, Steps, Choosing
  <2>. HIDE DEF w, v
  <2>. QED BY <1>t, <1>w, <2>1, <2>2, <2>3, WizardMoves DEF Choosing, w, v
<1>8. CASE handleAgenticPhotos(t) \/ handleManualSubmit(t)
  <2>1. PICK n \in 1..MaxUnits, context \in {"agentic-photos", "manual-edit"} :
          submitNewItem(t, v.number, n, v.review, context)
    BY <1>8, <1>w DEF handleAgenticPhotos, handleManualSubmit, Wizards
  <2>2. /\ v.step \in {"agenticPhotos", "manualEdit"} /\ Idle(t) /\ v.number # NoArticle
        /\ SetWizard(t, v) /\ judged' = judged
    BY <1>8 DEF handleAgenticPhotos, handleManualSubmit, SetWizard, Inv1, TypeOK
  <2>3. v.number \in Articles /\ v.review \in {v.device, NoDevice} /\ v.device \in Devices
    BY <2>2, <1>w DEF Wizards, Choosing
  <2>. HIDE DEF v
  <2>. QED BY <2>1, <2>2, <2>3, <1>w, Submits DEF Choosing, v
<1>9. CASE Leave(t)
  <2>1. Mounted \in Wizards /\ Mounted.step = "artikelLookup" /\ Mounted.device = NoDevice
    BY BoundsAssumption DEF Mounted, Wizards, Steps
  <2>2. /\ SetWizard(t, Mounted) /\ Idle(t) /\ drawing' \subseteq drawing
        /\ UNCHANGED <<sub, refs, pieces, article, rating, run, next, faults, judged,
                       chosen, wanted, spoiled, overlaps>>
    BY <1>9 DEF Leave
  <2>3. drawing' \subseteq Devices
    BY <2>2, <1>t
  <2>. QED BY <1>t, <2>1, <2>2, <2>3, WizardMoves DEF Choosing
<1>10. CASE generateMaterialNumber(t)
  <2>1. PICK n \in Articles : SetWizard(t, [v EXCEPT !.number = n])
    BY <1>10 DEF generateMaterialNumber
  <2>. DEFINE w == [v EXCEPT !.number = n]
  <2>2. /\ v.step \in {"agenticPhotos", "manualEdit"}
        /\ UNCHANGED <<sub, refs, pieces, article, rating, run, next, faults, judged,
                       chosen, wanted, spoiled>>
        /\ drawing' = drawing \cup {v.device}
        /\ overlaps' = overlaps \cup {{v.device, e} : e \in drawing}
    BY <1>10 DEF generateMaterialNumber
  <2>3. v.device \in Devices
    BY <2>2, <1>w DEF Choosing
  <2>4. drawing' \subseteq Devices /\ overlaps' \subseteq SUBSET Devices
    BY <2>2, <2>3, <1>t
  <2>5. /\ w \in Wizards /\ w.step = v.step /\ w.device = v.device /\ w.review = v.review
        /\ v.device # NoDevice
    BY <1>w, <1>f, <2>3 DEF Wizards
  <2>. HIDE DEF w, v
  <2>. QED BY <1>t, <1>w, <2>1, <2>2, <2>4, <2>5, WizardMoves DEF Choosing, w, v
<1>. QED BY <1>1, <1>2, <1>3, <1>4, <1>5, <1>6, <1>7, <1>8, <1>9, <1>10 DEF Operate

LEMMA NextInv1 == Inv1 /\ [Next]_vars => Inv1'
<1>. SUFFICES ASSUME Inv1, [Next]_vars PROVE Inv1'
  OBVIOUS
<1>1. CASE UNCHANGED vars
  BY <1>1 DEF vars, store, history, Inv1, TypeOK, Held, Reviewed, Counted, Excused, Idle,
              ForeignReviewOnlyAfterSkip, CountedAsAsked, InFlight
<1>2. CASE Next
  <2>1. PICK t \in Tabs :
          \/ Operate(t) \/ checkAgenticHealth(t) \/ generateMaterialNumber(t)
          \/ Serve(t) \/ Return(t) \/ ServerFails(t) \/ AnswerLost(t)
    BY <1>2 DEF Next
  <2>. QED BY <2>1, OperateInv, ServeInv, StorePieceInv, HandleCreatedInv, HandleFailureInv
           DEF Serve, Return
<1>. QED BY <1>1, <1>2

LEMMA Inv1Holds == Spec => []Inv1
<1>. QED BY InitInv1, NextInv1, PTL DEF Spec

-----------------------------------------------------------------------------
(* Numbers of new articles *)

DrawnAt == {"agenticPhotos", "manualEdit"}
Drawn(t) == wizard[t].number # NoArticle

\* A number is drawn above every reference.  Until a reference has it, its device is
\* among those that others who draw it will overlap with.
Numbered ==
  /\ \A t \in Tabs : Drawn(t) => wizard[t].step \in DrawnAt
  /\ \A t \in Tabs : Drawn(t) /\ ~HasReference(wizard[t].number) => wizard[t].device \in drawing
  /\ \A t, u \in Tabs : t # u /\ Drawn(t) /\ wizard[t].number = wizard[u].number
       => {wizard[t].device, wizard[u].device} \in overlaps
  /\ \A t \in Tabs, e \in Devices \ chosen :
       Drawn(t) /\ pieces[e] > 0 /\ article[e] = wizard[t].number /\ e # wizard[t].device
         => {wizard[t].device, e} \in overlaps
  /\ \A e \in Devices : pieces[e] > 0 => article[e] \in Articles /\ HasReference(article[e])
  /\ \A t \in Tabs : ~Idle(t) =>
       \/ Drawn(t) /\ sub[t].article = wizard[t].number
       \/ sub[t].device \in chosen /\ wizard[t].step \notin DrawnAt
  /\ \A t \in Tabs : ~Idle(t) /\ sub[t].byReference => HasReference(sub[t].article)

Inv2 == Inv1 /\ Numbered /\ SharedOnlyByRace

\* A step that stores no piece and draws no number.
LEMMA NumberedFrame ==
  ASSUME Inv2, Inv1', NEW t \in Tabs,
         \A u \in Tabs \ {t} : wizard'[u] = wizard[u] /\ sub'[u] = sub[u],
         Drawn(t)' => /\ wizard'[t].step \in DrawnAt /\ wizard'[t].number = wizard[t].number
                      /\ wizard'[t].device = wizard[t].device /\ drawing' = drawing,
         drawing \ {wizard[t].device} \subseteq drawing',
         UNCHANGED <<pieces, article, overlaps>>, chosen \subseteq chosen',
         \A a \in Articles : refs[a] # {} => refs'[a] # {},
         ~Idle(t)' =>
           /\ \/ Drawn(t)' /\ sub'[t].article = wizard'[t].number
              \/ sub'[t].device \in chosen' /\ wizard'[t].step \notin DrawnAt
           /\ sub'[t].byReference => refs'[sub'[t].article] # {}
  PROVE  Numbered' /\ SharedOnlyByRace'
<1>. USE DEF Drawn, HasReference
<1>d. \A u \in Tabs : Drawn(u) => /\ wizard[u].device \in Devices
                                  /\ wizard[u].number \in Articles
                                  /\ u # t => wizard[u].device # wizard[t].device
  BY Fresh DEF Inv2, Inv1, TypeOK, Held, Numbered, DrawnAt, Wizards
<1>a. \A u \in Tabs : ~Idle(u) => sub[u].article \in Articles
  BY Handled DEF Inv2
<1>1. \A u \in Tabs : Drawn(u)' => wizard'[u].step \in DrawnAt
  BY DEF Inv2, Numbered
<1>2. \A u \in Tabs : Drawn(u)' /\ refs'[wizard'[u].number] = {} => wizard'[u].device \in drawing'
  BY <1>d DEF Inv2, Numbered
<1>3. \A u, v \in Tabs : u # v /\ Drawn(u)' /\ wizard'[u].number = wizard'[v].number
        => {wizard'[u].device, wizard'[v].device} \in overlaps'
  <2>1. \A u \in Tabs : Drawn(u)' => /\ Drawn(u) /\ wizard'[u].number = wizard[u].number
                                     /\ wizard'[u].device = wizard[u].device
    OBVIOUS
  <2>. QED BY <2>1 DEF Inv2, Numbered
<1>4. \A u \in Tabs, e \in Devices \ chosen' :
        Drawn(u)' /\ pieces'[e] > 0 /\ article'[e] = wizard'[u].number /\ e # wizard'[u].device
          => {wizard'[u].device, e} \in overlaps'
  BY DEF Inv2, Numbered
<1>5. \A e \in Devices : pieces'[e] > 0 => article'[e] \in Articles /\ refs'[article'[e]] # {}
  BY DEF Inv2, Numbered
<1>6. \A u \in Tabs : ~Idle(u)' =>
       \/ Drawn(u)' /\ sub'[u].article = wizard'[u].number
       \/ sub'[u].device \in chosen' /\ wizard'[u].step \notin DrawnAt
  BY DEF Inv2, Numbered, Idle
<1>7. \A u \in Tabs : ~Idle(u)' /\ sub'[u].byReference => refs'[sub'[u].article] # {}
  BY <1>a DEF Inv2, Numbered, Idle
<1>8. SharedOnlyByRace'
  BY DEF Inv2, SharedOnlyByRace
<1>. QED BY <1>1, <1>2, <1>3, <1>4, <1>5, <1>6, <1>7, <1>8 DEF Numbered

\* A new number has no reference, so those who hold it too have drawn and stored nothing.
LEMMA DrawingNumbers ==
  ASSUME Inv2, Inv1', NEW t \in Tabs, generateMaterialNumber(t)
  PROVE  Numbered' /\ SharedOnlyByRace'
<1>. USE DEF Drawn, HasReference
<1>. DEFINE d == wizard[t].device
<1>1. PICK n \in Articles : NextNumber(n) /\ SetWizard(t, [wizard[t] EXCEPT !.number = n])
  BY DEF generateMaterialNumber
<1>2. /\ wizard[t].step \in DrawnAt /\ wizard[t].number = NoArticle
      /\ drawing' = drawing \cup {d} /\ overlaps' = overlaps \cup {{d, e} : e \in drawing}
      /\ UNCHANGED <<sub, refs, pieces, article, chosen>>
  BY DEF generateMaterialNumber, Choices, store, DrawnAt
<1>3. ~HasReference(n)
  <2>1. \A m \in Numbers : m < n
    BY <1>1 DEF NextNumber
  <2>2. n \in Nat
    BY <1>1, BoundsAssumption DEF Articles
  <2>. QED BY <2>1, <2>2 DEF Numbers
<1>4. /\ wizard'[t].number = n /\ wizard'[t].device = d /\ wizard'[t].step = wizard[t].step
      /\ \A u \in Tabs \ {t} : wizard'[u] = wizard[u]
      /\ n # NoArticle
  BY <1>1, Fresh DEF SetWizard, Inv2, Inv1, TypeOK, Wizards
<1>5. Idle(t)
  BY <1>2 DEF Inv2, Numbered
<1>h. refs' = refs
  BY <1>2
<1>6. \A u \in Tabs \ {t} : Drawn(u) /\ wizard[u].number = n => wizard[u].device \in drawing
  BY <1>3 DEF Inv2, Numbered
<1>7. \A e \in Devices : pieces[e] > 0 => article[e] # n
  BY <1>3 DEF Inv2, Numbered
<1>. HIDE DEF d
<1>8. (\A u \in Tabs : Drawn(u) => wizard[u].step \in DrawnAt)'
  BY <1>2, <1>4 DEF Inv2, Numbered
<1>9. \A u \in Tabs : Drawn(u)' /\ refs'[wizard'[u].number] = {} => wizard'[u].device \in drawing'
  BY <1>2, <1>4, <1>h DEF Inv2, Numbered
<1>10. \A u, v \in Tabs : u # v /\ Drawn(u)' /\ wizard'[u].number = wizard'[v].number
         => {wizard'[u].device, wizard'[v].device} \in overlaps'
  <2>. SUFFICES ASSUME NEW u \in Tabs, NEW v \in Tabs, u # v, Drawn(u)',
                       wizard'[u].number = wizard'[v].number
                PROVE  {wizard'[u].device, wizard'[v].device} \in overlaps'
    OBVIOUS
  <2>1. CASE u = t
    BY <2>1, <1>2, <1>4, <1>6
  <2>2. CASE v = t
    <3>1. wizard[u].device \in drawing /\ wizard'[u].device = wizard[u].device /\ wizard'[v].device = d
      BY <2>2, <1>4, <1>6
    <3>2. {d, wizard[u].device} \in overlaps'
      BY <3>1, <1>2
    <3>3. {wizard[u].device, d} = {d, wizard[u].device}
      OBVIOUS
    <3>. QED BY <3>1, <3>2, <3>3
  <2>3. CASE u # t /\ v # t
    BY <2>3, <1>2, <1>4 DEF Inv2, Numbered
  <2>. QED BY <2>1, <2>2, <2>3
<1>11. \A u \in Tabs, e \in Devices \ chosen' :
         Drawn(u)' /\ pieces'[e] > 0 /\ article'[e] = wizard'[u].number /\ e # wizard'[u].device
           => {wizard'[u].device, e} \in overlaps'
  BY <1>2, <1>4, <1>7 DEF Inv2, Numbered
<1>12. \A e \in Devices : pieces'[e] > 0 => article'[e] \in Articles /\ refs'[article'[e]] # {}
  BY <1>2, <1>h DEF Inv2, Numbered
<1>13. \A u \in Tabs : ~Idle(u)' =>
         /\ \/ Drawn(u)' /\ sub'[u].article = wizard'[u].number
            \/ sub'[u].device \in chosen' /\ wizard'[u].step \notin DrawnAt
         /\ sub'[u].byReference => refs'[sub'[u].article] # {}
  BY <1>2, <1>4, <1>5, <1>h DEF Inv2, Numbered, Idle
<1>14. SharedOnlyByRace'
  BY <1>2 DEF Inv2, SharedOnlyByRace
<1>. QED BY <1>8, <1>9, <1>10, <1>11, <1>12, <1>13, <1>14 DEF Numbered

\* The piece stored under a drawn number joins those its device overlapped with.
LEMMA StoringNumbers ==
  ASSUME Inv2, Inv1', NEW t \in Tabs, StorePiece(t)
  PROVE  Numbered' /\ SharedOnlyByRace'
<1>. USE DEF Drawn, HasReference
<1>. DEFINE d == sub[t].device
            a == sub[t].article
<1>1. /\ ~Idle(t) /\ d \in Devices /\ a \in Articles /\ wizard[t].device = d
      /\ sub[t] \in Submissions /\ sub[t].pc = "store"
  <2>1. ~Idle(t) /\ sub[t].pc = "store"
    BY Fresh DEF StorePiece, At, Idle
  <2>. QED BY <2>1, Handled DEF Inv2, Inv1, Held
<1>2. /\ pieces' = [pieces EXCEPT ![d] = @ + 1] /\ article' = [article EXCEPT ![d] = a]
      /\ drawing' = drawing \ {d} /\ UNCHANGED <<wizard, chosen, overlaps>>
      /\ StoreReference(t)
      /\ Advance(t, [sub[t] EXCEPT !.left = @ - 1, !.pc = IF sub[t].seed THEN "seed" ELSE "store"])
  BY DEF StorePiece, Handles
<1>3. /\ sub'[t].article = a /\ sub'[t].device = d /\ sub'[t].byReference = sub[t].byReference
      /\ \A u \in Tabs \ {t} : sub'[u] = sub[u]
  BY <1>1, <1>2 DEF Advance, Inv2, Inv1, TypeOK, Submissions
<1>4. /\ article'[d] = a /\ \A e \in Devices \ {d} : article'[e] = article[e] /\ pieces'[e] = pieces[e]
  BY <1>1, <1>2 DEF Inv2, Inv1, TypeOK
<1>5. /\ \A b \in Articles : refs[b] # {} => refs'[b] # {}
      /\ refs'[a] # {}
  <2>1. sub[t].byReference => refs[a] # {}
    BY <1>1 DEF Inv2, Numbered
  <2>2. refs \in [Articles -> SUBSET (Devices \cup {NoDevice})]
    BY DEF Inv2, Inv1, TypeOK
  <2>3. refs' = IF sub[t].byReference THEN refs ELSE [refs EXCEPT ![a] = {d}]
    BY <1>2 DEF StoreReference
  <2>. HIDE DEF d, a
  <2>. QED BY <1>1, <2>1, <2>2, <2>3
<1>6. \/ Drawn(t) /\ a = wizard[t].number
      \/ d \in chosen /\ wizard[t].step \notin DrawnAt
  BY <1>1 DEF Inv2, Numbered
<1>7. \A u \in Tabs : Drawn(u) => /\ wizard[u].device \in Devices
                                  /\ wizard[u].number \in Articles
                                  /\ u # t => wizard[u].device # d
  BY <1>1, Fresh DEF Inv2, Inv1, TypeOK, Held, Numbered, DrawnAt, Wizards
<1>8. \A u \in Tabs \ {t} : ~Idle(u) => sub[u].article \in Articles
  BY Handled DEF Inv2
<1>. HIDE DEF d, a
<1>9. (\A u \in Tabs : Drawn(u) => wizard[u].step \in DrawnAt)'
  BY <1>2 DEF Inv2, Numbered
<1>10. \A u \in Tabs : Drawn(u)' /\ refs'[wizard'[u].number] = {} => wizard'[u].device \in drawing'
  <2>1. Drawn(t) => wizard[t].number = a
    BY <1>6 DEF Inv2, Numbered
  <2>. QED BY <2>1, <1>2, <1>5, <1>7 DEF Inv2, Numbered
<1>11. \A u, v \in Tabs : u # v /\ Drawn(u)' /\ wizard'[u].number = wizard'[v].number
         => {wizard'[u].device, wizard'[v].device} \in overlaps'
  BY <1>2 DEF Inv2, Numbered
<1>12. \A u \in Tabs, e \in Devices \ chosen' :
         Drawn(u)' /\ pieces'[e] > 0 /\ article'[e] = wizard'[u].number /\ e # wizard'[u].device
           => {wizard'[u].device, e} \in overlaps'
  <2>. SUFFICES ASSUME NEW u \in Tabs, NEW e \in Devices \ chosen', Drawn(u), pieces'[e] > 0,
                       article'[e] = wizard[u].number, e # wizard[u].device
                PROVE  {wizard[u].device, e} \in overlaps
    BY <1>2
  <2>1. CASE e # d
    BY <2>1, <1>2, <1>4 DEF Inv2, Numbered
  <2>2. CASE e = d
    <3>1. u # t /\ wizard[u].number = a /\ a = wizard[t].number /\ Drawn(t)
      BY <2>2, <1>1, <1>2, <1>4, <1>6
    <3>2. {wizard[u].device, wizard[t].device} \in overlaps
      BY <3>1 DEF Inv2, Numbered
    <3>. QED BY <3>2, <2>2, <1>1
  <2>. QED BY <2>1, <2>2
<1>13. \A e \in Devices : pieces'[e] > 0 => article'[e] \in Articles /\ refs'[article'[e]] # {}
  BY <1>1, <1>4, <1>5 DEF Inv2, Numbered
<1>14. \A u \in Tabs : ~Idle(u)' =>
         \/ Drawn(u)' /\ sub'[u].article = wizard'[u].number
         \/ sub'[u].device \in chosen' /\ wizard'[u].step \notin DrawnAt
  BY <1>2, <1>3, <1>6 DEF Inv2, Numbered, Idle
<1>15. \A u \in Tabs : ~Idle(u)' /\ sub'[u].byReference => refs'[sub'[u].article] # {}
  BY <1>3, <1>5, <1>8 DEF Inv2, Numbered, Idle
<1>16. SharedOnlyByRace'
  <2>1. d \notin chosen => \A e \in Devices \ chosen :
          e # d /\ pieces[e] > 0 /\ article[e] = a => {d, e} \in overlaps
    BY <1>1, <1>6 DEF Inv2, Numbered
  <2>2. \A e : {d, e} = {e, d}
    OBVIOUS
  <2>. SUFFICES ASSUME NEW e \in Devices \ chosen, NEW f \in Devices \ chosen, e # f,
                       pieces'[e] > 0, pieces'[f] > 0, article'[e] = article'[f]
                PROVE  {e, f} \in overlaps
    BY <1>2 DEF SharedOnlyByRace
  <2>3. CASE e = d
    BY <2>3, <2>1, <1>4
  <2>4. CASE f = d
    BY <2>4, <2>1, <2>2, <1>4
  <2>5. CASE e # d /\ f # d
    BY <2>5, <1>4 DEF Inv2, SharedOnlyByRace
  <2>. QED BY <2>3, <2>4, <2>5
<1>. QED BY <1>9, <1>10, <1>11, <1>12, <1>13, <1>14, <1>15, <1>16 DEF Numbered

LEMMA InitInv2 == Init => Inv2
<1>. SUFFICES ASSUME Init PROVE Inv2
  OBVIOUS
<1>1. Numbered /\ SharedOnlyByRace
  BY DEF Init, Mounted, NoArticle, NoDevice, Idle, Drawn, Numbered, SharedOnlyByRace
<1>. QED BY <1>1, InitInv1 DEF Inv2

LEMMA NextInv2 == Inv2 /\ [Next]_vars => Inv2'
<1>. SUFFICES ASSUME Inv2, [Next]_vars PROVE Inv2'
  OBVIOUS
<1>i. Inv1'
  BY NextInv1 DEF Inv2
<1>. USE DEF Choices, store, history
<1>1. CASE UNCHANGED vars
  BY <1>i, <1>1 DEF vars, Inv2, Numbered, SharedOnlyByRace, Drawn, HasReference, Idle
<1>2. CASE Next
  <2>1. PICK t \in Tabs :
          \/ Operate(t) \/ checkAgenticHealth(t) \/ generateMaterialNumber(t)
          \/ Serve(t) \/ Return(t) \/ ServerFails(t) \/ AnswerLost(t)
    BY <1>2 DEF Next
  <2>. DEFINE v == wizard[t]
  <2>t. /\ v \in Wizards /\ wizard \in [Tabs -> Wizards] /\ sub \in [Tabs -> Submissions]
        /\ refs \in [Articles -> SUBSET (Devices \cup {NoDevice})]
        /\ Drawn(t) => v.step \in DrawnAt
        /\ ~Idle(t) => \/ Drawn(t) /\ sub[t].article = v.number
                       \/ sub[t].device \in chosen /\ v.step \notin DrawnAt
        /\ ~Idle(t) /\ sub[t].byReference => refs[sub[t].article] # {}
        /\ ~Idle(t) => v.step \in Choosing
    BY DEF Inv2, Inv1, TypeOK, Numbered, Held, HasReference
  <2>n. NoSubmission.byReference = FALSE /\ Mounted.number = NoArticle
    BY DEF NoSubmission, Mounted
  <2>2. CASE \/ checkAgenticHealth(t) \/ handleArtikelLookupSelect(t)
             \/ handleArtikelLookupSkip(t) \/ handleBasicInfoNext(t) \/ Leave(t)
    <3>5. Leave(t) \/ v.step \in {"artikelLookup", "basicInfo"}
      <4>1. checkAgenticHealth(t) => v.step = "artikelLookup"
        BY DEF checkAgenticHealth, Mounted
      <4>2. /\ handleArtikelLookupSelect(t) => v.step = "artikelLookup"
            /\ handleArtikelLookupSkip(t) => v.step = "artikelLookup"
            /\ handleBasicInfoNext(t) => v.step = "basicInfo"
        BY DEF handleArtikelLookupSelect, handleArtikelLookupSkip, handleBasicInfoNext
      <4>. QED BY <2>2, <4>1, <4>2
    <3>6. Leave(t) \/ v.number = NoArticle
      BY <3>5, <2>t DEF Drawn, DrawnAt
    <3>1. \/ SetWizard(t, Mounted)
          \/ v.number = NoArticle /\ SetWizard(t, [v EXCEPT !.ai = TRUE])
          \/ v.number = NoArticle /\ \E step, d, a :
               SetWizard(t, [v EXCEPT !.step = step, !.device = d, !.ref = a])
          \/ v.number = NoArticle /\ \E n :
               \/ SetWizard(t, [v EXCEPT !.step = "matchSelection", !.units = n, !.review = NoDevice])
               \/ SetWizard(t, [v EXCEPT !.step = "qualityReview", !.units = n])
      <4>. HIDE DEF v
      <4>1. checkAgenticHealth(t) => SetWizard(t, [v EXCEPT !.ai = TRUE])
        BY DEF checkAgenticHealth, v
      <4>2. handleArtikelLookupSelect(t) => \E a :
              SetWizard(t, [v EXCEPT !.step = "qualityReview", !.device = next, !.ref = a])
        BY DEF handleArtikelLookupSelect, v
      <4>3. handleArtikelLookupSkip(t) =>
              SetWizard(t, [v EXCEPT !.step = "basicInfo", !.device = next, !.ref = NoArticle])
        BY DEF handleArtikelLookupSkip, v
      <4>4. handleBasicInfoNext(t) => \E n :
              \/ SetWizard(t, [v EXCEPT !.step = "matchSelection", !.units = n, !.review = NoDevice])
              \/ SetWizard(t, [v EXCEPT !.step = "qualityReview", !.units = n])
        BY DEF handleBasicInfoNext, v
      <4>5. Leave(t) => SetWizard(t, Mounted)
        BY DEF Leave
      <4>. QED BY <2>2, <3>6, <4>1, <4>2, <4>3, <4>4, <4>5
    <3>2. /\ UNCHANGED <<sub, refs, pieces, article, overlaps, chosen>>
          /\ drawing \ {v.device} \subseteq drawing'
      BY <2>2 DEF checkAgenticHealth, handleArtikelLookupSelect,
                  handleArtikelLookupSkip, handleBasicInfoNext, Leave
    <3>3. Idle(t)
      BY <2>2, <2>t, <3>5 DEF Leave, Choosing
    <3>4. wizard'[t].number = NoArticle /\ \A u \in Tabs \ {t} : wizard'[u] = wizard[u]
      BY <3>1, <2>t, <2>n, ZenonT(40) DEF SetWizard, Wizards
    <3>. HIDE DEF v
    <3>. QED BY <1>i, <3>2, <3>3, <3>4, NumberedFrame DEF Inv2, Drawn, Idle, v
  <2>3. CASE handleSkipMatches(t) \/ handleAgenticFallback(t)
    <3>1. PICK step \in DrawnAt : SetWizard(t, [v EXCEPT !.step = step])
      BY <2>3 DEF handleSkipMatches, handleAgenticFallback, DrawnAt
    <3>2. Idle(t) /\ UNCHANGED <<sub, refs, pieces, article, overlaps, chosen, drawing>>
      BY <2>3 DEF handleSkipMatches, handleAgenticFallback
    <3>3. /\ wizard'[t].number = v.number /\ wizard'[t].device = v.device /\ wizard'[t].step = step
          /\ \A u \in Tabs \ {t} : wizard'[u] = wizard[u]
      BY <3>1, <2>t DEF SetWizard, Wizards
    <3>. QED BY <1>i, <3>2, <3>3, NumberedFrame DEF Inv2, Idle
  <2>4. CASE \/ handleQualityReviewComplete(t) \/ handleQualityReviewSkip(t)
             \/ handleMatchSelection(t)
    <3>1. v.step \in {"qualityReview", "matchSelection"} /\ v.number = NoArticle /\ Idle(t)
      BY <2>4, <2>t DEF handleQualityReviewComplete, handleQualityReviewSkip,
                        handleMatchSelection, DrawnAt, Drawn
    <3>2. \/ wizard' = wizard
          \/ \E r : SetWizard(t, [v EXCEPT !.review = r])
          \/ \E r : SetWizard(t, [v EXCEPT !.review = r, !.step = "matchSelection"])
      BY <2>4 DEF handleQualityReviewComplete, handleQualityReviewSkip, handleMatchSelection
    <3>3. /\ wizard'[t].number = NoArticle /\ \A u \in Tabs \ {t} : wizard'[u] = wizard[u]
          /\ wizard'[t].step \in {"qualityReview", "matchSelection"}
      <4>1. \A w : SetWizard(t, w) => wizard'[t] = w /\ \A u \in Tabs \ {t} : wizard'[u] = wizard[u]
        BY <2>t DEF SetWizard
      <4>3. CASE wizard' = wizard
        BY <3>1, <4>3
      <4>4. ASSUME NEW r, SetWizard(t, [v EXCEPT !.review = r])
            PROVE  wizard'[t].number = NoArticle /\ wizard'[t].step = v.step
        <5>. DEFINE x == [v EXCEPT !.review = r]
        <5>1. x.number = v.number /\ x.step = v.step
          BY <2>t DEF Wizards
        <5>2. wizard'[t] = x
          BY <4>1, <4>4
        <5>. HIDE DEF x
        <5>. QED BY <3>1, <5>1, <5>2
      <4>5. ASSUME NEW r, SetWizard(t, [v EXCEPT !.review = r, !.step = "matchSelection"])
            PROVE  wizard'[t].number = NoArticle /\ wizard'[t].step = "matchSelection"
        <5>. DEFINE x == [v EXCEPT !.review = r, !.step = "matchSelection"]
        <5>1. x.number = v.number /\ x.step = "matchSelection"
          BY <2>t DEF Wizards
        <5>2. wizard'[t] = x
          BY <4>1, <4>5
        <5>. HIDE DEF x
        <5>. QED BY <3>1, <5>1, <5>2
      <4>. HIDE DEF v
      <4>. QED BY <3>1, <3>2, <4>1, <4>3, <4>4, <4>5
    <3>4. UNCHANGED <<refs, pieces, article, overlaps, drawing>>
      BY <2>4 DEF handleQualityReviewComplete, handleQualityReviewSkip,
                  handleMatchSelection, submitNewItem
    <3>5. \/ sub' = sub /\ chosen' = chosen
          \/ \E a, n, r : submitNewItem(t, a, n, r, "match-selection")
      BY <2>4 DEF handleQualityReviewComplete, handleQualityReviewSkip, handleMatchSelection
    <3>6. CASE sub' = sub /\ chosen' = chosen
      BY <1>i, <3>1, <3>3, <3>4, <3>6, NumberedFrame DEF Inv2, Idle, Drawn
    <3>7. CASE \E a, n, r : submitNewItem(t, a, n, r, "match-selection")
      <4>1. PICK a, n, r : submitNewItem(t, a, n, r, "match-selection")
        BY <3>7
      <4>. DEFINE s == [NoSubmission EXCEPT !.pc = "resolve", !.device = v.device, !.article = a,
                          !.review = r, !.left = n,
                          !.manual = ~v.ai \/ "match-selection" = "manual-edit"]
      <4>2. sub' = [sub EXCEPT ![t] = s] /\ chosen' = chosen \cup {v.device}
        BY <4>1 DEF submitNewItem
      <4>3. s.device = v.device /\ s.byReference = FALSE
        BY DEF NoSubmission
      <4>. HIDE DEF s, v
      <4>4. /\ sub'[t].device \in chosen' /\ sub'[t].byReference = FALSE
            /\ \A u \in Tabs \ {t} : sub'[u] = sub[u]
        BY <4>2, <4>3, <2>t
      <4>5. wizard'[t].step \notin DrawnAt
        BY <3>3 DEF DrawnAt
      <4>. QED BY <1>i, <3>1, <3>3, <3>4, <4>2, <4>4, <4>5, NumberedFrame DEF Inv2, Drawn
    <3>. QED BY <3>5, <3>6, <3>7
  <2>5. CASE handleAgenticPhotos(t) \/ handleManualSubmit(t)
    <3>1. PICK n \in 1..MaxUnits, context \in {"agentic-photos", "manual-edit"} :
            submitNewItem(t, v.number, n, v.review, context)
      <4>1. CASE handleAgenticPhotos(t)
        BY <4>1, <2>t DEF handleAgenticPhotos, Wizards
      <4>2. CASE handleManualSubmit(t)
        BY <4>2 DEF handleManualSubmit
      <4>. QED BY <2>5, <4>1, <4>2
    <3>2. v.step \in DrawnAt /\ v.number # NoArticle /\ wizard' = wizard
      BY <2>5 DEF handleAgenticPhotos, handleManualSubmit, DrawnAt
    <3>. DEFINE s == [NoSubmission EXCEPT !.pc = "resolve", !.device = v.device,
                        !.article = v.number, !.review = v.review, !.left = n,
                        !.manual = ~v.ai \/ context = "manual-edit"]
    <3>3. /\ sub' = [sub EXCEPT ![t] = s]
          /\ UNCHANGED <<refs, pieces, article, overlaps, drawing, chosen>>
      BY <3>1 DEF submitNewItem
    <3>4. s.article = v.number /\ s.byReference = FALSE
      BY DEF NoSubmission
    <3>. HIDE DEF s
    <3>5. /\ sub'[t].article = v.number /\ sub'[t].byReference = FALSE
          /\ \A u \in Tabs \ {t} : sub'[u] = sub[u]
      BY <3>3, <3>4, <2>t
    <3>. QED BY <1>i, <3>2, <3>3, <3>5, NumberedFrame DEF Inv2, Drawn
  <2>6. CASE Resolve(t) \/ Plan(t) \/ SeedRun(t) \/ AnswerOk(t) \/ ServerFails(t) \/ AnswerLost(t)
    <3>1. ~Idle(t)
      BY <2>6, Fresh DEF Idle, Resolve, Plan, SeedRun, AnswerOk, ServerFails, AnswerLost, At
    <3>2. sub[t] \in Submissions /\ sub[t].article \in Articles
      BY <3>1, Handled DEF Inv2
    <3>3. UNCHANGED <<wizard, pieces, article, overlaps, drawing, chosen>>
      BY <2>6 DEF Resolve, Plan, SeedRun, AnswerOk, ServerFails, AnswerLost, Handles
    <3>4. /\ refs' = refs \/ StoreReference(t)
          /\ Resolve(t) => refs' = refs
      BY <2>6 DEF Resolve, Plan, SeedRun, AnswerOk, ServerFails, AnswerLost
    <3>5. \A a \in Articles : refs[a] # {} => refs'[a] # {}
      BY <3>2, <3>4, <2>t DEF StoreReference
    <3>6. /\ sub'[t].article = sub[t].article /\ sub'[t].device = sub[t].device
          /\ sub'[t].byReference = IF Resolve(t) THEN refs[sub[t].article] # {} ELSE sub[t].byReference
          /\ \A u \in Tabs \ {t} : sub'[u] = sub[u]
      <4>1. Resolve(t) => ~(Plan(t) \/ SeedRun(t) \/ AnswerOk(t))
        BY DEF Resolve, Plan, SeedRun, AnswerOk, At
      <4>2. CASE Resolve(t)
        BY <4>2, <3>2, <2>t DEF Resolve, Advance, HasReference, Submissions
      <4>3. CASE ~Resolve(t) /\ Plan(t)
        <5>. DEFINE seed == /\ sub[t].article \notin Stocked /\ Stock(sub[t].article) = {}
                            /\ run[sub[t].article] = "absent"
        <5>1. sub' = [sub EXCEPT ![t] = [sub[t] EXCEPT !.pc = "store", !.seed = seed]]
          BY <4>3 DEF Plan, Advance
        <5>. HIDE DEF seed
        <5>. QED BY <4>3, <5>1, <3>2, <2>t DEF Submissions
      <4>5. CASE ~Resolve(t) /\ SeedRun(t)
        BY <4>5, <3>2, <2>t DEF SeedRun, Advance, Submissions
      <4>4. CASE ~Resolve(t) /\ (AnswerOk(t) \/ ServerFails(t) \/ AnswerLost(t))
        BY <4>4, <3>2, <2>t DEF AnswerOk, ServerFails, AnswerLost, Advance, Submissions
      <4>. QED BY <2>6, <4>2, <4>3, <4>4, <4>5
    <3>7. sub'[t].byReference => refs'[sub'[t].article] # {}
      BY <3>1, <3>2, <3>4, <3>5, <3>6, <2>t
    <3>. HIDE DEF v
    <3>. QED BY <1>i, <2>t, <3>1, <3>3, <3>5, <3>6, <3>7, NumberedFrame DEF Inv2, Drawn, v
  <2>7. CASE HandleCreated(t) \/ HandleFailure(t)
    <3>1. /\ UNCHANGED <<refs, pieces, article, overlaps, drawing, chosen>>
          /\ Advance(t, NoSubmission)
          /\ wizard' = wizard \/ ShowSuccess(t)
      BY <2>7 DEF HandleCreated, HandleFailure
    <3>2. sub'[t] = NoSubmission /\ \A u \in Tabs \ {t} : sub'[u] = sub[u]
      BY <3>1, <2>t DEF Advance
    <3>3. ShowSuccess(t) => /\ wizard'[t].number = NoArticle
                            /\ \A u \in Tabs \ {t} : wizard'[u] = wizard[u]
      <4>. DEFINE w == [Mounted EXCEPT !.review = v.review, !.ai = v.ai]
      <4>1. w.number = NoArticle
        BY DEF Mounted
      <4>2. ShowSuccess(t) => SetWizard(t, w) \/ SetWizard(t, Mounted)
        BY DEF ShowSuccess
      <4>. HIDE DEF w
      <4>. QED BY <2>t, <2>n, <4>1, <4>2 DEF SetWizard
    <3>. QED BY <1>i, <2>t, <3>1, <3>2, <3>3, NumberedFrame DEF Inv2, Drawn, Idle
  <2>. QED BY <1>i, <2>1, <2>2, <2>3, <2>4, <2>5, <2>6, <2>7, DrawingNumbers, StoringNumbers
           DEF Operate, Serve, Return, Inv2
<1>. QED BY <1>1, <1>2

LEMMA Inv2Holds == Spec => []Inv2
<1>. QED BY InitInv2, NextInv2, PTL DEF Spec

-----------------------------------------------------------------------------
(* Runs of articles *)

Unfailed == faults = MaxFaults

\* A device with pieces that is still in somebody's hand is being stored, an article
\* with pieces has a run or is about to be seeded, and whoever does not seed has seen a
\* run or a piece.
Underway ==
  /\ \A t \in Tabs : sub[t].pc # "failed"
  /\ \A t \in Tabs, d \in Devices : wizard[t].device = d /\ pieces[d] > 0
       => ~Idle(t) /\ article[d] = sub[t].article
  /\ \A d \in Devices : pieces[d] > 0 =>
       \/ run[article[d]] # "absent"
       \/ \E t \in Tabs : sub[t].pc = "seed" /\ sub[t].article = article[d]
  /\ \A t \in Tabs : sub[t].pc = "store" /\ ~sub[t].seed
       => run[sub[t].article] # "absent" \/ Stock(sub[t].article) # {}
  /\ \A t \in Tabs : sub[t].pc = "seed" => sub[t].seed

Seeded == (\A a \in Stocked : run[a] # "absent") /\ (Unfailed => Underway)

Inv3 == Inv2 /\ Seeded

LEMMA InitInv3 == Init => Inv3
<1>. SUFFICES ASSUME Init PROVE Inv3
  OBVIOUS
<1>1. Seeded
  BY KnownAssumption DEF Init, Mounted, NoSubmission, Articles, Seeded, Underway
<1>. QED BY <1>1, InitInv2 DEF Inv3

\* Nothing has a piece that its operator has not submitted, as long as nothing fails.
LEMMA Unsubmitted ==
  ASSUME Inv3, Unfailed, NEW t \in Tabs, Idle(t), wizard[t].device \in Devices
  PROVE  ~(pieces[wizard[t].device] > 0)
BY DEF Inv3, Seeded, Underway

\* A step that stores no piece: runs do not disappear, a submission that is to seed still
\* is or has seeded, and one that will not seed has seen a run or a piece.
LEMMA SeededFrame ==
  ASSUME Inv3, Inv2', NEW t \in Tabs,
         \A u \in Tabs \ {t} : wizard'[u] = wizard[u] /\ sub'[u] = sub[u],
         UNCHANGED <<pieces, article>>, Unfailed' => Unfailed,
         \A a \in Articles : run[a] # "absent" => run'[a] # "absent",
         Unfailed' => sub'[t].pc # "failed",
         \/ wizard'[t].device = NoDevice
         \/ wizard'[t].device = next
         \/ /\ wizard'[t].device = wizard[t].device
            /\ Idle(t) \/ (~Idle(t)' /\ sub'[t].article = sub[t].article),
         Unfailed' /\ sub[t].pc = "seed"
           => \/ sub'[t].pc = "seed" /\ sub'[t].article = sub[t].article
              \/ run'[sub[t].article] # "absent",
         Unfailed' /\ sub'[t].pc = "store" /\ ~sub'[t].seed
           => \/ run'[sub'[t].article] # "absent" \/ Stock(sub'[t].article) # {}
              \/ sub[t].pc = "store" /\ ~sub[t].seed /\ sub'[t].article = sub[t].article,
         sub'[t].pc = "seed" => sub'[t] = sub[t]
  PROVE  Seeded'
<1>d. /\ \A d \in Devices : d = next => pieces[d] = 0
      /\ \A d \in Devices : pieces[d] > 0 => article[d] \in Articles
      /\ NoDevice \notin Devices
      /\ \A u \in Tabs : sub[u].pc \in {"store", "seed"} => sub[u].article \in Articles
  <2>1. \A d \in Devices : d = next => pieces[d] = 0
    BY Fresh DEF Inv3, Inv2, Inv1, Counted, TypeOK
  <2>2. \A u \in Tabs : sub[u].pc \in {"store", "seed"} => sub[u].article \in Articles
    BY Handled, Fresh DEF Inv3, Inv2, Idle
  <2>. QED BY <2>1, <2>2, Fresh DEF Inv3, Inv2, Numbered
<1>k. \A a \in Stocked : a \in Articles
  BY KnownAssumption DEF Articles
<1>s. \A a : Stock(a)' = Stock(a)
  BY DEF Stock
<1>1. \A a \in Stocked : run'[a] # "absent"
  BY <1>k DEF Inv3, Seeded, Underway
<1>. SUFFICES ASSUME Unfailed' PROVE Underway'
  BY <1>1 DEF Seeded
<1>2. \A u \in Tabs : sub'[u].pc # "failed"
  BY DEF Inv3, Seeded, Underway
<1>3. \A u \in Tabs, d \in Devices : wizard'[u].device = d /\ pieces'[d] > 0
        => ~Idle(u)' /\ article'[d] = sub'[u].article
  <2>1. \A u \in Tabs \ {t} : Idle(u)' <=> Idle(u)
    BY DEF Idle
  <2>2. \A d \in Devices : wizard'[t].device = d /\ pieces[d] > 0
          => ~Idle(t)' /\ article[d] = sub'[t].article
    BY <1>d, Unsubmitted DEF Inv3, Seeded, Underway
  <2>. QED BY <2>1, <2>2 DEF Inv3, Seeded, Underway
<1>4. \A d \in Devices : pieces'[d] > 0 =>
        \/ run'[article'[d]] # "absent"
        \/ \E u \in Tabs : sub'[u].pc = "seed" /\ sub'[u].article = article'[d]
  BY <1>d DEF Inv3, Seeded, Underway
<1>5. \A u \in Tabs : sub'[u].pc = "store" /\ ~sub'[u].seed
        => run'[sub'[u].article] # "absent" \/ Stock(sub'[u].article) # {}
  BY <1>d DEF Inv3, Seeded, Underway
<1>6. \A u \in Tabs : sub'[u].pc = "seed" => sub'[u].seed
  BY DEF Inv3, Seeded, Underway
<1>. QED BY <1>2, <1>3, <1>4, <1>5, <1>6, <1>s DEF Underway

\* The first piece of an article without a run is stored by a submission that seeds it.
LEMMA StoringSeeds ==
  ASSUME Inv3, Inv2', NEW t \in Tabs, StorePiece(t)
  PROVE  Seeded'
<1>. DEFINE d == sub[t].device
            a == sub[t].article
<1>1. /\ ~Idle(t) /\ d \in Devices /\ a \in Articles /\ wizard[t].device = d
      /\ sub[t] \in Submissions /\ sub[t].pc = "store"
  <2>1. ~Idle(t) /\ sub[t].pc = "store"
    BY Fresh DEF StorePiece, At, Idle
  <2>. QED BY <2>1, Handled DEF Inv3, Inv2, Inv1, Held
<1>2. /\ pieces' = [pieces EXCEPT ![d] = @ + 1] /\ article' = [article EXCEPT ![d] = a]
      /\ UNCHANGED <<wizard, run, faults>>
      /\ sub' = [sub EXCEPT ![t] =
                   [sub[t] EXCEPT !.left = @ - 1, !.pc = IF sub[t].seed THEN "seed" ELSE "store"]]
  BY DEF StorePiece, Handles, Advance
<1>3. /\ sub'[t].article = a /\ sub'[t].seed = sub[t].seed
      /\ sub'[t].pc = (IF sub[t].seed THEN "seed" ELSE "store")
      /\ ~Idle(t)'
      /\ \A u \in Tabs \ {t} : sub'[u] = sub[u] /\ (Idle(u)' <=> Idle(u))
  <2>1. /\ sub'[t] = [sub[t] EXCEPT !.left = @ - 1, !.pc = IF sub[t].seed THEN "seed" ELSE "store"]
        /\ \A u \in Tabs \ {t} : sub'[u] = sub[u]
    BY <1>2 DEF Inv3, Inv2, Inv1, TypeOK
  <2>2. /\ sub'[t].article = a /\ sub'[t].seed = sub[t].seed
        /\ sub'[t].pc = (IF sub[t].seed THEN "seed" ELSE "store")
    BY <2>1, <1>1 DEF Submissions
  <2>. HIDE DEF a, d
  <2>. QED BY <2>1, <2>2, Fresh DEF Idle
<1>4. /\ article'[d] = a /\ \A e \in Devices \ {d} : article'[e] = article[e] /\ pieces'[e] = pieces[e]
      /\ pieces'[d] > 0
  <2>. HIDE DEF d, a
  <2>1. pieces \in [Devices -> Nat] /\ article \in [Devices -> Articles \cup {NoArticle}]
    BY DEF Inv3, Inv2, Inv1, TypeOK
  <2>. QED BY <1>1, <1>2, <2>1
<1>. SUFFICES ASSUME Unfailed, Underway PROVE Underway'
  BY <1>2 DEF Inv3, Seeded, Unfailed
<1>5. pieces[d] > 0 => article[d] = a
  BY <1>1 DEF Underway
<1>6. \A b : Stock(b) # {} => Stock(b)' # {}
  BY <1>4, <1>5 DEF Stock
<1>7. \/ run[a] # "absent" \/ sub[t].seed
      \/ \E u \in Tabs \ {t} : sub[u].pc = "seed" /\ sub[u].article = a
  BY <1>1 DEF Underway, Stock
<1>. HIDE DEF d, a
<1>8. \A u \in Tabs : sub'[u].pc # "failed"
  BY <1>3 DEF Underway
<1>9. \A u \in Tabs, e \in Devices : wizard'[u].device = e /\ pieces'[e] > 0
        => ~Idle(u)' /\ article'[e] = sub'[u].article
  <2>1. \A u \in Tabs \ {t} : wizard[u].device # d
    BY <1>1, Fresh DEF Inv3, Inv2, Inv1, Held
  <2>. QED BY <2>1, <1>1, <1>2, <1>3, <1>4 DEF Underway
<1>10. \A e \in Devices : pieces'[e] > 0 =>
        \/ run'[article'[e]] # "absent"
        \/ \E u \in Tabs : sub'[u].pc = "seed" /\ sub'[u].article = article'[e]
  <2>1. CASE sub[t].seed
    <3>1. sub'[t].pc = "seed" /\ sub'[t].article = a
      BY <2>1, <1>3
    <3>. QED BY <3>1, <1>1, <1>2, <1>3, <1>4 DEF Underway
  <2>2. CASE ~sub[t].seed
    BY <2>2, <1>1, <1>2, <1>3, <1>4, <1>7 DEF Underway
  <2>. QED BY <2>1, <2>2
<1>11. (\A u \in Tabs : sub[u].pc = "store" /\ ~sub[u].seed
         => run[sub[u].article] # "absent" \/ Stock(sub[u].article) # {})'
  <2>1. \A u \in Tabs : sub'[u].pc = "store" /\ ~sub'[u].seed
          => /\ sub[u].pc = "store" /\ ~sub[u].seed
             /\ sub'[u].article = sub[u].article
    BY <1>1, <1>3 DEF a
  <2>2. \A u \in Tabs : sub[u].pc = "store" /\ ~sub[u].seed
          => run[sub[u].article] # "absent" \/ Stock(sub[u].article) # {}
    BY DEF Underway
  <2>. QED BY <2>1, <2>2, <1>2, <1>6
<1>12. \A u \in Tabs : sub'[u].pc = "seed" => sub'[u].seed
  BY <1>3 DEF Underway
<1>. QED BY <1>8, <1>9, <1>10, <1>11, <1>12 DEF Underway

LEMMA NextInv3 == Inv3 /\ [Next]_vars => Inv3'
<1>. SUFFICES ASSUME Inv3, [Next]_vars PROVE Inv3'
  OBVIOUS
<1>i. Inv2'
  BY NextInv2 DEF Inv3
<1>. SUFFICES Seeded'
  BY <1>i DEF Inv3
<1>. USE DEF Choices, store, history
<1>1. CASE UNCHANGED vars
  BY <1>i, <1>1 DEF vars, Inv3, Seeded, Underway, Unfailed, Stock, Idle
<1>2. CASE Next
  <2>1. PICK t \in Tabs :
          \/ Operate(t) \/ checkAgenticHealth(t) \/ generateMaterialNumber(t)
          \/ Serve(t) \/ Return(t) \/ ServerFails(t) \/ AnswerLost(t)
    BY <1>2 DEF Next
  <2>. DEFINE v == wizard[t]
  <2>t. /\ v \in Wizards /\ wizard \in [Tabs -> Wizards] /\ sub \in [Tabs -> Submissions]
        /\ run \in [Articles -> RunStates] /\ faults \in 0..MaxFaults
        /\ ~Idle(t) => v.step \in Choosing
    BY DEF Inv3, Inv2, Inv1, TypeOK, Held
  <2>n. /\ NoSubmission.pc = "none" /\ Mounted.device = NoDevice
        /\ \A n \in 0..MaxFaults : n - 1 # MaxFaults
    BY BoundsAssumption DEF NoSubmission, Mounted
  <2>2. CASE checkAgenticHealth(t) \/ handleArtikelLookupSelect(t) \/ handleArtikelLookupSkip(t)
             \/ handleBasicInfoNext(t) \/ Leave(t) \/ handleSkipMatches(t)
             \/ handleAgenticFallback(t) \/ generateMaterialNumber(t)
    <3>1. UNCHANGED <<sub, pieces, article, run, faults>>
      BY <2>2 DEF checkAgenticHealth, handleArtikelLookupSelect, handleArtikelLookupSkip,
                  handleBasicInfoNext, Leave, handleSkipMatches, handleAgenticFallback,
                  generateMaterialNumber
    <3>2. /\ wizard'[t].device \in {v.device, NoDevice, next}
          /\ \A u \in Tabs \ {t} : wizard'[u] = wizard[u]
      <4>. HIDE DEF v
      <4>1. checkAgenticHealth(t) => SetWizard(t, [v EXCEPT !.ai = TRUE])
        BY DEF checkAgenticHealth, v
      <4>2. handleArtikelLookupSelect(t) => \E a :
              SetWizard(t, [v EXCEPT !.step = "qualityReview", !.device = next, !.ref = a])
        BY DEF handleArtikelLookupSelect, v
      <4>3. handleArtikelLookupSkip(t) =>
              SetWizard(t, [v EXCEPT !.step = "basicInfo", !.device = next, !.ref = NoArticle])
        BY DEF handleArtikelLookupSkip, v
      <4>4. handleBasicInfoNext(t) => \E n :
              \/ SetWizard(t, [v EXCEPT !.step = "matchSelection", !.units = n, !.review = NoDevice])
              \/ SetWizard(t, [v EXCEPT !.step = "qualityReview", !.units = n])
        BY DEF handleBasicInfoNext, v
      <4>5. Leave(t) => SetWizard(t, Mounted)
        BY DEF Leave
      <4>6. handleSkipMatches(t) \/ handleAgenticFallback(t)
              => \E step : SetWizard(t, [v EXCEPT !.step = step])
        BY DEF handleSkipMatches, handleAgenticFallback, v
      <4>7. generateMaterialNumber(t) => \E n : SetWizard(t, [v EXCEPT !.number = n])
        BY DEF generateMaterialNumber, v
      <4>8. \/ SetWizard(t, Mounted)
            \/ \E step, d, a : \/ SetWizard(t, [v EXCEPT !.step = step, !.device = next, !.ref = a])
                               \/ SetWizard(t, [v EXCEPT !.step = step])
                               \/ SetWizard(t, [v EXCEPT !.ai = step])
                               \/ SetWizard(t, [v EXCEPT !.number = step])
                               \/ SetWizard(t, [v EXCEPT !.step = step, !.units = d])
                               \/ SetWizard(t, [v EXCEPT !.step = step, !.units = d, !.review = a])
        BY <2>2, <4>1, <4>2, <4>3, <4>4, <4>5, <4>6, <4>7
      <4>9. CASE SetWizard(t, Mounted)
        BY <4>9, <2>t, <2>n DEF SetWizard
      <4>10. ASSUME NEW step, NEW d, NEW a,
                    \/ SetWizard(t, [v EXCEPT !.step = step, !.device = next, !.ref = a])
                    \/ SetWizard(t, [v EXCEPT !.step = step])
                    \/ SetWizard(t, [v EXCEPT !.ai = step])
                    \/ SetWizard(t, [v EXCEPT !.number = step])
                    \/ SetWizard(t, [v EXCEPT !.step = step, !.units = d])
                    \/ SetWizard(t, [v EXCEPT !.step = step, !.units = d, !.review = a])
             PROVE  /\ wizard'[t].device \in {v.device, NoDevice, next}
                    /\ \A u \in Tabs \ {t} : wizard'[u] = wizard[u]
        <5>1. \A w : SetWizard(t, w)
                      => wizard'[t] = w /\ \A u \in Tabs \ {t} : wizard'[u] = wizard[u]
          BY <2>t DEF SetWizard
        <5>2. /\ [v EXCEPT !.step = step, !.device = next, !.ref = a].device = next
              /\ [v EXCEPT !.step = step].device = v.device
              /\ [v EXCEPT !.ai = step].device = v.device
              /\ [v EXCEPT !.number = step].device = v.device
              /\ [v EXCEPT !.step = step, !.units = d].device = v.device
              /\ [v EXCEPT !.step = step, !.units = d, !.review = a].device = v.device
          BY <2>t DEF Wizards
        <5>. QED BY <4>10, <5>1, <5>2
      <4>. QED BY <4>8, <4>9, <4>10
    <3>3. Idle(t) \/ generateMaterialNumber(t) \/ wizard'[t].device = v.device
      <4>1. CASE checkAgenticHealth(t) \/ handleArtikelLookupSelect(t)
                 \/ handleArtikelLookupSkip(t) \/ handleBasicInfoNext(t)
        <5>1. v.step \in {"artikelLookup", "basicInfo"}
          <6>1. checkAgenticHealth(t) => v.step = "artikelLookup"
            BY DEF checkAgenticHealth, Mounted
          <6>. QED BY <4>1, <6>1 DEF handleArtikelLookupSelect, handleArtikelLookupSkip,
                                     handleBasicInfoNext
        <5>. QED BY <5>1, <2>t DEF Choosing
      <4>2. CASE Leave(t) \/ handleSkipMatches(t) \/ handleAgenticFallback(t)
        BY <4>2 DEF Leave, handleSkipMatches, handleAgenticFallback
      <4>. QED BY <2>2, <4>1, <4>2
    <3>4. generateMaterialNumber(t) => Idle(t)
      BY DEF generateMaterialNumber, Inv3, Inv2, Numbered, Drawn, DrawnAt
    <3>. HIDE DEF v
    <3>. QED BY <1>i, <3>1, <3>2, <3>3, <3>4, SeededFrame DEF Unfailed, Inv3, Seeded, Underway,
        Idle, v
  <2>3. CASE \/ handleQualityReviewComplete(t) \/ handleQualityReviewSkip(t)
             \/ handleMatchSelection(t) \/ handleAgenticPhotos(t) \/ handleManualSubmit(t)
    <3>1. Idle(t) /\ UNCHANGED <<pieces, article, run, faults>>
      BY <2>3 DEF handleQualityReviewComplete, handleQualityReviewSkip, handleMatchSelection,
                  handleAgenticPhotos, handleManualSubmit, submitNewItem
    <3>2. \/ wizard' = wizard
          \/ \E r : SetWizard(t, [v EXCEPT !.review = r])
          \/ \E r : SetWizard(t, [v EXCEPT !.review = r, !.step = "matchSelection"])
      BY <2>3 DEF handleQualityReviewComplete, handleQualityReviewSkip, handleMatchSelection,
                  handleAgenticPhotos, handleManualSubmit
    <3>3. wizard'[t].device = v.device /\ \A u \in Tabs \ {t} : wizard'[u] = wizard[u]
      BY <3>2, <2>t DEF SetWizard, Wizards
    <3>4. sub' = sub \/ \E a, n, r, c : submitNewItem(t, a, n, r, c)
      BY <2>3 DEF handleQualityReviewComplete, handleQualityReviewSkip, handleMatchSelection,
                  handleAgenticPhotos, handleManualSubmit
    <3>5. \/ sub' = sub
          \/ sub'[t].pc = "resolve" /\ \A u \in Tabs \ {t} : sub'[u] = sub[u]
      <4>1. CASE \E a, n, r, c : submitNewItem(t, a, n, r, c)
        <5>1. PICK a, n, r, c : submitNewItem(t, a, n, r, c)
          BY <4>1
        <5>. DEFINE s == [NoSubmission EXCEPT !.pc = "resolve", !.device = v.device, !.article = a,
                            !.review = r, !.left = n, !.manual = ~v.ai \/ c = "manual-edit"]
        <5>2. sub' = [sub EXCEPT ![t] = s]
          BY <5>1 DEF submitNewItem
        <5>3. s.pc = "resolve"
          BY DEF NoSubmission
        <5>. HIDE DEF s
        <5>. QED BY <5>2, <5>3, <2>t
      <4>. QED BY <3>4, <4>1
    <3>6. sub[t].pc = "none"
      BY <3>1, <2>n DEF Idle
    <3>. HIDE DEF v
    <3>7. \A u \in Tabs \ {t} : sub'[u] = sub[u]
      BY <3>5
    <3>8. sub'[t].pc \in {"none", "resolve"}
      BY <3>5, <3>6
    <3>. QED BY <1>i, <3>1, <3>3, <3>6, <3>7, <3>8, SeededFrame DEF Unfailed, v
  <2>4. CASE Resolve(t) \/ Plan(t) \/ SeedRun(t) \/ AnswerOk(t) \/ ServerFails(t) \/ AnswerLost(t)
    <3>1. ~Idle(t)
      BY <2>4, Fresh DEF Idle, Resolve, Plan, SeedRun, AnswerOk, ServerFails, AnswerLost, At
    <3>2. sub[t] \in Submissions /\ sub[t].article \in Articles
      BY <3>1, Handled DEF Inv3, Inv2
    <3>3. UNCHANGED <<wizard, pieces, article>>
      BY <2>4 DEF Resolve, Plan, SeedRun, AnswerOk, ServerFails, AnswerLost, Handles
    <3>4. /\ Unfailed' => ~ServerFails(t) /\ ~AnswerLost(t) /\ Unfailed
      BY <2>4, <2>t, <2>n DEF Resolve, Plan, SeedRun, AnswerOk, Handles, Unfailed, ServerFails,
                              AnswerLost
    <3>5. \A a \in Articles : run[a] # "absent" => run'[a] # "absent"
      BY <2>4, <2>t, <3>2 DEF Resolve, Plan, SeedRun, AnswerOk, ServerFails, AnswerLost,
                              forwardAgenticTrigger
    <3>6. \A u \in Tabs \ {t} : sub'[u] = sub[u]
      BY <2>4, <2>t DEF Resolve, Plan, SeedRun, AnswerOk, ServerFails, AnswerLost, Advance
    <3>7. CASE ServerFails(t) \/ AnswerLost(t)
      <4>1. sub'[t].pc = "failed" /\ sub'[t].article = sub[t].article /\ ~Idle(t)'
        <5>1. sub'[t] = [sub[t] EXCEPT !.pc = "failed"]
          BY <3>7, <2>t DEF ServerFails, AnswerLost, Advance
        <5>. QED BY <5>1, <3>2, <2>n DEF Submissions, Idle
      <4>. QED BY <1>i, <3>3, <3>4, <3>5, <3>6, <3>7, <4>1, SeededFrame DEF Unfailed
    <3>8. CASE Resolve(t) \/ AnswerOk(t)
      <4>1. /\ sub'[t].pc \in {"plan", "answered"} /\ sub'[t].article = sub[t].article
            /\ sub[t].pc # "seed" /\ ~Idle(t)'
        <5>1. CASE Resolve(t)
          BY <5>1, <2>t, <2>n, <3>2 DEF Resolve, Advance, At, Submissions, Idle
        <5>2. CASE AnswerOk(t)
          BY <5>2, <2>t, <2>n, <3>2 DEF AnswerOk, Advance, At, Submissions, Idle
        <5>. QED BY <3>8, <5>1, <5>2
      <4>. QED BY <1>i, <3>3, <3>4, <3>5, <3>6, <3>8, <4>1, SeededFrame DEF Unfailed
    <3>9. CASE Plan(t)
      <4>. DEFINE seed == /\ sub[t].article \notin Stocked /\ Stock(sub[t].article) = {}
                          /\ run[sub[t].article] = "absent"
      <4>1. sub'[t] = [sub[t] EXCEPT !.pc = "store", !.seed = seed] /\ sub[t].pc = "plan"
        BY <3>9, <2>t DEF Plan, Advance, At
      <4>2. run' = run
        BY <3>9 DEF Plan
      <4>3. ~seed => run[sub[t].article] # "absent" \/ Stock(sub[t].article) # {}
        BY DEF Inv3, Seeded
      <4>. HIDE DEF seed
      <4>4. /\ sub'[t].pc = "store" /\ sub'[t].seed = seed /\ sub'[t].article = sub[t].article
            /\ ~Idle(t)'
        BY <4>1, <3>2, <2>n DEF Submissions, Idle
      <4>. QED BY <1>i, <3>3, <3>4, <3>5, <3>6, <3>9, <4>1, <4>2, <4>3, <4>4,
          SeededFrame DEF Unfailed
    <3>10. CASE SeedRun(t)
      <4>1. sub'[t].pc = "store" /\ sub'[t].article = sub[t].article /\ ~Idle(t)'
        BY <3>10, <2>t, <2>n, <3>2 DEF SeedRun, Advance, Submissions, Idle
      <4>2. run'[sub[t].article] # "absent"
        BY <3>10, <2>t, <3>2 DEF SeedRun
      <4>. QED BY <1>i, <3>3, <3>4, <3>5, <3>6, <3>10, <4>1, <4>2, SeededFrame DEF Unfailed
    <3>. QED BY <2>4, <3>7, <3>8, <3>9, <3>10
  <2>5. CASE HandleCreated(t) \/ HandleFailure(t)
    <3>1. /\ UNCHANGED <<pieces, article>> /\ Advance(t, NoSubmission)
          /\ HandleCreated(t) => ShowSuccess(t)
          /\ HandleFailure(t) => wizard' = wizard /\ sub[t].pc = "failed"
          /\ sub[t].pc # "seed"
          /\ run' = run \/ forwardAgenticTrigger(sub[t].article)
      BY <2>5 DEF HandleCreated, HandleFailure, At
    <3>2. sub'[t] = NoSubmission /\ \A u \in Tabs \ {t} : sub'[u] = sub[u]
      BY <3>1, <2>t DEF Advance
    <3>3. ~Idle(t)
      BY <2>5, <2>n DEF HandleCreated, HandleFailure, At, Idle
    <3>4. sub[t].article \in Articles
      BY <3>3, Handled DEF Inv3, Inv2
    <3>5. \A a \in Articles : run[a] # "absent" => run'[a] # "absent"
      BY <3>1, <3>4, <2>t DEF forwardAgenticTrigger
    <3>6. Unfailed' => Unfailed
      BY <2>5, <2>t, <2>n DEF HandleCreated, HandleFailure, PostQuality, Unfailed
    <3>7. ShowSuccess(t) => /\ wizard'[t].device = NoDevice
                            /\ \A u \in Tabs \ {t} : wizard'[u] = wizard[u]
      <4>. DEFINE w == [Mounted EXCEPT !.review = v.review, !.ai = v.ai]
      <4>1. w.device = NoDevice
        BY DEF Mounted
      <4>2. ShowSuccess(t) => SetWizard(t, w) \/ SetWizard(t, Mounted)
        BY DEF ShowSuccess
      <4>. HIDE DEF w
      <4>. QED BY <2>t, <2>n, <4>1, <4>2 DEF SetWizard
    <3>8. CASE HandleCreated(t)
      <4>. HIDE DEF v
      <4>1. UNCHANGED <<pieces, article>> /\ wizard'[t].device = NoDevice
        BY <3>1, <3>7, <3>8
      <4>2. \A u \in Tabs \ {t} : wizard'[u] = wizard[u] /\ sub'[u] = sub[u]
        BY <3>1, <3>2, <3>7, <3>8
      <4>3. sub[t].pc # "seed" /\ sub'[t].pc = "none"
        BY <2>n, <3>1, <3>2
      <4>. QED BY <1>i, <3>5, <3>6, <4>1, <4>2, <4>3, SeededFrame
    <3>9. CASE HandleFailure(t)
      <4>1. ~Unfailed
        BY <3>1, <3>9 DEF Inv3, Seeded, Underway
      <4>2. (\A a \in Stocked : run[a] # "absent")'
        BY <3>9 DEF HandleFailure, Inv3, Seeded
      <4>. QED BY <4>1, <4>2, <3>6 DEF Seeded
    <3>. QED BY <2>5, <3>8, <3>9
  <2>. QED BY <1>i, <2>1, <2>2, <2>3, <2>4, <2>5, StoringSeeds DEF Operate, Serve, Return, Inv3
<1>. QED BY <1>1, <1>2

LEMMA Inv3Holds == Spec => []Inv3
<1>. QED BY InitInv3, NextInv3, PTL DEF Spec

-----------------------------------------------------------------------------
(* Results *)

\* Every variable of the creation of devices keeps its type.
THEOREM TypeCorrect == Spec => []TypeOK
<1>1. Inv1 => TypeOK
  BY DEF Inv1
<1>. QED BY <1>1, Inv1Holds, PTL

\* A device carries another one's quality answers only if its own step was skipped and
\* its article named: whatever order the wizards, the answers and the failures take.
THEOREM ReviewsBelong == Spec => []ForeignReviewOnlyAfterSkip
<1>1. Inv1 => ForeignReviewOnlyAfterSkip
  BY DEF Inv1
<1>. QED BY <1>1, Inv1Holds, PTL

\* As many pieces as were asked for are stored, and no more after a failed submission.
THEOREM PiecesCounted == Spec => []CountedAsAsked
<1>1. Inv1 => CountedAsAsked
  BY DEF Inv1
<1>. QED BY <1>1, Inv1Holds, PTL

\* Two new devices share an article only if their numbers were drawn while neither was
\* stored: the missing reservation is the only way to a wrong article.
THEOREM SharingIsARace == Spec => []SharedOnlyByRace
<1>1. Inv2 => SharedOnlyByRace
  BY DEF Inv2
<1>. QED BY <1>1, Inv2Holds, PTL

\* Unless something failed, every article with pieces has its run once the requests are
\* answered, however the requests that create it overlap.
THEOREM ArticlesHaveRuns == Spec => []ArticleHasRun
<1>1. Inv3 => ArticleHasRun
  <2>. SUFFICES ASSUME Inv3, Unfailed, \A t \in Tabs : Idle(t), NEW a \in Articles, Stock(a) # {}
                PROVE  run[a] # "absent"
    BY DEF ArticleHasRun, Unfailed
  <2>1. PICK d \in Devices : pieces[d] > 0 /\ article[d] = a
    BY DEF Stock
  <2>2. \A t \in Tabs : sub[t].pc # "seed"
    BY Fresh DEF Idle
  <2>. QED BY <2>1, <2>2 DEF Inv3, Seeded, Underway
<1>. QED BY <1>1, Inv3Holds, PTL

-----------------------------------------------------------------------------
(* Putting things away: Placement *)

Answers == {"finish", "back", "lookup", "move", "take"}
Labels == Things \cup {Placing!Nothing, Placing!Finish}
Views ==
  [handled : Labels, warning : Things \cup {Placing!Nothing}, processing : BOOLEAN,
   message : BOOLEAN, reconcile : [Things -> {Placing!Nothing, "open", "resolved"}]]
Awaited == [step : Answers, of : Things \cup {Placing!Nothing}, rest : SUBSET Things, live : BOOLEAN]
Entries == [page : {"box", "placement", "scan"}, carries : Labels]

\* Only the end of an inventory of items asks for the content of the box.
AskedWell(r) ==
  /\ r \in Awaited
  /\ r.step \in {"lookup", "move", "take"} => r.of \in Things
  /\ r.step = "finish" => mode = "items"

PlacingTyped ==
  /\ entries \in Seq(Entries) /\ entries # <<>>
  /\ view \in Views /\ \A r \in requests : AskedWell(r)
  /\ returns \subseteq Things /\ scanned \subseteq Things /\ anew \in BOOLEAN
  /\ walk \in [confirmed : SUBSET Things, before : SUBSET Things]

\* What was confirmed is recorded, or the operator has emptied the set.
Recorded == mode = "items" => walk.confirmed \subseteq scanned \/ anew

PlacingInv == PlacingTyped /\ Recorded /\ Placing!ConfirmedStays

LEMMA PlacingInit == Placing!Init => PlacingInv
<1>. SUFFICES ASSUME Placing!Init PROVE PlacingInv
  OBVIOUS
<1>. USE DEF Placing!Init
<1>1. entries \in Seq(Entries) /\ entries # <<>>
  BY DEF Placing!Entry, Entries, Labels
<1>2. view \in Views
  BY DEF Placing!Unused, Views, Labels
<1>. QED BY <1>1, <1>2 DEF PlacingInv, PlacingTyped, Recorded, Placing!ConfirmedStays

\* The set of what was scanned, and the walk, stay as they are.
LEMMA PlacingQuiet ==
  ASSUME PlacingInv, UNCHANGED <<mode, entries, scanned, anew, walk>>, view' \in Views,
         \A t \in Things : view'.reconcile[t] = "open" => view.reconcile[t] = "open",
         \A r \in requests' : r \in requests \/ AskedWell(r), returns' \subseteq Things
  PROVE  PlacingInv'
<1>1. PlacingTyped'
  BY DEF PlacingInv, PlacingTyped, AskedWell
<1>2. Placing!ConfirmedStays'
  BY DEF PlacingInv, PlacingTyped, Placing!ConfirmedStays
<1>. QED BY <1>1, <1>2 DEF PlacingInv, Recorded

\* Wherever the operator arrives, the set loses what was confirmed only by being emptied.
LEMMA Arrives ==
  ASSUME PlacingInv, NEW es \in Seq(Entries), es # <<>>, NEW stays \in BOOLEAN,
         NEW awaited \in SUBSET requests, NEW left \in SUBSET Things,
         Placing!Arrive(es, stays, view, awaited, left), mode' = mode, returns' \subseteq Things,
         walk' \in [confirmed : SUBSET Things, before : SUBSET Things],
         walk'.before = walk.before,
         mode = "items" => \/ walk'.confirmed \subseteq left \/ anew
                           \/ scanned # {} /\ left = {}
  PROVE  PlacingInv'
<1>. DEFINE new == es[Len(es)]
            qr == new.carries
            base == IF stays THEN view ELSE Placing!Unused
            asked == IF stays THEN awaited ELSE {[r EXCEPT !.live = FALSE] : r \in awaited}
            handles == new.page = "placement" /\ qr # Placing!Nothing /\ base.handled # qr
<1>0. /\ view \in Views /\ \A r \in requests : AskedWell(r)
      /\ anew \in BOOLEAN /\ Recorded
  BY DEF PlacingInv, PlacingTyped
<1>1. Len(es) \in 1..Len(es) /\ Len(es) \in Nat /\ new \in Entries
  <2>1. Len(es) \in Nat /\ Len(es) # 0
    BY EmptySeq
  <2>. QED BY <2>1, ElementOfSeq
<1>2. qr \in Labels
  BY <1>1 DEF Entries
<1>3. /\ entries' = IF handles THEN [es EXCEPT ![Len(es)].carries = Placing!Nothing] ELSE es
      /\ scanned' = IF new.page = "placement" /\ ~stays /\ Placing!Clears(qr) THEN {} ELSE left
      /\ anew' = (\/ anew
                  \/ scanned # {} /\ left = {}
                  \/ new.page = "placement" /\ ~stays /\ qr = Placing!Nothing /\ mode = "items")
      /\ IF ~handles THEN view' = base /\ requests' = asked
         ELSE IF qr = Placing!Finish
         THEN Placing!finishInventory([base EXCEPT !.handled = Placing!Finish], asked)
         ELSE /\ view' = [base EXCEPT !.handled = qr, !.processing = TRUE, !.message = FALSE]
              /\ requests' = asked \cup {Placing!Ask("lookup", qr, {})}
  BY DEF Placing!Arrive
<1>4. /\ base \in Views
      /\ \A t \in Things : base.reconcile[t] = "open" => view.reconcile[t] = "open"
  BY <1>0 DEF Placing!Unused, Views, Labels, Placing!Nothing
<1>5. \A r \in asked : AskedWell(r)
  BY <1>0 DEF AskedWell, Awaited
<1>6. entries' \in Seq(Entries) /\ entries' # <<>>
  <2>1. CASE ~handles
    BY <1>3, <2>1
  <2>2. CASE handles
    <3>1. [new EXCEPT !.carries = Placing!Nothing] \in Entries
      BY <1>1 DEF Entries, Labels
    <3>2. entries' = [es EXCEPT ![Len(es)] = [new EXCEPT !.carries = Placing!Nothing]]
      BY <1>3, <2>2
    <3>. HIDE DEF new
    <3>3. entries' \in Seq(Entries) /\ Len(entries') = Len(es)
      BY <1>1, <3>1, <3>2, ExceptSeq
    <3>. QED BY <1>1, <3>3, EmptySeq
  <2>. QED BY <2>1, <2>2
<1>. HIDE DEF base, asked
<1>7. /\ view' \in Views
      /\ \A t \in Things : view'.reconcile[t] = "open" => base.reconcile[t] = "open"
      /\ \A r \in requests' : AskedWell(r)
  <2>1. CASE ~handles
    BY <1>3, <1>4, <1>5, <2>1
  <2>2. CASE handles /\ qr = Placing!Finish
    <3>. DEFINE v == [base EXCEPT !.handled = Placing!Finish]
    <3>1. v \in Views /\ v.reconcile = base.reconcile
      BY <1>4 DEF Views, Labels
    <3>2. Placing!finishInventory(v, asked)
      BY <1>3, <2>2
    <3>. HIDE DEF v
    <3>3. CASE mode = "items"
      <4>1. /\ view' = [v EXCEPT !.processing = TRUE, !.message = FALSE]
            /\ requests' = asked \cup {Placing!Ask("finish", Placing!Nothing, {})}
        BY <3>2, <3>3 DEF Placing!finishInventory
      <4>2. view' \in Views /\ view'.reconcile = base.reconcile
        BY <3>1, <4>1 DEF Views
      <4>3. AskedWell(Placing!Ask("finish", Placing!Nothing, {}))
        BY <3>3 DEF AskedWell, Awaited, Answers, Placing!Ask
      <4>. QED BY <1>5, <4>1, <4>2, <4>3
    <3>4. CASE mode # "items"
      <4>1. view' = v /\ requests' = asked \cup {Placing!Ask("back", Placing!Nothing, {})}
        BY <3>2, <3>4 DEF Placing!finishInventory
      <4>2. AskedWell(Placing!Ask("back", Placing!Nothing, {}))
        BY DEF AskedWell, Awaited, Answers, Placing!Ask
      <4>. QED BY <1>5, <3>1, <4>1, <4>2
    <3>. QED BY <3>3, <3>4
  <2>3. CASE handles /\ qr # Placing!Finish
    <3>. HIDE DEF handles
    <3>0. qr # Placing!Nothing
      BY <2>3 DEF handles
    <3>. HIDE DEF new
    <3>1. /\ view' = [base EXCEPT !.handled = qr, !.processing = TRUE, !.message = FALSE]
          /\ requests' = asked \cup {Placing!Ask("lookup", qr, {})}
      BY <1>3, <2>3
    <3>2. qr \in Things
      BY <1>2, <2>3, <3>0 DEF Labels
    <3>3. view' \in Views /\ view'.reconcile = base.reconcile
      BY <1>2, <1>4, <3>1 DEF Views
    <3>4. AskedWell(Placing!Ask("lookup", qr, {}))
      BY <3>2 DEF AskedWell, Awaited, Answers, Placing!Ask
    <3>. QED BY <1>5, <3>1, <3>3, <3>4
  <2>. QED BY <2>1, <2>2, <2>3
<1>8. PlacingTyped'
  BY <1>0, <1>3, <1>6, <1>7 DEF PlacingTyped, AskedWell
<1>9. Recorded'
  BY <1>0, <1>3 DEF Recorded, Placing!Clears
<1>10. Placing!ConfirmedStays'
  BY <1>0, <1>3, <1>4, <1>7 DEF PlacingInv, PlacingTyped, Placing!ConfirmedStays
<1>. QED BY <1>8, <1>9, <1>10 DEF PlacingInv

\* The two ways through the history.
LEMMA Goes ==
  ASSUME PlacingInv, NEW entry \in Entries, NEW awaited \in SUBSET requests,
         NEW left \in SUBSET Things, Placing!Go(entry, awaited, left), mode' = mode,
         returns' \subseteq Things, walk' \in [confirmed : SUBSET Things, before : SUBSET Things],
         walk'.before = walk.before, mode = "items" => walk'.confirmed \subseteq left \/ anew
  PROVE  PlacingInv'
<1>. DEFINE es == Append(entries, entry)
            begin == IF Len(es) > MaxHistory THEN 2 ELSE 1
            recent == SubSeq(es, begin, Len(es))
<1>1. entries \in Seq(Entries) /\ entries # <<>>
  BY DEF PlacingInv, PlacingTyped
<1>2. es \in Seq(Entries) /\ Len(es) = Len(entries) + 1 /\ Len(entries) \in Nat \ {0}
  <2>1. Len(entries) \in Nat \ {0}
    BY <1>1, EmptySeq
  <2>2. es \in Seq(Entries) /\ Len(es) = Len(entries) + 1
    BY <1>1, AppendProperties
  <2>. QED BY <2>1, <2>2
<1>. HIDE DEF es
<1>3. begin \in 1..2 /\ \A n \in begin..Len(es) : es[n] \in Entries
  <2>1. begin \in 1..2
    OBVIOUS
  <2>2. \A n \in 1..Len(es) : es[n] \in Entries
    BY <1>2, ElementOfSeq
  <2>. HIDE DEF begin
  <2>. QED BY <1>2, <2>1, <2>2
<1>. HIDE DEF begin
<1>4. recent \in Seq(Entries) /\ Len(recent) = Len(es) - begin + 1
  <2>1. begin \in Int /\ Len(es) \in Int /\ begin <= Len(es)
    BY <1>2, <1>3
  <2>. QED BY <1>3, <2>1, SubSeqProperties
<1>. HIDE DEF recent
<1>5. recent # <<>>
  <2>1. Len(recent) # 0
    BY <1>2, <1>3, <1>4
  <2>. QED BY <1>4, <2>1, EmptySeq
<1>6. Placing!Arrive(recent, Placing!On(entry.page), view, awaited, left)
      /\ Placing!On(entry.page) \in BOOLEAN
  BY DEF Placing!Go, Placing!Recent, Placing!On, es, begin, recent
<1>. QED BY <1>4, <1>5, <1>6, Arrives

LEMMA GoesBack ==
  ASSUME PlacingInv, NEW awaited \in SUBSET requests, NEW left \in SUBSET Things,
         Len(entries) > 1, Placing!GoBack(awaited, left), UNCHANGED <<mode, returns, walk>>,
         left = scanned \/ left = {}
  PROVE  PlacingInv'
<1>. DEFINE es == SubSeq(entries, 1, Len(entries) - 1)
<1>1. /\ entries \in Seq(Entries) /\ returns \subseteq Things /\ scanned \subseteq Things
      /\ walk \in [confirmed : SUBSET Things, before : SUBSET Things]
  BY DEF PlacingInv, PlacingTyped
<1>2. Len(entries) \in Nat /\ \A n \in 1..Len(entries) - 1 : entries[n] \in Entries
  BY <1>1, EmptySeq, ElementOfSeq
<1>3. es \in Seq(Entries) /\ Len(es) = Len(entries) - 1
  BY <1>2, SubSeqProperties
<1>4. Placing!Arrive(es, Placing!On(es[Len(es)].page), view, awaited, left)
      /\ Placing!On(es[Len(es)].page) \in BOOLEAN
  BY DEF Placing!GoBack, Placing!On
<1>. HIDE DEF es
<1>5. es # <<>>
  BY <1>2, <1>3
<1>6. mode = "items" => walk'.confirmed \subseteq left \/ anew \/ (scanned # {} /\ left = {})
  BY DEF PlacingInv, Recorded
<1>. QED BY <1>1, <1>3, <1>4, <1>5, <1>6, Arrives

\* An answer to a request that was confirmed, and the next of a list.
LEMMA PlacingConfirms ==
  ASSUME PlacingInv, NEW r \in requests, r.step \in {"lookup", "move"}, Placing!Confirmed(r),
         UNCHANGED <<mode, returns>>
  PROVE  PlacingInv'
<1>. DEFINE left == Placing!addScanned(r.step, r.of)
<1>1. /\ walk \in [confirmed : SUBSET Things, before : SUBSET Things]
      /\ scanned \subseteq Things /\ returns \subseteq Things /\ r.of \in Things
  BY DEF PlacingInv, PlacingTyped, AskedWell
<1>2. walk' = [walk EXCEPT !.confirmed = @ \cup {r.of}]
      /\ Placing!Go(Placing!Entry("scan", Placing!Nothing), requests \ {r}, left)
  BY DEF Placing!Confirmed, Placing!navigateToScanner
<1>3. /\ walk' \in [confirmed : SUBSET Things, before : SUBSET Things]
      /\ walk'.before = walk.before /\ walk'.confirmed = walk.confirmed \cup {r.of}
  BY <1>1, <1>2
<1>4. Placing!Entry("scan", Placing!Nothing) \in Entries
  BY DEF Placing!Entry, Entries, Labels
<1>5. left \in SUBSET Things /\ (mode = "items" => left = scanned \cup {r.of})
  BY <1>1 DEF Placing!addScanned
<1>. HIDE DEF left
<1>6. mode = "items" => walk'.confirmed \subseteq left \/ anew
  BY <1>3, <1>5 DEF PlacingInv, Recorded
<1>. QED BY <1>1, <1>2, <1>3, <1>4, <1>5, <1>6, Goes

LEMMA NextAsked ==
  ASSUME PlacingInv, NEW r \in requests, Placing!NextOf(r), mode' = mode
  PROVE  \A q \in requests' : q \in requests \/ AskedWell(q)
<1>1. AskedWell(r)
  BY DEF PlacingInv, PlacingTyped
<1>2. CASE r.rest = {}
  BY <1>2 DEF Placing!NextOf
<1>3. CASE r.rest # {}
  <2>1. PICK t \in r.rest : requests' = (requests \ {r}) \cup {[r EXCEPT !.of = t, !.rest = @ \ {t}]}
    BY <1>3 DEF Placing!NextOf
  <2>2. t \in Things
    BY <1>1 DEF AskedWell, Awaited
  <2>3. AskedWell([r EXCEPT !.of = t, !.rest = @ \ {t}])
    BY <1>1, <2>2 DEF AskedWell, Awaited
  <2>. QED BY <2>1, <2>3
<1>. QED BY <1>2, <1>3

-----------------------------------------------------------------------------
(* Putting things away: every step *)

LEMMA PlacingByThing ==
  ASSUME PlacingInv, NEW t \in Things,
         Placing!handleDecoded(t) \/ Placing!navigateToReturn(t) \/ Placing!resolveUnscanned(t)
  PROVE  PlacingInv'
<1>0. /\ view \in Views /\ returns \subseteq Things /\ scanned \subseteq Things
      /\ walk \in [confirmed : SUBSET Things, before : SUBSET Things] /\ Recorded
  BY DEF PlacingInv, PlacingTyped
<1>1. CASE Placing!handleDecoded(t)
  BY <1>0, <1>1, PlacingQuiet DEF Placing!handleDecoded
<1>2. CASE Placing!navigateToReturn(t)
  <2>1. Placing!Entry("placement", t) \in Entries
    BY DEF Placing!Entry, Entries, Labels
  <2>2. /\ Placing!Go(Placing!Entry("placement", t), requests, scanned)
        /\ UNCHANGED <<mode, walk>> /\ returns' \subseteq Things
    BY <1>0, <1>2 DEF Placing!navigateToReturn
  <2>. QED BY <1>0, <2>1, <2>2, Goes DEF Recorded
<1>3. CASE Placing!resolveUnscanned(t)
  <2>1. view' \in Views /\ view'.reconcile = view.reconcile
    BY <1>0, <1>3 DEF Placing!resolveUnscanned, Views
  <2>2. AskedWell(Placing!Ask("take", t, {}))
    BY DEF AskedWell, Awaited, Answers, Placing!Ask
  <2>. QED BY <1>0, <1>3, <2>1, <2>2, PlacingQuiet DEF Placing!resolveUnscanned, Placing!Asking
<1>. QED BY <1>1, <1>2, <1>3

LEMMA PlacingByOperator ==
  ASSUME PlacingInv,
         \/ Placing!ScanError \/ Placing!handleRetry \/ Placing!handleClose
         \/ Placing!StartScanning \/ Placing!handleConfirm \/ Placing!handleSkip
         \/ Placing!Abbrechen \/ Placing!Fertig \/ Placing!resolveAllUnscanned
         \/ Placing!closeReconcile \/ Placing!Reload \/ Placing!OpenFlow
  PROVE  PlacingInv'
<1>0. /\ view \in Views /\ returns \subseteq Things /\ scanned \subseteq Things
      /\ entries \in Seq(Entries) /\ entries # <<>>
      /\ walk \in [confirmed : SUBSET Things, before : SUBSET Things] /\ Recorded
      /\ \A r \in requests : AskedWell(r)
  BY DEF PlacingInv, PlacingTyped
<1>e. \A page \in {"box", "placement", "scan"}, carries \in Labels :
        Placing!Entry(page, carries) \in Entries
  BY DEF Placing!Entry, Entries
<1>g. ASSUME NEW entry \in Entries, Placing!Go(entry, requests, scanned),
             UNCHANGED <<mode, returns, walk>>
      PROVE  PlacingInv'
  BY <1>0, <1>g, Goes DEF Recorded
<1>n. Placing!Nothing \in Labels /\ Placing!Finish \in Labels
  BY DEF Labels
<1>1. CASE Placing!ScanError \/ Placing!handleRetry
  BY <1>0, <1>1, PlacingQuiet DEF Placing!ScanError, Placing!handleRetry
<1>2. CASE Placing!handleClose
  BY <1>e, <1>g, <1>n, <1>2 DEF Placing!handleClose
<1>3. CASE Placing!StartScanning
  BY <1>e, <1>g, <1>n, <1>3 DEF Placing!StartScanning, Placing!navigateToScanner
<1>4. CASE Placing!handleConfirm
  <2>1. view' \in Views /\ view'.reconcile = view.reconcile
    BY <1>0, <1>4 DEF Placing!handleConfirm, Views
  <2>2. view.warning \in Things
    BY <1>0, <1>4 DEF Placing!handleConfirm, Views
  <2>3. AskedWell(Placing!Ask("move", view.warning, {}))
    BY <2>2 DEF AskedWell, Awaited, Answers, Placing!Ask
  <2>. QED BY <1>0, <1>4, <2>1, <2>3, PlacingQuiet DEF Placing!handleConfirm, Placing!Asking
<1>5. CASE Placing!handleSkip
  BY <1>e, <1>g, <1>n, <1>5 DEF Placing!handleSkip, Placing!navigateToScanner
<1>6. CASE Placing!Abbrechen
  BY <1>0, <1>6, GoesBack DEF Placing!Abbrechen
<1>7. CASE Placing!Fertig
  <2>1. CASE mode = "items"
    <3>1. /\ view' = [view EXCEPT !.processing = TRUE, !.message = FALSE]
          /\ requests' = requests \cup {Placing!Ask("finish", Placing!Nothing, {})}
      BY <1>7, <2>1 DEF Placing!Fertig, Placing!finishInventory
    <3>2. view' \in Views /\ view'.reconcile = view.reconcile
      BY <1>0, <3>1 DEF Views
    <3>3. AskedWell(Placing!Ask("finish", Placing!Nothing, {}))
      BY <2>1 DEF AskedWell, Awaited, Answers, Placing!Ask
    <3>. QED BY <1>0, <1>7, <3>1, <3>2, <3>3, PlacingQuiet DEF Placing!Fertig
  <2>2. CASE mode # "items"
    <3>1. /\ view' = view
          /\ requests' = requests \cup {Placing!Ask("back", Placing!Nothing, {})}
      BY <1>7, <2>2 DEF Placing!Fertig, Placing!finishInventory
    <3>2. AskedWell(Placing!Ask("back", Placing!Nothing, {}))
      BY DEF AskedWell, Awaited, Answers, Placing!Ask
    <3>. QED BY <1>0, <1>7, <3>1, <3>2, PlacingQuiet DEF Placing!Fertig
  <2>. QED BY <2>1, <2>2
<1>8. CASE Placing!resolveAllUnscanned
  <2>. DEFINE open == {t \in Things : view.reconcile[t] = "open"}
  <2>1. PICK t \in open : Placing!Asking(Placing!Ask("take", t, open \ {t}))
    BY <1>8 DEF Placing!resolveAllUnscanned
  <2>2. view' \in Views /\ view'.reconcile = view.reconcile
    BY <1>0, <1>8 DEF Placing!resolveAllUnscanned, Views
  <2>3. AskedWell(Placing!Ask("take", t, open \ {t}))
    BY DEF AskedWell, Awaited, Answers, Placing!Ask
  <2>. HIDE DEF open
  <2>. QED BY <1>0, <1>8, <2>1, <2>2, <2>3, PlacingQuiet
       DEF Placing!resolveAllUnscanned, Placing!Asking
<1>9. CASE Placing!closeReconcile
  BY <1>9, GoesBack DEF Placing!closeReconcile
<1>10. CASE Placing!Reload
  <2>1. Placing!Arrive(entries, FALSE, view, {}, scanned) /\ UNCHANGED <<mode, walk>>
        /\ returns' = {}
    BY <1>10 DEF Placing!Reload
  <2>2. mode = "items" => walk'.confirmed \subseteq scanned \/ anew
    BY <1>0, <2>1 DEF Recorded
  <2>. QED BY <1>0, <2>1, <2>2, Arrives
<1>11. CASE Placing!OpenFlow
  BY <1>e, <1>g, <1>n, <1>11 DEF Placing!OpenFlow
<1>. QED BY <1>1, <1>2, <1>3, <1>4, <1>5, <1>6, <1>7, <1>8, <1>9, <1>10, <1>11

\* The content of the box is compared with what was recorded.
LEMMA BoxLists ==
  ASSUME PlacingInv, NEW r \in requests, Placing!BoxLoaded(r)
  PROVE  PlacingInv'
<1>0. /\ view \in Views /\ scanned \subseteq Things /\ returns \subseteq Things
      /\ walk \in [confirmed : SUBSET Things, before : SUBSET Things] /\ Recorded
      /\ \A q \in requests : AskedWell(q)
      /\ entries \in Seq(Entries) /\ entries # <<>> /\ anew \in BOOLEAN
  BY DEF PlacingInv, PlacingTyped
<1>1. mode = "items" /\ UNCHANGED <<mode, entries, returns>>
  BY <1>0 DEF Placing!BoxLoaded, AskedWell
<1>2. CASE Placing!Unscanned = {}
  <2>1. /\ view' \in {view, [view EXCEPT !.processing = FALSE]}
        /\ requests' = (requests \ {r}) \cup {Placing!Ask("back", Placing!Nothing, {})}
        /\ scanned' = {} /\ anew' = TRUE /\ UNCHANGED walk
    BY <1>2 DEF Placing!BoxLoaded, Placing!Answered
  <2>2. view' \in Views
    BY <1>0, <2>1 DEF Views
  <2>3. AskedWell(Placing!Ask("back", Placing!Nothing, {}))
    BY DEF AskedWell, Awaited, Answers, Placing!Ask
  <2>4. PlacingTyped'
    BY <1>0, <1>1, <2>1, <2>2, <2>3 DEF PlacingTyped, AskedWell
  <2>. QED BY <2>1, <2>4 DEF PlacingInv, Recorded, Placing!ConfirmedStays
<1>3. CASE Placing!Unscanned # {}
  <2>. DEFINE list == [t \in Things |-> IF t \in Placing!Unscanned THEN "open" ELSE Placing!Nothing]
              drawn == [view EXCEPT !.processing = FALSE, !.reconcile = list]
  <2>1. /\ view' = IF r.live THEN drawn ELSE view
        /\ requests' = requests \ {r} /\ UNCHANGED <<scanned, anew>>
        /\ walk' = IF r.live THEN [walk EXCEPT !.before = walk.confirmed] ELSE walk
    BY <1>3 DEF Placing!BoxLoaded, Placing!Answered
  <2>2. CASE ~r.live
    BY <1>0, <1>1, <2>1, <2>2, PlacingQuiet
  <2>3. CASE r.live
    <3>1. list \in [Things -> {Placing!Nothing, "open", "resolved"}]
          /\ \A t \in Things : list[t] = "open" => t \notin scanned
      BY DEF Placing!Unscanned, Placing!Nothing
    <3>. HIDE DEF list
    <3>2. drawn \in Views /\ drawn.reconcile = list
      BY <1>0, <3>1 DEF Views
    <3>. HIDE DEF drawn
    <3>3. /\ walk' \in [confirmed : SUBSET Things, before : SUBSET Things]
          /\ walk'.before = walk.confirmed /\ walk'.confirmed = walk.confirmed
      BY <1>0, <2>1, <2>3
    <3>4. PlacingTyped'
      BY <1>0, <1>1, <2>1, <2>3, <3>2, <3>3 DEF PlacingTyped, AskedWell
    <3>5. Recorded' /\ Placing!ConfirmedStays'
      BY <1>0, <1>1, <2>1, <2>3, <3>1, <3>2, <3>3 DEF Recorded, Placing!ConfirmedStays
    <3>. QED BY <3>4, <3>5 DEF PlacingInv
  <2>. QED BY <2>2, <2>3
<1>. QED BY <1>2, <1>3

LEMMA PlacingByAnswer ==
  ASSUME PlacingInv, NEW r \in requests,
         \/ Placing!processScan(r) \/ Placing!Moved(r) \/ Placing!BoxLoaded(r)
         \/ Placing!WentBack(r) \/ Placing!Taken(r) \/ Placing!RequestFails(r)
  PROVE  PlacingInv'
<1>0. /\ view \in Views /\ returns \subseteq Things /\ AskedWell(r) /\ scanned \subseteq Things
  BY DEF PlacingInv, PlacingTyped
<1>1. CASE Placing!processScan(r)
  <2>1. CASE where[r.of] = "here"
    BY <1>1, <2>1, PlacingConfirms DEF Placing!processScan
  <2>2. CASE where[r.of] # "here"
    <3>1. r.of \in Things
      BY <1>0, <1>1 DEF Placing!processScan, AskedWell
    <3>2. view' \in {view, [view EXCEPT !.processing = FALSE, !.warning = r.of]}
      BY <1>1, <2>2 DEF Placing!processScan, Placing!Answered
    <3>3. view' \in Views /\ view'.reconcile = view.reconcile
      BY <1>0, <3>1, <3>2 DEF Views
    <3>. QED BY <1>0, <1>1, <2>2, <3>3, PlacingQuiet DEF Placing!processScan
  <2>. QED BY <2>1, <2>2
<1>2. CASE Placing!Moved(r)
  BY <1>2, PlacingConfirms DEF Placing!Moved
<1>3. CASE Placing!BoxLoaded(r)
  BY <1>3, BoxLists
<1>4. CASE Placing!WentBack(r)
  <2>1. CASE Len(entries) > 1
    BY <1>0, <1>4, <2>1, GoesBack DEF Placing!WentBack
  <2>2. CASE ~(Len(entries) > 1)
    BY <1>0, <1>4, <2>2, PlacingQuiet DEF Placing!WentBack
  <2>. QED BY <2>1, <2>2
<1>5. CASE Placing!Taken(r)
  <2>. DEFINE mark == IF Placing!Listing(view) THEN "resolved" ELSE Placing!Nothing
              busy == r.rest # {}
              v == [view EXCEPT !.processing = busy, !.reconcile[r.of] = mark]
  <2>1. r.of \in Things
    BY <1>0, <1>5 DEF Placing!Taken, AskedWell
  <2>2. busy \in BOOLEAN /\ mark \in {Placing!Nothing, "resolved"} /\ mark # "open"
    BY DEF Placing!Nothing
  <2>3. view' \in {view, v}
    BY <1>5 DEF Placing!Taken, Placing!Answered
  <2>. HIDE DEF mark, busy
  <2>4. v \in Views /\ \A t \in Things : v.reconcile[t] = "open" => view.reconcile[t] = "open"
    <3>1. [view.reconcile EXCEPT ![r.of] = mark] \in [Things -> {Placing!Nothing, "open", "resolved"}]
      BY <1>0, <2>2 DEF Views
    <3>2. v \in Views /\ v.reconcile = [view.reconcile EXCEPT ![r.of] = mark]
      BY <1>0, <2>2, <3>1 DEF Views
    <3>. HIDE DEF v
    <3>. QED BY <1>0, <2>1, <2>2, <3>2 DEF Views
  <2>. HIDE DEF v
  <2>5. \A q \in requests' : q \in requests \/ AskedWell(q)
    BY <1>5, NextAsked DEF Placing!Taken
  <2>. QED BY <1>0, <1>5, <2>3, <2>4, <2>5, PlacingQuiet DEF Placing!Taken
<1>6. CASE Placing!RequestFails(r)
  <2>. DEFINE busy == r.rest # {}
  <2>1. view' \in {view, [view EXCEPT !.processing = busy, !.message = TRUE]} /\ busy \in BOOLEAN
    BY <1>6 DEF Placing!RequestFails, Placing!Answered
  <2>. HIDE DEF busy
  <2>2. view' \in Views /\ view'.reconcile = view.reconcile
    BY <1>0, <2>1 DEF Views
  <2>3. \A q \in requests' : q \in requests \/ AskedWell(q)
    BY <1>6, NextAsked DEF Placing!RequestFails
  <2>. QED BY <1>0, <1>6, <2>2, <2>3, PlacingQuiet DEF Placing!RequestFails
<1>. QED BY <1>1, <1>2, <1>3, <1>4, <1>5, <1>6

LEMMA PlacingStep == PlacingInv /\ [Placing!Next]_placing => PlacingInv'
<1>. SUFFICES ASSUME PlacingInv, [Placing!Next]_placing PROVE PlacingInv'
  OBVIOUS
<1>0. view \in Views /\ returns \subseteq Things
  BY DEF PlacingInv, PlacingTyped
<1>1. CASE UNCHANGED placing
  BY <1>0, <1>1, PlacingQuiet DEF placing
<1>2. ASSUME NEW t \in Things, NEW to \in {"here", "away"}, Placing!OthersMove(t, to)
      PROVE  PlacingInv'
  BY <1>0, <1>2, PlacingQuiet DEF Placing!OthersMove
<1>. QED BY <1>1, <1>2, PlacingByThing, PlacingByOperator, PlacingByAnswer DEF Placing!Next

LEMMA PlacingHolds == MCSpec => []PlacingInv
<1>1. MCInit => PlacingInv
  BY PlacingInit DEF MCInit
<1>2. PlacingInv /\ [MCNext]_intake => PlacingInv'
  BY PlacingStep DEF MCNext, intake
<1>. QED BY <1>1, <1>2, PTL DEF MCSpec

\* What was confirmed to be here before the list of the unscanned was drawn is not offered
\* for removal, however often the operator scans, leaves, comes back or lets requests
\* overlap, unless the set was emptied on the way.
THEOREM ConfirmedIsKept == MCSpec => []ConfirmedStays
<1>1. PlacingInv => ConfirmedStays
  BY DEF PlacingInv, ConfirmedStays
<1>. QED BY <1>1, PlacingHolds, PTL

-----------------------------------------------------------------------------
(* Importing files: CsvInbox *)

UploadForm(c) ==
  c = [name |-> c.name, zero |-> c.zero, rows |-> c.rows, boxes |-> c.boxes, runs |-> c.runs]
IngestForm(m) ==
  m = [pc |-> m.pc, row |-> m.row, zero |-> m.zero, base |-> m.base, minted |-> m.minted,
       sequence |-> m.sequence, article |-> m.article, ids |-> m.ids]

\* The export is still at work on a backup that is not built.
Built(f) == place[f] \notin {"unwritten", "items", "boxes"}

FileSound(f) ==
  /\ UploadForm(content[f])
  /\ content[f].rows \in Seq(Inbox!Row) /\ content[f].boxes \subseteq Boxes
  /\ content[f].runs \subseteq Inbox!Articles
  /\ f \in zeroed => place[f] = "inbox" /\ content[f].zero
IngestSound(f) ==
  /\ IngestForm(imp[f])
  /\ imp[f].pc \in {"idle", "ended", "unread", "open", "row", "write", "archive"}
  /\ imp[f].row \in 1..(Len(content[f].rows) + 1)
  /\ imp[f].article \in Inbox!Articles \cup {Inbox!Missing}
  /\ imp[f].pc = "idle" => imp[f] = Inbox!Idle
  /\ imp[f].pc # "idle" => place[f] = "inbox"
  /\ imp[f].zero => content[f].zero
  /\ imp[f].pc = "open" => imp[f].row = 1

\* A write names a file that is complete, and an item the row it comes from.
WriteSound(w) ==
  /\ w \in Inbox!Writes /\ Built(w.file)
  /\ w.stage = "box" => w.box \in Boxes
  /\ w.stage # "box" => w.article \in Inbox!Articles
  /\ w.stage = "item" => w.id \in Inbox!Ids
  /\ w.stage # "box" /\ w.id \in Inbox!Ids =>
       /\ w.row \in 1..Len(content[w.file].rows)
       /\ w.box = content[w.file].rows[w.row].box
ItemSound(id) ==
  items[id] \notin {Inbox!Before, Inbox!NoOne} =>
    /\ items[id] \in Files \X Nat /\ Built(items[id][1])
    /\ items[id][2] \in 1..Len(content[items[id][1]].rows)
    /\ Inbox!WriterOf(id).box \in boxes \cup {Inbox!NoBox}

Sent == pending \cup lost
InboxTypes ==
  /\ content = [f \in Files |-> content[f]] /\ imp = [f \in Files |-> imp[f]]
  /\ place \in [Files -> Inbox!Places]
  /\ zeroed \subseteq Files /\ runsFile \subseteq Files
  /\ boxes \subseteq Boxes /\ named \subseteq Inbox!Articles /\ runs \subseteq Inbox!Articles
  /\ items \in [Inbox!Ids -> (Files \X Nat) \cup {Inbox!Before, Inbox!NoOne}]
  /\ crashes \in 0..MaxCrashes
InboxSound ==
  /\ InboxTypes
  /\ \A f \in Files : FileSound(f) /\ IngestSound(f)
  /\ \A w \in Sent : WriteSound(w)
  /\ \A id \in Inbox!Ids : ItemSound(id)

\* What a row of a file asks for is there, or a write of the file will bring it, or was
\* taken by a fault.
BoxLands(f, b) == b \in boxes \/ \E w \in Sent : w.file = f /\ w.stage = "box" /\ w.box = b
RefLands(f, a) == a \in named \/ \E w \in Sent : w.file = f /\ w.stage = "ref" /\ w.article = a
ItemLands(f, id) ==
  \/ items[id] # Inbox!NoOne
  \/ \E w \in Sent : w.file = f /\ w.stage \in {"ref", "item"} /\ w.id = id

Brings(f, row) == row.id # Inbox!NoId /\ row.units > 0 /\ ~content[f].zero
RowLands(f, row) ==
  row.box # Inbox!BadBox =>
    /\ row.box # Inbox!NoBox => BoxLands(f, row.box)
    /\ row.article # Inbox!Missing => RefLands(f, row.article)
    /\ Brings(f, row) => ItemLands(f, row.id)

\* The row whose items are being written.
Begun(f, row) ==
  /\ imp[f].row <= Len(content[f].rows) /\ row.box # Inbox!BadBox
  /\ imp[f].article \in Inbox!Articles
  /\ row.article # Inbox!Missing => imp[f].article = row.article
  /\ imp[f].ids \in Seq(Inbox!Ids) /\ imp[f].ids # <<>>
  /\ row.box # Inbox!NoBox => BoxLands(f, row.box)
  /\ Brings(f, row) => Head(imp[f].ids) = row.id \/ ItemLands(f, row.id)

Landed(f) ==
  /\ place[f] = "archived" \/ imp[f].pc = "archive" =>
       \A i \in 1..Len(content[f].rows) : RowLands(f, content[f].rows[i])
  /\ imp[f].pc \in {"row", "write"} =>
       \A i \in 1..(imp[f].row - 1) : RowLands(f, content[f].rows[i])
  /\ imp[f].pc = "write" => Begun(f, content[f].rows[imp[f].row])

InboxInv == InboxSound /\ \A f \in Files : Landed(f)

LEMMA InboxConstants ==
  /\ MaxNamed \in Nat /\ MaxSequence \in Nat /\ MaxCrashes \in Nat
  /\ Content = [f \in Files |-> Content[f]] /\ Backups \subseteq Files /\ StockedIds \subseteq Inbox!Ids
  /\ \A f \in Files :
       /\ UploadForm(Content[f])
       /\ Content[f].rows \in Seq(Inbox!Row) /\ Content[f].boxes \subseteq Boxes
       /\ Content[f].runs \subseteq Inbox!Articles
BY InboxAssumption DEF Inbox!UploadsFit, Inbox!BoundsFit, UploadForm

LEMMA NoSuchId == Inbox!NoId \notin Inbox!Ids
BY InboxConstants DEF Inbox!NoId, Inbox!Ids, Inbox!Missing, Inbox!Articles

LEMMA InboxInit == Inbox!Init => InboxInv
<1>. SUFFICES ASSUME Inbox!Init PROVE InboxInv
  OBVIOUS
<1>. USE InboxConstants DEF Inbox!Init
<1>1. InboxTypes
  <2>1. named \subseteq Inbox!Articles
    BY DEF Inbox!Ids
  <2>. QED BY <2>1 DEF InboxTypes, Inbox!Places
<1>2. ASSUME NEW f \in Files PROVE FileSound(f) /\ IngestSound(f) /\ Landed(f)
  <2>1. FileSound(f)
    BY DEF FileSound
  <2>2. Len(content[f].rows) \in Nat
    BY LenProperties
  <2>3. IngestSound(f)
    <3>1. imp[f] = Inbox!Idle
      OBVIOUS
    <3>2. /\ IngestForm(Inbox!Idle) /\ Inbox!Idle.pc = "idle" /\ Inbox!Idle.row = 1
          /\ Inbox!Idle.article = Inbox!Missing /\ ~Inbox!Idle.zero
      BY DEF IngestForm, Inbox!Idle
    <3>. QED BY <2>2, <3>1, <3>2 DEF IngestSound
  <2>4. Landed(f)
    BY DEF Landed, Inbox!Idle
  <2>. QED BY <2>1, <2>3, <2>4
<1>3. \A id \in Inbox!Ids : ItemSound(id)
  BY DEF ItemSound
<1>. QED BY <1>1, <1>2, <1>3 DEF InboxInv, InboxSound, Sent

LEMMA InboxSafe == InboxInv => Inbox!TypeOK /\ Inbox!ArchivedRowsLand
<1>. SUFFICES ASSUME InboxInv PROVE Inbox!TypeOK /\ Inbox!ArchivedRowsLand
  OBVIOUS
<1>1. Inbox!TypeOK
  <2>1. place \in [Files -> Inbox!Places]
    BY DEF InboxInv, InboxSound, InboxTypes, FileSound
  <2>2. \A f \in Files :
          /\ imp[f].pc \in {"idle", "ended", "unread", "open", "row", "write", "archive"}
          /\ imp[f].row \in 1..(Len(Inbox!Rows(f)) + 1)
          /\ imp[f].article \in Inbox!Articles \union {Inbox!Missing}
          /\ ~Inbox!At(f, "idle") => place[f] = "inbox"
    BY DEF InboxInv, InboxSound, IngestSound, Inbox!Rows, Inbox!At
  <2>3. pending \subseteq Inbox!Writes /\ lost \subseteq Inbox!Writes
    BY DEF InboxInv, InboxSound, WriteSound, Sent
  <2>4. \A id \in Inbox!Ids :
          Inbox!Written(id) => Inbox!ExportedRow(id).box \in boxes \cup {Inbox!NoBox}
    <3>. SUFFICES ASSUME NEW id \in Inbox!Ids, items[id] # Inbox!NoOne
                  PROVE  Inbox!ExportedRow(id).box \in boxes \cup {Inbox!NoBox}
      BY DEF Inbox!Written
    <3>1. ItemSound(id)
      BY DEF InboxInv, InboxSound
    <3>. QED BY <3>1 DEF ItemSound, Inbox!ExportedRow
  <2>. QED
    BY <2>1, <2>2, <2>3, <2>4 DEF InboxInv, InboxSound, InboxTypes, FileSound, Inbox!TypeOK
<1>2. Inbox!ArchivedRowsLand
  <2>. SUFFICES ASSUME NEW f \in Files, place[f] = "archived", NEW i \in DOMAIN content[f].rows,
                       content[f].rows[i].box # Inbox!BadBox
                PROVE  LET row == content[f].rows[i] IN
      /\ row.box # Inbox!NoBox =>
           row.box \in boxes \/ \E w \in pending \union lost : w.box = row.box
      /\ row.article # Inbox!Missing =>
           row.article \in named \/ \E w \in pending \union lost : w.article = row.article
      /\ row.article # Inbox!Missing /\ row.id # Inbox!NoId /\ row.units > 0 /\ ~content[f].zero =>
           Inbox!Written(row.id) \/ \E w \in pending \union lost : w.id = row.id
    BY DEF Inbox!ArchivedRowsLand, Inbox!Rows
  <2>1. i \in 1..Len(content[f].rows)
    BY LenProperties DEF InboxInv, InboxSound, FileSound
  <2>2. RowLands(f, content[f].rows[i])
    BY <2>1 DEF InboxInv, Landed
  <2>. QED
    BY <2>2 DEF RowLands, BoxLands, RefLands, ItemLands, Brings, Sent, Inbox!Written
<1>. QED BY <1>1, <1>2

-----------------------------------------------------------------------------
(* What a step leaves as it was *)

\* What a write would bring is there, or the write goes on.
Grows(f) ==
  /\ boxes \subseteq boxes' /\ named \subseteq named'
  /\ \A id \in Inbox!Ids : items[id] # Inbox!NoOne => items'[id] # Inbox!NoOne
  /\ \A w \in Sent : w.file = f =>
       \/ w \in Sent'
       \/ w.stage = "box" /\ w.box \in boxes'
       \/ /\ w.stage = "ref" /\ w.article \in named'
          /\ w.id \in Inbox!Ids => \E v \in Sent' : v.file = f /\ v.stage = "item" /\ v.id = w.id
       \/ w.stage = "item" /\ items'[w.id] # Inbox!NoOne

LEMMA LandsKept ==
  ASSUME NEW f, Grows(f)
  PROVE  /\ \A b : BoxLands(f, b) => BoxLands(f, b)'
         /\ \A a : RefLands(f, a) => RefLands(f, a)'
         /\ \A id \in Inbox!Ids : ItemLands(f, id) => ItemLands(f, id)'
<1>1. \A b : BoxLands(f, b) => BoxLands(f, b)'
  BY DEF Grows, BoxLands
<1>2. \A a : RefLands(f, a) => RefLands(f, a)'
  BY DEF Grows, RefLands
<1>3. ASSUME NEW id \in Inbox!Ids, ItemLands(f, id) PROVE ItemLands(f, id)'
  <2>1. CASE items[id] # Inbox!NoOne
    BY <2>1 DEF Grows, ItemLands
  <2>2. ASSUME NEW w \in Sent, w.file = f, w.stage \in {"ref", "item"}, w.id = id
        PROVE  ItemLands(f, id)'
    BY <2>2 DEF Grows, ItemLands
  <2>. QED BY <1>3, <2>1, <2>2 DEF ItemLands
<1>. QED BY <1>1, <1>2, <1>3

LEMMA RowFields ==
  ASSUME NEW f \in Files, FileSound(f), NEW i \in 1..Len(content[f].rows)
  PROVE  /\ content[f].rows[i] \in Inbox!Row
         /\ content[f].rows[i].id \in Inbox!Ids \cup {Inbox!NoId}
         /\ content[f].rows[i].article \in Inbox!Articles \cup {Inbox!Missing}
         /\ content[f].rows[i].units \in 0..MaxSequence
         /\ content[f].rows[i].bulk \in BOOLEAN
         /\ content[f].rows[i].box \in Boxes \cup {Inbox!NoBox, Inbox!BadBox}
<1>1. content[f].rows[i] \in Inbox!Row
  BY ElementOfSeq DEF FileSound
<1>. QED BY <1>1 DEF Inbox!Row

LEMMA RowKept ==
  ASSUME NEW f, Grows(f), content'[f] = content[f], NEW row,
         row.id \in Inbox!Ids \cup {Inbox!NoId}, RowLands(f, row)
  PROVE  RowLands(f, row)'
BY LandsKept DEF RowLands, Brings

LEMMA LandedKept ==
  ASSUME NEW f \in Files, FileSound(f), IngestSound(f), Landed(f), Grows(f),
         content'[f] = content[f], imp'[f] = imp[f], place'[f] = "archived" => place[f] = "archived"
  PROVE  Landed(f)'
<1>0. Len(content[f].rows) \in Nat
  BY LenProperties DEF FileSound
<1>1. \A i \in 1..Len(content[f].rows) :
        RowLands(f, content[f].rows[i]) => RowLands(f, content[f].rows[i])'
  BY RowFields, RowKept
<1>2. imp[f].row \in 1..(Len(content[f].rows) + 1)
  BY DEF IngestSound
<1>3. ASSUME imp[f].pc = "write" PROVE Begun(f, content[f].rows[imp[f].row])'
  <2>1. Begun(f, content[f].rows[imp[f].row])
    BY <1>3 DEF Landed
  <2>2. content[f].rows[imp[f].row].id \in Inbox!Ids \cup {Inbox!NoId}
    BY <1>0, <1>2, <2>1, RowFields DEF Begun
  <2>3. PICK row : row = content[f].rows[imp[f].row]
    OBVIOUS
  <2>4. Begun(f, row) /\ row.id \in Inbox!Ids \cup {Inbox!NoId}
    BY <2>1, <2>2, <2>3
  <2>5. Begun(f, row)'
    BY <2>4, LandsKept DEF Begun, Brings
  <2>. QED BY <2>3, <2>5
<1>. QED BY <1>0, <1>1, <1>2, <1>3 DEF Landed

LEMMA SoundKept ==
  ASSUME InboxSound, UNCHANGED content, \A f \in Files : Built(f) => Built(f)',
         boxes \subseteq boxes', InboxTypes', \A f \in Files : FileSound(f)' /\ IngestSound(f)',
         \A w \in Sent' : w \in Sent \/ WriteSound(w)',
         \A id \in Inbox!Ids : items'[id] = items[id] \/ ItemSound(id)'
  PROVE  InboxSound'
<1>1. ASSUME NEW w \in Sent, WriteSound(w) PROVE WriteSound(w)'
  BY <1>1 DEF WriteSound, Inbox!Writes
<1>2. ASSUME NEW id \in Inbox!Ids, ItemSound(id), items'[id] = items[id] PROVE ItemSound(id)'
  BY <1>2 DEF ItemSound, Inbox!WriterOf
<1>. QED BY <1>1, <1>2 DEF InboxSound

\* A step about one file, which writes nothing to the database.
LEMMA FileStep ==
  ASSUME InboxInv, NEW f \in Files, UNCHANGED <<content, boxes, named, items>>,
         \A g \in Files \ {f} : /\ imp'[g] = imp[g] /\ place'[g] = place[g]
                                /\ g \in zeroed' => g \in zeroed,
         imp' = [g \in Files |-> imp'[g]], place' \in [Files -> Inbox!Places], Built(f) => Built(f)',
         zeroed' \subseteq Files, runsFile' \subseteq Files, runs' \subseteq Inbox!Articles,
         crashes' \in 0..MaxCrashes,
         Sent \subseteq Sent', \A w \in Sent' : w \in Sent \/ WriteSound(w)',
         FileSound(f)', IngestSound(f)', Landed(f)'
  PROVE  InboxInv'
<1>1. InboxTypes'
  BY DEF InboxInv, InboxSound, InboxTypes
<1>2. \A g \in Files : Built(g) => Built(g)'
  BY DEF Built
<1>3. ASSUME NEW g \in Files \ {f} PROVE FileSound(g)' /\ IngestSound(g)'
  BY DEF InboxInv, InboxSound, FileSound, IngestSound
<1>4. \A g \in Files : Grows(g)
  BY DEF Grows
<1>5. ASSUME NEW g \in Files \ {f} PROVE Landed(g)'
  BY <1>4, LandedKept DEF InboxInv, InboxSound
<1>6. InboxSound'
  BY <1>1, <1>2, <1>3, SoundKept DEF InboxInv
<1>. QED BY <1>5, <1>6 DEF InboxInv

\* A step that the database takes of a write.
LEMMA DatabaseStep ==
  ASSUME InboxInv, UNCHANGED <<content, place, zeroed, runsFile, imp>>, InboxTypes',
         boxes \subseteq boxes', \A f \in Files : Grows(f), \A w \in Sent' : w \in Sent \/ WriteSound(w)',
         \A id \in Inbox!Ids : items'[id] = items[id] \/ ItemSound(id)'
  PROVE  InboxInv'
<1>1. ASSUME NEW f \in Files PROVE FileSound(f)' /\ IngestSound(f)' /\ Landed(f)'
  <2>1. FileSound(f)' /\ IngestSound(f)'
    BY DEF InboxInv, InboxSound, FileSound, IngestSound
  <2>2. Landed(f)'
    BY LandedKept DEF InboxInv, InboxSound
  <2>. QED BY <2>1, <2>2
<1>. QED BY <1>1, SoundKept DEF InboxInv, Built

-----------------------------------------------------------------------------
(* Uploads and the ingestion of a file *)

\* A box that is written by itself.
BoxOf(f, w) ==
  /\ w = [file |-> f, row |-> w.row, article |-> Inbox!Missing, id |-> Inbox!NoId,
          box |-> w.box, stage |-> "box"]
  /\ w.row \in Nat /\ w.box \in Boxes
LEMMA BoxWriteSound ==
  ASSUME NEW f \in Files, NEW w, BoxOf(f, w), Built(f)'
  PROVE  WriteSound(w)'
BY DEF BoxOf, WriteSound, Built, Inbox!Writes

LEMMA InboxUploads ==
  ASSUME InboxInv, NEW f \in Files,
         Inbox!Upload(f) \/ Inbox!RefuseUpload(f) \/ Inbox!UploadWithoutItems(f)
  PROVE  InboxInv'
<1>0. InboxTypes
  BY DEF InboxInv, InboxSound
<1>1. /\ place[f] = "offered" /\ place' = [place EXCEPT ![f] = place'[f]]
      /\ place'[f] \in {"inbox", "refused", "taken"}
      /\ UNCHANGED <<content, imp, boxes, named, items, lost, crashes>>
      /\ pending' = pending \cup Inbox!IngestBoxes(f)
      /\ zeroed' \in {zeroed, zeroed \cup {f}} /\ runsFile' \subseteq runsFile \cup {f}
      /\ f \in zeroed' => f \in zeroed \/ (place'[f] = "inbox" /\ content[f].zero)
      /\ runs' \subseteq runs \cup content[f].runs
  <2>1. CASE Inbox!Upload(f)
    BY <1>0, <2>1 DEF InboxTypes, Inbox!Upload, Inbox!DeferRuns, Inbox!database
  <2>2. CASE Inbox!RefuseUpload(f)
    BY <1>0, <2>2 DEF InboxTypes, Inbox!RefuseUpload, Inbox!DeferRuns, Inbox!database
  <2>3. CASE Inbox!UploadWithoutItems(f)
    BY <1>0, <2>3 DEF InboxTypes, Inbox!UploadWithoutItems
  <2>. QED BY <2>1, <2>2, <2>3
<1>2. FileSound(f) /\ IngestSound(f) /\ Landed(f) /\ InboxTypes
  BY DEF InboxInv, InboxSound
<1>3. \A w \in Inbox!IngestBoxes(f) : BoxOf(f, w)
  BY <1>2 DEF Inbox!IngestBoxes, Inbox!BoxWrite, BoxOf, FileSound
<1>4. Built(f)' /\ place' \in [Files -> Inbox!Places]
  BY <1>1, <1>2 DEF Built, InboxTypes, Inbox!Places
<1>5. Sent \subseteq Sent' /\ \A w \in Sent' : w \in Sent \/ WriteSound(w)'
  BY <1>1, <1>3, <1>4, BoxWriteSound DEF Sent
<1>6. FileSound(f)'
  BY <1>1, <1>2 DEF FileSound
<1>7. IngestSound(f)'
  BY <1>1, <1>2 DEF IngestSound
<1>8. Landed(f)'
  BY <1>1, <1>2, <1>5, LandedKept DEF Grows
<1>9. /\ \A g \in Files \ {f} : /\ imp'[g] = imp[g] /\ place'[g] = place[g]
                                /\ g \in zeroed' => g \in zeroed
      /\ zeroed' \subseteq Files /\ runsFile' \subseteq Files
      /\ runs' \subseteq Inbox!Articles /\ crashes' \in 0..MaxCrashes /\ imp' = [g \in Files |-> imp'[g]]
  BY <1>1, <1>2 DEF InboxTypes, FileSound
<1>. QED BY <1>1, <1>4, <1>5, <1>6, <1>7, <1>8, <1>9, FileStep

\* A step of the ingestion of one file; m is how far it has come.
Ingestion(f, m) ==
  /\ imp' = [imp EXCEPT ![f] = m]
  /\ UNCHANGED <<content, boxes, named, items, lost>>
  /\ \A g \in Files \ {f} : place'[g] = place[g]
  /\ place' \in [Files -> Inbox!Places] /\ Built(f)'
  /\ zeroed' \subseteq zeroed /\ runsFile' \subseteq runsFile
  /\ f \in zeroed' => place'[f] = "inbox"
  /\ runs' \subseteq Inbox!Articles /\ crashes' \in 0..MaxCrashes
  /\ pending \subseteq pending' /\ \A w \in pending' : w \in pending \/ WriteSound(w)'

LEMMA IngestionStep ==
  ASSUME InboxInv, NEW f \in Files, NEW m, Ingestion(f, m),
         IngestForm(m), m.pc \in {"idle", "ended", "unread", "open", "row", "write", "archive"},
         m.row \in 1..(Len(content[f].rows) + 1),
         m.article \in Inbox!Articles \cup {Inbox!Missing},
         m.pc = "idle" => m = Inbox!Idle, m.pc # "idle" => place'[f] = "inbox",
         m.zero => content[f].zero, m.pc = "open" => m.row = 1,
         Landed(f)'
  PROVE  InboxInv'
<1>1. InboxTypes /\ FileSound(f)
  BY DEF InboxInv, InboxSound
<1>2. imp'[f] = m /\ imp' = [g \in Files |-> imp'[g]] /\ \A g \in Files \ {f} : imp'[g] = imp[g]
  BY <1>1 DEF Ingestion, InboxTypes
<1>3. IngestSound(f)'
  BY <1>2 DEF IngestSound, Ingestion
<1>4. FileSound(f)'
  BY <1>1 DEF FileSound, Ingestion
<1>5. /\ Sent \subseteq Sent' /\ \A w \in Sent' : w \in Sent \/ WriteSound(w)'
      /\ zeroed' \subseteq Files /\ runsFile' \subseteq Files
      /\ \A g \in Files \ {f} : g \in zeroed' => g \in zeroed
  BY <1>1 DEF Ingestion, Sent, InboxTypes
<1>. QED BY <1>2, <1>3, <1>4, <1>5, FileStep DEF Ingestion

\* While a file is ingested it lies in the inbox.
LEMMA AtWork ==
  ASSUME InboxInv, NEW f \in Files, imp[f].pc # "idle"
  PROVE  place[f] = "inbox" /\ Built(f)
BY DEF InboxInv, InboxSound, IngestSound, Built

LEMMA InboxOpens ==
  ASSUME InboxInv, NEW f \in Files,
         \/ Inbox!RemoveDuplicate(f) \/ Inbox!HandleCsv(f) \/ Inbox!ReadFails(f)
         \/ Inbox!ReadCsv(f)
  PROVE  InboxInv'
<1>1. InboxTypes /\ FileSound(f) /\ IngestSound(f) /\ Len(content[f].rows) \in Nat
  BY LenProperties DEF InboxInv, InboxSound, FileSound
<1>2. place[f] = "inbox" /\ Built(f)
  <2>1. imp[f].pc = "open" => place[f] = "inbox"
    BY <1>1 DEF IngestSound
  <2>. QED
    BY <2>1 DEF Inbox!RemoveDuplicate, Inbox!HandleCsv, Inbox!ReadFails, Inbox!ReadCsv,
                Inbox!At, Built
<1>i. PICK m : m = imp'[f]
  OBVIOUS
<1>3. /\ IngestForm(m) /\ m.row = imp[f].row /\ m.article = imp[f].article
      /\ m.pc \in {"idle", "unread", "open", "row"}
      /\ m.pc \in {"open", "row"} => m.row = 1
      /\ m.pc = "idle" => m = Inbox!Idle /\ place'[f] = "removed"
      /\ m.pc # "idle" => place'[f] = "inbox"
      /\ m.zero => content[f].zero
      /\ imp' = [imp EXCEPT ![f] = m]
  <2>1. CASE Inbox!RemoveDuplicate(f)
    BY <1>i, <1>1, <2>1 DEF Inbox!RemoveDuplicate, Inbox!At, IngestSound, InboxTypes
  <2>2. CASE Inbox!HandleCsv(f)
    <3>1. imp[f] = Inbox!Idle /\ Inbox!Idle.row = 1
      BY <1>i, <1>1, <2>2 DEF Inbox!HandleCsv, Inbox!At, IngestSound, Inbox!Idle
    <3>2. m = [imp[f] EXCEPT !.pc = "open", !.zero = f \in zeroed]
      BY <1>i, <1>1, <2>2 DEF Inbox!HandleCsv, InboxTypes
    <3>3. imp' = [imp EXCEPT ![f] = m] /\ place' = place
      BY <1>i, <1>1, <2>2 DEF Inbox!HandleCsv, InboxTypes, Inbox!files
    <3>. QED BY <1>1, <1>2, <3>1, <3>2, <3>3 DEF IngestSound, IngestForm, FileSound
  <2>3. CASE Inbox!ReadFails(f)
    <3>1. m = [imp[f] EXCEPT !.pc = "unread"]
      BY <1>i, <1>1, <2>3 DEF Inbox!ReadFails, InboxTypes
    <3>2. imp' = [imp EXCEPT ![f] = m] /\ place' = place
      BY <1>i, <1>1, <2>3 DEF Inbox!ReadFails, InboxTypes
    <3>. QED BY <1>1, <1>2, <3>1, <3>2 DEF IngestSound, IngestForm
  <2>4. CASE Inbox!ReadCsv(f)
    <3>0. imp[f].pc = "open"
      BY <2>4 DEF Inbox!ReadCsv, Inbox!At
    <3>1. m = [imp[f] EXCEPT !.pc = "row", !.base = Inbox!Highest(named)]
      BY <1>i, <1>1, <2>4 DEF Inbox!ReadCsv, InboxTypes
    <3>2. imp' = [imp EXCEPT ![f] = m] /\ place' = place
      BY <1>i, <1>1, <2>4 DEF Inbox!ReadCsv, InboxTypes, Inbox!files
    <3>. QED BY <1>1, <1>2, <3>0, <3>1, <3>2 DEF IngestSound, IngestForm
  <2>. QED BY <2>1, <2>2, <2>3, <2>4
<1>4. Ingestion(f, m)
  BY <1>1, <1>2, <1>3, InboxConstants
  DEF Ingestion, InboxTypes, Built, Inbox!Places, Inbox!RemoveDuplicate, Inbox!HandleCsv,
      Inbox!ReadFails, Inbox!ReadCsv, Inbox!files, Inbox!database
<1>5. Landed(f)'
  <2>1. place'[f] # "archived" /\ m.pc \notin {"archive", "write"}
    BY <1>3
  <2>2. m.pc = "row" => 1..(m.row - 1) = {}
    BY <1>3
  <2>. QED BY <1>i, <2>1, <2>2 DEF Landed
<1>6. m.row \in 1..(Len(content[f].rows) + 1) /\ m.article \in Inbox!Articles \cup {Inbox!Missing}
  BY <1>1, <1>3 DEF IngestSound
<1>. QED BY <1>3, <1>4, <1>5, <1>6, IngestionStep

\* The file goes on behind a row that has been dealt with.
LEMMA RowDone ==
  ASSUME InboxInv, NEW f \in Files, NEW m, Ingestion(f, m), place' = place,
         imp[f].pc \in {"row", "write"}, imp[f].row <= Len(content[f].rows),
         IngestForm(m), m.pc = "row", m.row = imp[f].row + 1, m.zero = imp[f].zero,
         m.article = Inbox!Missing,
         NEW row, row = content[f].rows[imp[f].row], RowLands(f, row)'
  PROVE  InboxInv'
<1>1. InboxTypes /\ FileSound(f) /\ IngestSound(f) /\ Landed(f) /\ Len(content[f].rows) \in Nat
  BY LenProperties DEF InboxInv, InboxSound, FileSound
<1>2. place[f] = "inbox" /\ imp'[f] = m
  BY <1>1, AtWork DEF Ingestion, InboxTypes
<1>3. imp[f].row \in 1..Len(content[f].rows)
  BY <1>1 DEF IngestSound
<1>4. Grows(f)
  BY DEF Ingestion, Grows, Sent
<1>5. ASSUME NEW i \in 1..imp[f].row, NEW r, r = content[f].rows[i] PROVE RowLands(f, r)'
  <2>1. CASE i = imp[f].row
    BY <1>5, <2>1
  <2>2. CASE i \in 1..(imp[f].row - 1)
    <3>1. RowLands(f, r) /\ r.id \in Inbox!Ids \cup {Inbox!NoId}
      BY <1>1, <1>3, <1>5, <2>2, RowFields DEF Landed
    <3>. QED BY <1>4, <3>1, RowKept DEF Ingestion
  <2>. QED BY <1>3, <2>1, <2>2
<1>6. Landed(f)'
  <2>1. content' = content /\ m.row - 1 = imp[f].row
    BY <1>3 DEF Ingestion
  <2>. QED BY <1>2, <1>5, <2>1 DEF Landed
<1>7. m.row \in 1..(Len(content[f].rows) + 1) /\ (m.zero => content[f].zero)
  BY <1>1, <1>3 DEF IngestSound
<1>. QED BY <1>2, <1>6, <1>7, IngestionStep

LEMMA InboxSkips ==
  ASSUME InboxInv, NEW f \in Files, Inbox!SkipRow(f)
  PROVE  InboxInv'
<1>1. InboxTypes /\ IngestSound(f)
  BY DEF InboxInv, InboxSound
<1>2. imp[f].pc = "row" /\ imp[f].row <= Len(content[f].rows)
  BY DEF Inbox!SkipRow, Inbox!AtRow, Inbox!At, Inbox!Rows
<1>3. PICK m : m = Inbox!NextRow(f)
  OBVIOUS
<1>4. PICK row : row = content[f].rows[imp[f].row]
  OBVIOUS
<1>5. /\ IngestForm(m) /\ m.pc = "row" /\ m.row = imp[f].row + 1 /\ m.zero = imp[f].zero
      /\ m.article = Inbox!Missing
  BY <1>1, <1>3 DEF Inbox!NextRow, IngestSound, IngestForm
<1>6. Ingestion(f, m) /\ place' = place
  BY <1>1, <1>2, <1>3, AtWork, InboxConstants
     DEF Inbox!SkipRow, Inbox!files, Inbox!database, Ingestion, InboxTypes, Built,
         InboxInv, InboxSound, FileSound
<1>7. RowLands(f, row)'
  BY <1>4 DEF RowLands, Inbox!SkipRow, Inbox!Current, Inbox!Rows
<1>. QED BY <1>2, <1>4, <1>5, <1>6, <1>7, RowDone

\* A row that has its article and a usable box.
LEMMA GoodRow ==
  ASSUME InboxInv, NEW f \in Files, Inbox!AtGoodRow(f),
         NEW row, row = content[f].rows[imp[f].row]
  PROVE  /\ InboxTypes /\ FileSound(f) /\ IngestSound(f) /\ Landed(f)
         /\ imp[f].pc = "row" /\ place[f] = "inbox" /\ Built(f)
         /\ imp[f].row \in 1..Len(content[f].rows) /\ Len(content[f].rows) \in Nat
         /\ row = Inbox!Current(f) /\ row.box \in Boxes \cup {Inbox!NoBox}
         /\ row.id \in Inbox!Ids \cup {Inbox!NoId} /\ row.units \in 0..MaxSequence
         /\ row.bulk \in BOOLEAN /\ row.article \in Inbox!Articles \cup {Inbox!Missing}
         /\ Inbox!Article(f) \in Inbox!Articles
         /\ row.article # Inbox!Missing => Inbox!Article(f) = row.article
<1>1. /\ InboxTypes /\ FileSound(f) /\ IngestSound(f) /\ Landed(f)
      /\ Len(content[f].rows) \in Nat
  BY LenProperties DEF InboxInv, InboxSound, FileSound
<1>2. /\ imp[f].pc = "row" /\ imp[f].row <= Len(content[f].rows) /\ row = Inbox!Current(f)
      /\ row.box # Inbox!BadBox /\ Inbox!Article(f) \in Inbox!Articles
  BY DEF Inbox!AtGoodRow, Inbox!AtRow, Inbox!At, Inbox!Rows, Inbox!Current
<1>3. imp[f].row \in 1..Len(content[f].rows)
  BY <1>1, <1>2 DEF IngestSound
<1>4. row.article # Inbox!Missing => Inbox!Article(f) = row.article
  BY <1>2 DEF Inbox!Article, Inbox!Named
<1>. QED BY <1>1, <1>2, <1>3, <1>4, RowFields, AtWork

\* How many pieces a row asks for.
LEMMA UnitsOfRow ==
  ASSUME InboxInv, NEW f \in Files, Inbox!AtGoodRow(f),
         NEW row, row = content[f].rows[imp[f].row]
  PROVE  /\ Inbox!Units(f) \in Nat
         /\ row.units > 0 /\ ~content[f].zero => Inbox!Units(f) > 0
<1>1. row = Inbox!Current(f) /\ row.units \in 0..MaxSequence /\ row.bulk \in BOOLEAN
  BY GoodRow
<1>2. Inbox!Quantity(f) \in Nat /\ (row.units > 0 /\ ~content[f].zero => Inbox!Quantity(f) > 0)
  BY <1>1, GoodRow, InboxConstants DEF Inbox!Quantity, IngestSound
<1>3. ASSUME NEW n \in Nat PROVE Inbox!Min({1, n}) = IF n = 0 THEN 0 ELSE 1
  <2>1. \E x \in {1, n} : \A y \in {1, n} : x =< y
    OBVIOUS
  <2>. QED BY <2>1 DEF Inbox!Min
<1>. QED BY <1>1, <1>2, <1>3 DEF Inbox!Units

\* The box of a row is written before anything else of it.
LEMMA RowBoxLands ==
  ASSUME InboxInv, NEW f \in Files, Inbox!AtGoodRow(f), UNCHANGED place,
         NEW row, row = content[f].rows[imp[f].row],
         pending \cup Inbox!RowBox(f) \subseteq pending', boxes' = boxes
  PROVE  /\ \A w \in Inbox!RowBox(f) : WriteSound(w)'
         /\ row.box # Inbox!NoBox => BoxLands(f, row.box)'
<1>1. /\ row = Inbox!Current(f) /\ row.box \in Boxes \cup {Inbox!NoBox} /\ imp[f].row \in Nat
      /\ Built(f)'
  BY GoodRow DEF Built
<1>2. \A w \in Inbox!RowBox(f) : BoxOf(f, w) /\ w.box = row.box /\ w.stage = "box"
  BY <1>1 DEF Inbox!RowBox, Inbox!BoxWrite, BoxOf
<1>3. row.box # Inbox!NoBox => Inbox!RowBox(f) # {}
  BY <1>1 DEF Inbox!RowBox
<1>. QED BY <1>1, <1>2, <1>3, BoxWriteSound DEF BoxLands, Sent, BoxOf

\* A reference, or an item with it, that a row asks for.
ItemOf(f, n, w) ==
  /\ w = [file |-> f, row |-> n, article |-> w.article, id |-> w.id, box |-> w.box,
          stage |-> "ref"]
  /\ w.article \in Inbox!Articles /\ w.id \in Inbox!Ids \cup {Inbox!NoId}
LEMMA ItemWriteSound ==
  ASSUME NEW f \in Files, Len(content[f].rows) \in Nat, NEW n \in 1..Len(content[f].rows), NEW w,
         ItemOf(f, n, w), w.box = content[f].rows[n].box, w.box \in Boxes \cup {Inbox!NoBox},
         content' = content, Built(f)'
  PROVE  WriteSound(w)'
BY DEF ItemOf, WriteSound, Built, Inbox!Writes

LEMMA InboxPersistsReference ==
  ASSUME InboxInv, NEW f \in Files, Inbox!PersistItemReference(f)
  PROVE  InboxInv'
<1>0. Inbox!AtGoodRow(f) /\ Inbox!Units(f) = 0
  BY DEF Inbox!PersistItemReference
<1>1. PICK row : row = content[f].rows[imp[f].row]
  OBVIOUS
<1>2. /\ InboxTypes /\ FileSound(f) /\ IngestSound(f) /\ Landed(f)
      /\ imp[f].pc = "row" /\ place[f] = "inbox" /\ Built(f)
      /\ imp[f].row \in 1..Len(content[f].rows) /\ Len(content[f].rows) \in Nat
      /\ row = Inbox!Current(f) /\ row.box \in Boxes \cup {Inbox!NoBox}
      /\ row.article \in Inbox!Articles \cup {Inbox!Missing}
      /\ row.id \in Inbox!Ids \cup {Inbox!NoId}
      /\ Inbox!Article(f) \in Inbox!Articles
      /\ row.article # Inbox!Missing => Inbox!Article(f) = row.article
  BY <1>0, <1>1, GoodRow
<1>3. PICK m : m = [Inbox!NextRow(f) EXCEPT !.minted = IF Inbox!Named(f) = Inbox!Missing
                                                      THEN @ + 1 ELSE @]
  OBVIOUS
<1>4. /\ IngestForm(m) /\ m.pc = "row" /\ m.row = imp[f].row + 1 /\ m.zero = imp[f].zero
      /\ m.article = Inbox!Missing
  BY <1>2, <1>3 DEF Inbox!NextRow, IngestSound, IngestForm
<1>5. PICK ref : ref = IF Inbox!Article(f) \in named THEN {}
                       ELSE {Inbox!Write(f, Inbox!Article(f), Inbox!NoId)}
  OBVIOUS
<1>6. PICK n : n = imp[f].row
  OBVIOUS
<1>7. \A w \in ref : ItemOf(f, n, w) /\ w.box = row.box /\ w.article = Inbox!Article(f)
  BY <1>2, <1>5, <1>6 DEF Inbox!Write, ItemOf
<1>8. /\ imp' = [imp EXCEPT ![f] = m] /\ pending' = (pending \cup Inbox!RowBox(f)) \cup ref
      /\ UNCHANGED <<content, place, zeroed, runsFile, boxes, named, items, runs, lost, crashes>>
  BY <1>3, <1>5 DEF Inbox!PersistItemReference, Inbox!TakeRow, Inbox!files, Inbox!database
<1>9. /\ \A w \in Inbox!RowBox(f) : WriteSound(w)'
      /\ row.box # Inbox!NoBox => BoxLands(f, row.box)'
  BY <1>0, <1>1, <1>8, RowBoxLands
<1>10. \A w \in ref : WriteSound(w)'
  BY <1>1, <1>2, <1>6, <1>7, <1>8, ItemWriteSound DEF Built
<1>11. Ingestion(f, m)
  BY <1>2, <1>8, <1>9, <1>10 DEF Ingestion, InboxTypes, FileSound, Built
<1>12. row.article # Inbox!Missing => RefLands(f, row.article)'
  <2>1. ref # {} => \E w \in ref : w.article = Inbox!Article(f) /\ w.stage = "ref" /\ w.file = f
    BY <1>7 DEF ItemOf
  <2>2. ref = {} => Inbox!Article(f) \in named
    BY <1>5
  <2>. QED BY <1>2, <1>8, <2>1, <2>2 DEF RefLands, Sent
<1>13. RowLands(f, row)'
  <2>1. ~Brings(f, row)
    BY <1>0, <1>1, UnitsOfRow DEF Brings
  <2>2. ~Brings(f, row)'
    BY <1>8, <2>1 DEF Brings
  <2>. QED BY <1>9, <1>12, <2>2 DEF RowLands
<1>14. imp[f].row <= Len(content[f].rows) /\ imp[f].pc \in {"row", "write"} /\ place' = place
  BY <1>2, <1>8
<1>. QED BY <1>1, <1>4, <1>11, <1>13, <1>14, RowDone

LEMMA InboxChooses ==
  ASSUME InboxInv, NEW f \in Files, Inbox!ChooseIds(f)
  PROVE  InboxInv'
<1>0. Inbox!AtGoodRow(f) /\ Inbox!Units(f) > 0
  BY DEF Inbox!ChooseIds
<1>1. PICK row : row = content[f].rows[imp[f].row]
  OBVIOUS
<1>2. /\ InboxTypes /\ FileSound(f) /\ IngestSound(f) /\ Landed(f)
      /\ imp[f].pc = "row" /\ place[f] = "inbox" /\ Built(f)
      /\ imp[f].row \in 1..Len(content[f].rows) /\ Len(content[f].rows) \in Nat
      /\ row = Inbox!Current(f) /\ row.box \in Boxes \cup {Inbox!NoBox}
      /\ row.article \in Inbox!Articles \cup {Inbox!Missing}
      /\ row.id \in Inbox!Ids \cup {Inbox!NoId}
      /\ Inbox!Article(f) \in Inbox!Articles
      /\ row.article # Inbox!Missing => Inbox!Article(f) = row.article
      /\ Inbox!Units(f) \in Nat
  BY <1>0, <1>1, GoodRow, UnitsOfRow
<1>3. PICK base \in Inbox!BaseIds(f) :
        LET minted == Inbox!Minted(f, Inbox!Units(f) - Len(base))
        IN /\ \A i \in DOMAIN minted : minted[i] \in Inbox!Ids
           /\ Inbox!TakeRow(f, [imp[f] EXCEPT !.pc = "write", !.article = Inbox!Article(f),
                                              !.ids = base \o minted,
                                              !.sequence[Inbox!Article(f)] = @ + Len(minted)])
  BY DEF Inbox!ChooseIds
<1>4. /\ base \in Seq(Inbox!Ids) /\ Len(base) \in {0, 1}
      /\ row.id # Inbox!NoId => base = <<row.id>>
  <2>1. CASE row.id # Inbox!NoId
    <3>1. base = <<row.id>> /\ row.id \in Inbox!Ids
      BY <1>2, <2>1 DEF Inbox!BaseIds
    <3>. QED BY <3>1
  <2>2. CASE row.id = Inbox!NoId /\ base # <<>>
    <3>1. PICK id \in Inbox!Ids : base = <<id>>
      BY <1>2, <2>2 DEF Inbox!BaseIds, Inbox!ItemsOf
    <3>. QED BY <2>2, <3>1
  <2>3. CASE base = <<>> /\ row.id = Inbox!NoId
    BY <2>3
  <2>. QED BY <2>1, <2>2, <2>3
<1>5. PICK minted : minted = Inbox!Minted(f, Inbox!Units(f) - Len(base))
  OBVIOUS
<1>6. minted \in Seq(Inbox!Ids) /\ Len(minted) = Inbox!Units(f) - Len(base)
  <2>0. Inbox!Units(f) - Len(base) \in Nat
    <3>1. PICK u \in Nat : u = Inbox!Units(f) /\ u > 0
      BY <1>0, <1>2
    <3>2. PICK k \in {0, 1} : k = Len(base)
      BY <1>4
    <3>3. u - k \in Nat
      BY <3>1
    <3>. QED BY <3>1, <3>2, <3>3
  <2>1. PICK n \in Nat : n = Inbox!Units(f) - Len(base)
    BY <2>0
  <2>2. DOMAIN minted = 1..n /\ minted = [i \in 1..n |-> minted[i]]
    BY <1>5, <2>1 DEF Inbox!Minted
  <2>3. minted \in [1..n -> Inbox!Ids]
    BY <1>3, <1>5, <2>2
  <2>. QED BY <2>1, <2>3
<1>7. PICK ids : ids = base \o minted
  OBVIOUS
<1>8. /\ ids \in Seq(Inbox!Ids) /\ ids # <<>>
      /\ row.id # Inbox!NoId => Head(ids) = row.id
  <2>1. ids \in Seq(Inbox!Ids) /\ Len(ids) = Len(base) + Len(minted)
    BY <1>4, <1>6, <1>7, ConcatProperties
  <2>2. Len(ids) > 0
    BY <1>0, <1>2, <1>4, <1>6, <2>1
  <2>3. row.id # Inbox!NoId => ids[1] = row.id
    BY <1>4, <1>6, <1>7, ConcatProperties, <2>2, <2>1
  <2>. QED BY <2>1, <2>2, <2>3
<1>9. PICK m : m = [[imp[f] EXCEPT !.pc = "write", !.article = Inbox!Article(f), !.ids = ids,
                                    !.sequence[Inbox!Article(f)] = @ + Len(minted)]
                     EXCEPT !.minted = IF Inbox!Named(f) = Inbox!Missing THEN @ + 1 ELSE @]
  OBVIOUS
<1>10. /\ IngestForm(m) /\ m.pc = "write" /\ m.row = imp[f].row /\ m.zero = imp[f].zero
       /\ m.article = Inbox!Article(f) /\ m.ids = ids
  BY <1>2, <1>9 DEF IngestSound, IngestForm
<1>11. /\ imp' = [imp EXCEPT ![f] = m] /\ pending' = pending \cup Inbox!RowBox(f)
       /\ UNCHANGED <<content, place, zeroed, runsFile, boxes, named, items, runs, lost, crashes>>
  <2>1. imp' = [imp EXCEPT ![f] = m]
    BY <1>3, <1>5, <1>7, <1>9 DEF Inbox!TakeRow
  <2>2. /\ pending' = pending \cup Inbox!RowBox(f)
        /\ UNCHANGED <<content, place, zeroed, runsFile, boxes, named, items, runs, lost, crashes>>
    BY DEF Inbox!ChooseIds, Inbox!files, Inbox!database
  <2>. QED BY <2>1, <2>2
<1>12. /\ \A w \in Inbox!RowBox(f) : WriteSound(w)'
       /\ row.box # Inbox!NoBox => BoxLands(f, row.box)'
  BY <1>0, <1>1, <1>11, RowBoxLands
<1>13. Ingestion(f, m)
  BY <1>2, <1>11, <1>12 DEF Ingestion, InboxTypes, FileSound, Built
<1>14. Grows(f)
  BY <1>13 DEF Ingestion, Grows, Sent
<1>15. imp'[f] = m
  BY <1>2, <1>11 DEF InboxTypes
<1>16. Begun(f, row)'
  <2>1. /\ imp'[f].row <= Len(content'[f].rows) /\ imp'[f].article = Inbox!Article(f)
        /\ imp'[f].ids = ids /\ content' = content
    BY <1>2, <1>10, <1>11, <1>15
  <2>2. row.box # Inbox!BadBox
    BY <1>0, <1>2 DEF Inbox!AtGoodRow
  <2>. QED BY <1>2, <1>8, <1>12, <2>1, <2>2 DEF Begun, Brings
<1>17. ASSUME NEW i \in 1..(imp[f].row - 1), NEW r, r = content[f].rows[i]
       PROVE RowLands(f, r)'
  <2>1. RowLands(f, r) /\ r.id \in Inbox!Ids \cup {Inbox!NoId}
    BY <1>2, <1>17, RowFields DEF Landed
  <2>. QED BY <1>11, <1>14, <2>1, RowKept
<1>18. Landed(f)'
  <2>1. content'[f].rows[imp'[f].row] = row /\ imp'[f].row = imp[f].row /\ content' = content
    BY <1>1, <1>10, <1>11, <1>15
  <2>2. imp'[f].pc = "write" /\ place'[f] # "archived"
    BY <1>2, <1>10, <1>11, <1>15
  <2>. QED BY <1>16, <1>17, <2>1, <2>2 DEF Landed
<1>. QED BY <1>2, <1>10, <1>11, <1>13, <1>18, IngestionStep DEF IngestSound

LEMMA InboxPersists ==
  ASSUME InboxInv, NEW f \in Files, Inbox!PersistItem(f)
  PROVE  InboxInv'
<1>1. PICK row : row = content[f].rows[imp[f].row]
  OBVIOUS
<1>2. /\ InboxTypes /\ FileSound(f) /\ IngestSound(f) /\ Landed(f) /\ Begun(f, row)
      /\ imp[f].pc = "write" /\ place[f] = "inbox" /\ Built(f) /\ Len(content[f].rows) \in Nat
  BY <1>1, AtWork, LenProperties
     DEF InboxInv, InboxSound, FileSound, Landed, Inbox!PersistItem, Inbox!At
<1>3. imp[f].row \in 1..Len(content[f].rows)
  BY <1>2 DEF IngestSound, Begun
<1>4. PICK id : id = Head(imp[f].ids)
  OBVIOUS
<1>5. id \in Inbox!Ids
  BY <1>2, <1>4, HeadTailProperties DEF Begun
<1>6. PICK n : n = imp[f].row
  OBVIOUS
<1>7. PICK w : w = Inbox!Write(f, imp[f].article, id)
  OBVIOUS
<1>8. /\ ItemOf(f, n, w) /\ w.box = row.box /\ w.id = id /\ w.article = imp[f].article
      /\ w.stage = "ref" /\ w.file = f
  BY <1>1, <1>2, <1>5, <1>6, <1>7 DEF Inbox!Write, Inbox!Current, Inbox!Rows, ItemOf, Begun
<1>9. /\ pending' = pending \cup {w}
      /\ UNCHANGED <<content, place, zeroed, runsFile, boxes, named, items, runs, lost, crashes>>
  BY <1>4, <1>7 DEF Inbox!PersistItem, Inbox!files, Inbox!database
<1>10. row.box \in Boxes \cup {Inbox!NoBox} /\ row.id \in Inbox!Ids \cup {Inbox!NoId}
  BY <1>1, <1>2, <1>3, RowFields DEF Begun
<1>11. WriteSound(w)'
  BY <1>1, <1>2, <1>3, <1>6, <1>8, <1>9, <1>10, ItemWriteSound DEF Built
<1>12. Grows(f)
  BY <1>9 DEF Grows, Sent
<1>13. /\ row.article # Inbox!Missing => RefLands(f, row.article)'
       /\ row.box # Inbox!NoBox => BoxLands(f, row.box)'
       /\ Brings(f, row) => ItemLands(f, row.id)'
  <2>1. row.article # Inbox!Missing => RefLands(f, row.article)'
    BY <1>2, <1>8, <1>9 DEF RefLands, Sent, Begun
  <2>2. ItemLands(f, id)'
    BY <1>8, <1>9 DEF ItemLands, Sent
  <2>3. row.box # Inbox!NoBox => BoxLands(f, row.box)'
    BY <1>2, <1>12, LandsKept DEF Begun
  <2>4. Brings(f, row) => ItemLands(f, row.id)'
    <3>1. CASE id = row.id
      BY <2>2, <3>1
    <3>2. CASE id # row.id /\ Brings(f, row)
      <4>1. ItemLands(f, row.id) /\ row.id \in Inbox!Ids
        BY <1>2, <1>4, <1>10, <3>2 DEF Begun, Brings
      <4>. QED BY <1>12, <4>1, LandsKept
    <3>. QED BY <3>1, <3>2
  <2>. QED BY <2>1, <2>2, <2>3, <2>4
<1>14. CASE Len(imp[f].ids) = 1
  <2>1. PICK m : m = Inbox!NextRow(f)
    OBVIOUS
  <2>2. /\ IngestForm(m) /\ m.pc = "row" /\ m.row = imp[f].row + 1 /\ m.zero = imp[f].zero
        /\ m.article = Inbox!Missing
    BY <1>2, <2>1 DEF Inbox!NextRow, IngestSound, IngestForm
  <2>3. imp' = [imp EXCEPT ![f] = m]
    BY <1>14, <2>1 DEF Inbox!PersistItem
  <2>4. Ingestion(f, m)
    BY <1>2, <1>9, <1>11, <2>3 DEF Ingestion, InboxTypes, FileSound, Built
  <2>5. RowLands(f, row)'
    BY <1>9, <1>13 DEF RowLands, Brings
  <2>6. imp[f].row <= Len(content[f].rows) /\ imp[f].pc \in {"row", "write"} /\ place' = place
    BY <1>2, <1>3, <1>9
  <2>. QED BY <1>1, <2>2, <2>4, <2>5, <2>6, RowDone
<1>15. CASE Len(imp[f].ids) # 1
  <2>1. PICK m : m = [imp[f] EXCEPT !.ids = Tail(@)]
    OBVIOUS
  <2>2. /\ IngestForm(m) /\ m.pc = "write" /\ m.row = imp[f].row /\ m.zero = imp[f].zero
        /\ m.article = imp[f].article /\ m.ids = Tail(imp[f].ids)
    BY <1>2, <2>1 DEF IngestSound, IngestForm
  <2>3. imp' = [imp EXCEPT ![f] = m] /\ imp'[f] = m
    BY <1>2, <1>15, <2>1 DEF Inbox!PersistItem, InboxTypes
  <2>4. Ingestion(f, m)
    BY <1>2, <1>9, <1>11, <2>3 DEF Ingestion, InboxTypes, FileSound, Built
  <2>5. m.ids \in Seq(Inbox!Ids) /\ m.ids # <<>>
    <3>1. imp[f].ids \in Seq(Inbox!Ids) /\ imp[f].ids # <<>>
      BY <1>2 DEF Begun
    <3>2. m.ids \in Seq(Inbox!Ids) /\ Len(m.ids) = Len(imp[f].ids) - 1 /\ Len(imp[f].ids) \in Nat
      BY <2>2, <3>1, HeadTailProperties, LenProperties
    <3>3. Len(m.ids) # 0
      BY <1>15, <3>2
    <3>. QED BY <3>2, <3>3, EmptySeq
  <2>6. Begun(f, row)'
    <3>1. /\ imp'[f].row <= Len(content'[f].rows) /\ imp'[f].article = imp[f].article
          /\ imp'[f].ids = m.ids /\ content' = content
      BY <1>2, <1>3, <1>9, <2>2, <2>3
    <3>. QED BY <1>2, <1>13, <2>5, <3>1 DEF Begun, Brings
  <2>7. ASSUME NEW i \in 1..(imp[f].row - 1), NEW r, r = content[f].rows[i]
        PROVE RowLands(f, r)'
    <3>1. RowLands(f, r) /\ r.id \in Inbox!Ids \cup {Inbox!NoId}
      BY <1>2, <1>3, <2>7, RowFields DEF Landed
    <3>. QED BY <1>9, <1>12, <3>1, RowKept
  <2>8. Landed(f)'
    <3>1. content'[f].rows[imp'[f].row] = row /\ imp'[f].row = imp[f].row /\ content' = content
      BY <1>1, <1>9, <2>2, <2>3
    <3>2. imp'[f].pc = "write" /\ place'[f] # "archived"
      BY <1>2, <1>9, <2>2, <2>3
    <3>. QED BY <2>6, <2>7, <3>1, <3>2 DEF Landed
  <2>. QED BY <1>2, <1>9, <2>2, <2>4, <2>8, IngestionStep DEF IngestSound
<1>. QED BY <1>14, <1>15

LEMMA InboxCloses ==
  ASSUME InboxInv, NEW f \in Files, Inbox!IngestDeferredRuns(f) \/ Inbox!Archive(f)
  PROVE  InboxInv'
<1>1. /\ InboxTypes /\ FileSound(f) /\ IngestSound(f) /\ Landed(f)
      /\ imp[f].pc \in {"row", "archive"} /\ place[f] = "inbox" /\ Built(f)
      /\ Len(content[f].rows) \in Nat
  BY AtWork, LenProperties
     DEF InboxInv, InboxSound, FileSound, Inbox!IngestDeferredRuns, Inbox!Archive, Inbox!At
<1>2. \A i \in 1..Len(content[f].rows) : RowLands(f, content[f].rows[i])
  <2>1. CASE imp[f].pc = "archive"
    BY <1>1, <2>1 DEF Landed
  <2>2. CASE imp[f].pc = "row"
    <3>1. imp[f].row > Len(content[f].rows) /\ imp[f].row \in Nat
      BY <1>1, <2>2 DEF Inbox!IngestDeferredRuns, Inbox!Archive, Inbox!At, Inbox!Rows, IngestSound
    <3>2. 1..Len(content[f].rows) \subseteq 1..(imp[f].row - 1)
      BY <1>1, <3>1
    <3>. QED BY <1>1, <2>2, <3>2 DEF Landed
  <2>. QED BY <1>1, <2>1, <2>2
<1>3. PICK m : m = imp'[f]
  OBVIOUS
<1>4. /\ IngestForm(m) /\ m.row \in 1..(Len(content[f].rows) + 1)
      /\ m.article \in Inbox!Articles \cup {Inbox!Missing}
      /\ m.pc \in {"idle", "archive"} /\ (m.zero => content[f].zero)
      /\ m.pc = "idle" => m = Inbox!Idle
      /\ m.pc # "idle" => place'[f] = "inbox"
      /\ imp' = [imp EXCEPT ![f] = m]
      /\ place' = [place EXCEPT ![f] = place'[f]] /\ place'[f] \in {"inbox", "archived"}
      /\ UNCHANGED <<content, pending, boxes, named, items, lost, crashes>>
      /\ zeroed' \subseteq zeroed /\ runsFile' \subseteq runsFile
      /\ f \in zeroed' => place'[f] = "inbox"
      /\ runs' \subseteq Inbox!Articles
  <2>1. CASE Inbox!IngestDeferredRuns(f)
    <3>1. m = [imp[f] EXCEPT !.pc = "archive"] /\ imp' = [imp EXCEPT ![f] = m]
      BY <1>1, <1>3, <2>1 DEF Inbox!IngestDeferredRuns, InboxTypes
    <3>2. /\ IngestForm(m) /\ m.row = imp[f].row /\ m.article = imp[f].article
          /\ m.pc = "archive" /\ m.zero = imp[f].zero
      BY <1>1, <3>1 DEF IngestSound, IngestForm
    <3>3. /\ UNCHANGED <<content, place, zeroed, pending, boxes, named, items, lost, crashes>>
          /\ runsFile' \subseteq runsFile /\ runs' \subseteq runs \cup content[f].runs
      BY <2>1 DEF Inbox!IngestDeferredRuns
    <3>. QED BY <1>1, <3>1, <3>2, <3>3 DEF IngestSound, InboxTypes, FileSound
  <2>2. CASE Inbox!Archive(f)
    <3>1. m = Inbox!Idle /\ imp' = [imp EXCEPT ![f] = m]
      BY <1>1, <1>3, <2>2 DEF Inbox!Archive, InboxTypes
    <3>2. /\ IngestForm(m) /\ m.row = 1 /\ m.article = Inbox!Missing /\ m.pc = "idle" /\ ~m.zero
      BY <3>1 DEF Inbox!Idle, IngestForm
    <3>3. /\ UNCHANGED <<content, runsFile, pending, boxes, named, items, runs, lost, crashes>>
          /\ place' = [place EXCEPT ![f] = "archived"] /\ zeroed' = zeroed \ {f}
      BY <2>2 DEF Inbox!Archive, Inbox!database
    <3>. QED BY <1>1, <3>1, <3>2, <3>3 DEF InboxTypes
  <2>. QED BY <2>1, <2>2
<1>5. Ingestion(f, m)
  BY <1>1, <1>4 DEF Ingestion, InboxTypes, Built, Inbox!Places
<1>6. imp'[f] = m
  BY <1>3
<1>7. Grows(f)
  BY <1>4 DEF Grows, Sent
<1>8. ASSUME NEW i \in 1..Len(content[f].rows), NEW r, r = content[f].rows[i]
      PROVE RowLands(f, r)'
  BY <1>1, <1>2, <1>4, <1>7, <1>8, RowFields, RowKept
<1>9. Landed(f)'
  BY <1>4, <1>6, <1>8 DEF Landed
<1>. QED BY <1>4, <1>5, <1>9, IngestionStep

-----------------------------------------------------------------------------
(* What becomes of a write *)

LEMMA InboxSettles ==
  ASSUME InboxInv, NEW w \in pending,
         \/ Inbox!LandBox(w) \/ Inbox!LandReference(w) \/ Inbox!LandItem(w) \/ Inbox!DropBox(w)
  PROVE  InboxInv'
<1>1. InboxTypes /\ WriteSound(w) /\ w \in Inbox!Writes
  BY DEF InboxInv, InboxSound, WriteSound, Sent
<1>2. CASE Inbox!LandBox(w)
  <2>1. /\ w.stage = "box" /\ boxes' = boxes \cup {w.box} /\ pending' = pending \ {w}
        /\ UNCHANGED <<content, place, zeroed, runsFile, imp, named, items, runs, lost, crashes>>
    BY <1>2 DEF Inbox!LandBox, Inbox!files
  <2>2. w.box \in Boxes
    BY <1>1, <2>1 DEF WriteSound
  <2>3. \A f \in Files : Grows(f)
    BY <2>1 DEF Grows, Sent
  <2>4. InboxTypes' /\ Sent' \subseteq Sent /\ boxes \subseteq boxes'
    BY <1>1, <2>1, <2>2 DEF InboxTypes, Sent
  <2>. QED BY <2>1, <2>3, <2>4, DatabaseStep
<1>3. CASE Inbox!DropBox(w)
  <2>1. /\ crashes < MaxCrashes /\ crashes' = crashes + 1
        /\ pending' = pending \ {w} /\ lost' = lost \cup {w}
        /\ UNCHANGED <<content, place, zeroed, runsFile, imp, boxes, named, items, runs>>
    BY <1>3 DEF Inbox!DropBox, Inbox!files, Inbox!database
  <2>2. Sent' = Sent
    BY <2>1 DEF Sent
  <2>3. \A f \in Files : Grows(f)
    BY <2>1, <2>2 DEF Grows
  <2>4. InboxTypes'
    BY <1>1, <2>1, InboxConstants DEF InboxTypes
  <2>. QED BY <2>1, <2>2, <2>3, <2>4, DatabaseStep
<1>4. CASE Inbox!LandReference(w)
  <2>1. PICK v : v = [w EXCEPT !.stage = "item"]
    OBVIOUS
  <2>2. /\ w.stage = "ref" /\ named' = named \cup {w.article}
        /\ pending' = IF w.id = Inbox!NoId THEN pending \ {w} ELSE (pending \ {w}) \cup {v}
        /\ UNCHANGED <<content, place, zeroed, runsFile, imp, boxes, items, runs, lost, crashes>>
    BY <1>4, <2>1 DEF Inbox!LandReference, Inbox!files
  <2>3. w.article \in Inbox!Articles /\ w.id \in Inbox!Ids \cup {Inbox!NoId}
    BY <1>1, <2>2 DEF WriteSound, Inbox!Writes
  <2>4. /\ v \in Inbox!Writes /\ v.stage = "item" /\ v.file = w.file /\ v.id = w.id
        /\ v.article = w.article /\ v.row = w.row /\ v.box = w.box
    BY <1>1, <2>1 DEF Inbox!Writes
  <2>5. w.id # Inbox!NoId => WriteSound(v)'
    BY <1>1, <2>2, <2>3, <2>4 DEF WriteSound, Built
  <2>6. \A f \in Files : Grows(f)
    BY <2>2, <2>3, <2>4, NoSuchId DEF Grows, Sent
  <2>7. InboxTypes' /\ \A u \in Sent' : u \in Sent \/ WriteSound(u)'
    BY <1>1, <2>2, <2>3, <2>5 DEF InboxTypes, Sent
  <2>. QED BY <2>2, <2>6, <2>7, DatabaseStep
<1>5. CASE Inbox!LandItem(w)
  <2>1. /\ w.stage = "item" /\ (w.box = Inbox!NoBox \/ w.box \in boxes)
        /\ items' = [items EXCEPT ![w.id] = <<w.file, w.row>>] /\ pending' = pending \ {w}
        /\ UNCHANGED <<content, place, zeroed, runsFile, imp, boxes, named, runs, lost, crashes>>
    BY <1>5 DEF Inbox!LandItem, Inbox!Placeable, Inbox!files
  <2>2. /\ w.id \in Inbox!Ids /\ w.file \in Files /\ Built(w.file)
        /\ w.row \in 1..Len(content[w.file].rows) /\ w.row \in Nat
        /\ w.box = content[w.file].rows[w.row].box
    BY <1>1, <2>1 DEF WriteSound, Inbox!Writes
  <2>3. <<w.file, w.row>> # Inbox!NoOne
    <3>1. w.row # 0
      BY <2>2 DEF InboxInv, InboxSound, FileSound
    <3>. QED BY <3>1 DEF Inbox!NoOne
  <2>4. items'[w.id] = <<w.file, w.row>> /\ \A id \in Inbox!Ids \ {w.id} : items'[id] = items[id]
    BY <1>1, <2>1, <2>2 DEF InboxTypes
  <2>5. \A f \in Files : Grows(f)
    BY <2>1, <2>3, <2>4 DEF Grows, Sent
  <2>6. ItemSound(w.id)'
    BY <2>1, <2>2, <2>4 DEF ItemSound, Built, Inbox!WriterOf
  <2>7. InboxTypes'
    BY <1>1, <2>1, <2>2 DEF InboxTypes
  <2>8. \A id \in Inbox!Ids : items'[id] = items[id] \/ ItemSound(id)'
    BY <2>4, <2>6
  <2>. QED BY <2>1, <2>5, <2>7, <2>8, DatabaseStep DEF Sent
<1>. QED BY <1>2, <1>3, <1>4, <1>5

LEMMA InboxRestarts ==
  ASSUME InboxInv, Inbox!Restart
  PROVE  InboxInv'
<1>1. /\ crashes' = Inbox!Min({crashes + 1, MaxCrashes})
      /\ lost' = lost \cup {w \in pending : place[w.file] \notin {"inbox", "removed"}}
      /\ pending' = {} /\ zeroed' = {} /\ imp' = [f \in Files |-> Inbox!Idle]
      /\ UNCHANGED <<content, place, runsFile, boxes, named, items, runs>>
  BY DEF Inbox!Restart, Inbox!database
<1>2. InboxTypes
  BY DEF InboxInv, InboxSound
<1>3. crashes' \in 0..MaxCrashes
  <2>1. PICK n \in Nat : n = crashes + 1
    BY <1>2, InboxConstants DEF InboxTypes
  <2>2. \E x \in {n, MaxCrashes} : \A y \in {n, MaxCrashes} : x =< y
    BY InboxConstants
  <2>3. Inbox!Min({n, MaxCrashes}) \in 0..MaxCrashes
    BY <2>2, InboxConstants DEF Inbox!Min
  <2>. QED BY <1>1, <2>1, <2>3
<1>4. InboxTypes' /\ Sent' \subseteq Sent
  BY <1>1, <1>2, <1>3 DEF InboxTypes, Sent
<1>5. ASSUME NEW f \in Files PROVE FileSound(f)' /\ IngestSound(f)' /\ Landed(f)'
  <2>1. FileSound(f) /\ IngestSound(f) /\ Landed(f) /\ Len(content[f].rows) \in Nat
    BY LenProperties DEF InboxInv, InboxSound, FileSound
  <2>2. imp'[f] = Inbox!Idle
    BY <1>1
  <2>3. /\ IngestForm(Inbox!Idle) /\ Inbox!Idle.pc = "idle" /\ Inbox!Idle.row = 1
        /\ Inbox!Idle.article = Inbox!Missing /\ ~Inbox!Idle.zero
    BY DEF IngestForm, Inbox!Idle
  <2>4. FileSound(f)'
    BY <1>1, <2>1 DEF FileSound
  <2>5. IngestSound(f)'
    BY <1>1, <2>1, <2>2, <2>3 DEF IngestSound
  <2>6. ASSUME place[f] = "archived", NEW i \in 1..Len(content[f].rows), NEW r,
               r = content[f].rows[i]
        PROVE  RowLands(f, r)'
    <3>1. Grows(f)
      BY <1>1, <2>6 DEF Grows, Sent
    <3>2. RowLands(f, r) /\ r.id \in Inbox!Ids \cup {Inbox!NoId}
      BY <2>1, <2>6, RowFields DEF Landed
    <3>. QED BY <1>1, <3>1, <3>2, RowKept
  <2>7. Landed(f)'
    BY <1>1, <2>2, <2>3, <2>6 DEF Landed
  <2>. QED BY <2>4, <2>5, <2>7
<1>. QED BY <1>1, <1>4, <1>5, SoundKept DEF InboxInv, Built

-----------------------------------------------------------------------------
(* The backup *)

\* What the export finds of an item is a row, and its box is there.
LEMMA ExportedRowTyped ==
  ASSUME InboxInv, NEW id \in Inbox!Ids, Inbox!Written(id)
  PROVE  Inbox!ExportedRow(id) \in Inbox!Row
<1>1. MaxSequence \in Nat \ {0} /\ id[1] \in Inbox!Articles
  BY InboxConstants DEF Inbox!Ids
<1>2. CASE items[id] = Inbox!Before
  BY <1>1, <1>2 DEF Inbox!ExportedRow, Inbox!Row
<1>3. CASE items[id] # Inbox!Before
  <2>1. PICK f \in Files : \E n \in 1..Len(content[f].rows) :
          content[f].rows[n] = Inbox!WriterOf(id)
    BY <1>3 DEF InboxInv, InboxSound, ItemSound, Inbox!Written, Inbox!WriterOf
  <2>2. /\ Inbox!WriterOf(id).units \in 0..MaxSequence /\ Inbox!WriterOf(id).bulk \in BOOLEAN
        /\ Inbox!WriterOf(id).box \in Boxes \cup {Inbox!NoBox, Inbox!BadBox}
    BY <2>1, RowFields DEF InboxInv, InboxSound
  <2>3. (IF Inbox!WriterOf(id).bulk THEN Inbox!WriterOf(id).units ELSE 1) \in 0..MaxSequence
    BY <1>1, <2>2
  <2>. QED BY <1>1, <1>3, <2>2, <2>3 DEF Inbox!ExportedRow, Inbox!Row
<1>. QED BY <1>2, <1>3

LEMMA IdsFinite == IsFiniteSet(Inbox!Ids)
<1>1. IsFiniteSet(1..MaxNamed) /\ IsFiniteSet(1..MaxSequence)
  BY InboxConstants, FS_Interval
<1>. QED BY <1>1, FS_Product DEF Inbox!Ids, Inbox!Articles

LEMMA InboxCardinality == \A S : Inbox!Cardinality(S) = Cardinality(S)
BY DEF Inbox!Cardinality, Cardinality

\* In the order of the export every place is that of one item.
LEMMA EveryPlaceIsTaken ==
  ASSUME NEW n \in 1..Cardinality(Inbox!Listed)
  PROVE  \E id \in Inbox!Listed : Cardinality(Inbox!Earlier(id)) = n - 1
<1>. DEFINE L == Inbox!Listed
            Place == [id \in L |-> Cardinality(Inbox!Earlier(id)) + 1]
<1>1. L \subseteq Inbox!Ids /\ IsFiniteSet(L) /\ Cardinality(L) \in Nat
  BY IdsFinite, FS_Subset, FS_CardinalityType DEF Inbox!Listed
<1>2. \A id \in L : id[1] \in Nat /\ id[2] \in Nat /\ id = <<id[1], id[2]>>
  BY <1>1, InboxConstants DEF Inbox!Ids, Inbox!Articles
<1>3. ASSUME NEW id \in L
      PROVE  /\ Inbox!Earlier(id) \subseteq L \ {id} /\ IsFiniteSet(Inbox!Earlier(id))
             /\ Cardinality(Inbox!Earlier(id)) \in 0..Cardinality(L) - 1
  <2>1. Inbox!Earlier(id) \subseteq L \ {id}
    BY <1>2 DEF Inbox!Earlier, Inbox!InOrder
  <2>2. IsFiniteSet(L \ {id}) /\ Cardinality(L \ {id}) = Cardinality(L) - 1
    BY <1>1, FS_RemoveElement
  <2>3. /\ IsFiniteSet(Inbox!Earlier(id)) /\ Cardinality(Inbox!Earlier(id)) \in Nat
        /\ Cardinality(Inbox!Earlier(id)) <= Cardinality(L \ {id})
    BY <2>1, <2>2, FS_Subset, FS_CardinalityType
  <2>. QED BY <1>1, <2>1, <2>2, <2>3
<1>4. ASSUME NEW a \in L, NEW b \in L, Inbox!InOrder(a, b) PROVE Place[a] # Place[b]
  <2>1. Inbox!Earlier(a) \cup {a} \subseteq Inbox!Earlier(b) /\ a \notin Inbox!Earlier(a)
    BY <1>2, <1>3, <1>4 DEF Inbox!Earlier, Inbox!InOrder
  <2>2. Cardinality(Inbox!Earlier(a) \cup {a}) = Cardinality(Inbox!Earlier(a)) + 1
    BY <1>3, <2>1, FS_AddElement
  <2>3. Cardinality(Inbox!Earlier(a)) + 1 <= Cardinality(Inbox!Earlier(b))
    BY <1>3, <2>1, <2>2, FS_Subset
  <2>. QED BY <1>3, <2>3
<1>5. \A a, b \in L : a # b => Inbox!InOrder(a, b) \/ Inbox!InOrder(b, a)
  BY <1>2 DEF Inbox!InOrder
<1>6. Place \in [L -> 1..Cardinality(L)]
  BY <1>1, <1>3
<1>7. Place \in Injection(L, 1..Cardinality(L))
  <2>. HIDE DEF Place
  <2>1. \A a, b \in L : Place[a] = Place[b] => a = b
    BY <1>4, <1>5
  <2>. QED BY <1>6, <2>1 DEF Injection, IsInjective
<1>8. IsFiniteSet(1..Cardinality(L)) /\ Cardinality(1..Cardinality(L)) = Cardinality(L)
  BY <1>1, FS_Interval
<1>9. Place \in Surjection(L, 1..Cardinality(L))
  BY <1>7, <1>8, FS_Injection
<1>10. PICK id \in L : Place[id] = n
  BY <1>9 DEF Surjection
<1>. QED BY <1>3, <1>10

LEMMA ExportedRowsTyped == InboxInv => Inbox!ExportedRows \in Seq(Inbox!Row)
<1>. SUFFICES ASSUME InboxInv PROVE Inbox!ExportedRows \in Seq(Inbox!Row)
  OBVIOUS
<1>1. PICK k \in Nat : k = Cardinality(Inbox!Listed)
  BY IdsFinite, FS_Subset, FS_CardinalityType DEF Inbox!Listed
<1>. DEFINE Nth(n) == CHOOSE id \in Inbox!Listed : Inbox!Cardinality(Inbox!Earlier(id)) = n - 1
<1>2. \A n \in 1..k : Nth(n) \in Inbox!Listed
  BY <1>1, EveryPlaceIsTaken, InboxCardinality
<1>3. Inbox!ExportedRows = [n \in 1..k |-> Inbox!ExportedRow(Nth(n))]
  <2>1. Inbox!Cardinality(Inbox!Listed) = k
    BY <1>1, InboxCardinality
  <2>. QED BY <2>1 DEF Inbox!ExportedRows
<1>. HIDE DEF Nth
<1>4. \A n \in 1..k : Inbox!ExportedRow(Nth(n)) \in Inbox!Row
  BY <1>2, ExportedRowTyped DEF Inbox!Listed
<1>. QED BY <1>3, <1>4

\* No ingestion, no write and no item has to do with a backup that is not built.
LEMMA InboxExports ==
  ASSUME InboxInv, NEW b \in Backups, Inbox!Export(b)
  PROVE  InboxInv'
<1>1. PICK c : c = content'[b]
  OBVIOUS
<1>2. /\ InboxTypes /\ b \in Files /\ FileSound(b) /\ IngestSound(b)
      /\ Inbox!ExportedRows \in Seq(Inbox!Row)
  BY InboxConstants, ExportedRowsTyped DEF InboxInv, InboxSound
<1>3. /\ ~Built(b) /\ content' = [content EXCEPT ![b] = c]
      /\ \/ c = [content[b] EXCEPT !.rows = Inbox!ExportedRows]
         \/ c = [content[b] EXCEPT !.boxes = boxes]
         \/ c = [content[b] EXCEPT !.runs = runs]
      /\ place' = [place EXCEPT ![b] = place'[b]] /\ place'[b] \in {"items", "boxes", "offered"}
      /\ UNCHANGED <<zeroed, runsFile, imp, pending, boxes, named, items, runs, lost, crashes>>
  <2>1. CASE Inbox!ExportItems(b)
    BY <1>1, <1>2, <2>1 DEF Inbox!ExportItems, Inbox!database, Built, InboxTypes
  <2>2. CASE Inbox!ExportBoxes(b)
    BY <1>1, <1>2, <2>2 DEF Inbox!ExportBoxes, Inbox!database, Built, InboxTypes
  <2>3. CASE Inbox!ExportRuns(b)
    BY <1>1, <1>2, <2>3 DEF Inbox!ExportRuns, Inbox!database, Built, InboxTypes
  <2>. QED BY <2>1, <2>2, <2>3 DEF Inbox!Export
<1>4. /\ UploadForm(c) /\ c.rows \in Seq(Inbox!Row) /\ c.boxes \subseteq Boxes
      /\ c.runs \subseteq Inbox!Articles /\ Len(c.rows) \in Nat
  <2>1. /\ UploadForm(c) /\ c.rows \in {content[b].rows, Inbox!ExportedRows}
        /\ c.boxes \in {content[b].boxes, boxes} /\ c.runs \in {content[b].runs, runs}
    BY <1>2, <1>3 DEF FileSound, UploadForm
  <2>2. c.rows \in Seq(Inbox!Row)
    BY <1>2, <2>1 DEF FileSound
  <2>. QED BY <1>2, <2>1, <2>2, LenProperties DEF FileSound, InboxTypes
<1>5. InboxTypes'
  BY <1>2, <1>3 DEF InboxTypes, Inbox!Places
<1>6. \A g \in Files \ {b} : content'[g] = content[g] /\ place'[g] = place[g]
  BY <1>2, <1>3 DEF InboxTypes
<1>7. content'[b] = c /\ imp[b] = Inbox!Idle /\ b \notin zeroed /\ place'[b] # "archived"
  BY <1>1, <1>2, <1>3 DEF Built, IngestSound, FileSound
<1>8. FileSound(b)' /\ IngestSound(b)' /\ Landed(b)'
  <2>1. /\ IngestForm(Inbox!Idle) /\ Inbox!Idle.pc = "idle" /\ Inbox!Idle.row = 1
        /\ Inbox!Idle.article = Inbox!Missing /\ ~Inbox!Idle.zero
    BY DEF IngestForm, Inbox!Idle
  <2>2. FileSound(b)'
    BY <1>3, <1>4, <1>7 DEF FileSound
  <2>3. imp'[b] = Inbox!Idle
    BY <1>3, <1>7
  <2>4. IngestSound(b)'
    BY <1>4, <1>7, <2>1, <2>3 DEF IngestSound
  <2>5. Landed(b)'
    BY <1>7, <2>1, <2>3 DEF Landed
  <2>. QED BY <2>2, <2>4, <2>5
<1>9. ASSUME NEW g \in Files \ {b} PROVE FileSound(g)' /\ IngestSound(g)' /\ Landed(g)'
  <2>1. FileSound(g)' /\ IngestSound(g)'
    BY <1>3, <1>6 DEF InboxInv, InboxSound, FileSound, IngestSound
  <2>2. Grows(g)
    BY <1>3 DEF Grows, Sent
  <2>3. Landed(g)'
    BY <1>3, <1>6, <2>2, LandedKept DEF InboxInv, InboxSound
  <2>. QED BY <2>1, <2>3
<1>10. ASSUME NEW w \in Sent PROVE WriteSound(w)'
  <2>1. WriteSound(w) /\ w.file \in Files \ {b}
    BY <1>3 DEF InboxInv, InboxSound, WriteSound, Inbox!Writes
  <2>. QED BY <1>6, <2>1 DEF WriteSound, Built
<1>11. ASSUME NEW id \in Inbox!Ids PROVE ItemSound(id)'
  <2>1. CASE items[id] \in {Inbox!Before, Inbox!NoOne}
    BY <1>3, <2>1 DEF ItemSound
  <2>2. CASE items[id] \notin {Inbox!Before, Inbox!NoOne}
    <3>1. ItemSound(id) /\ items[id][1] \in Files \ {b}
      BY <1>3, <2>2 DEF InboxInv, InboxSound, ItemSound
    <3>. QED BY <1>3, <1>6, <3>1 DEF ItemSound, Built, Inbox!WriterOf
  <2>. QED BY <2>1, <2>2
<1>12. Sent' = Sent
  BY <1>3 DEF Sent
<1>. QED BY <1>5, <1>8, <1>9, <1>10, <1>11, <1>12 DEF InboxInv, InboxSound

-----------------------------------------------------------------------------
LEMMA InboxStep == InboxInv /\ Inbox!Next => InboxInv'
<1>. SUFFICES ASSUME InboxInv, Inbox!Next PROVE InboxInv'
  OBVIOUS
<1>1. ASSUME NEW f \in Files, Inbox!Ingest(f) PROVE InboxInv'
  BY <1>1, InboxOpens, InboxSkips, InboxPersistsReference, InboxChooses, InboxPersists, InboxCloses
     DEF Inbox!Ingest
<1>2. ASSUME NEW w \in pending, Inbox!Settle(w) PROVE InboxInv'
  BY <1>2, InboxSettles, InboxRestarts DEF Inbox!Settle, Inbox!RejectItem
<1>3. CASE Inbox!Fault
  BY <1>3, InboxSettles, InboxRestarts, InboxOpens DEF Inbox!Fault, Inbox!Crash
<1>. QED BY <1>1, <1>2, <1>3, InboxUploads, InboxExports DEF Inbox!Next, Inbox!Progress

LEMMA InboxStutters == InboxInv /\ UNCHANGED inbox => InboxInv'
BY DEF inbox, InboxInv, InboxSound, InboxTypes, FileSound, IngestSound, Sent, WriteSound, ItemSound,
       Landed, RowLands, Begun, Brings, BoxLands, RefLands, ItemLands, Built, Inbox!WriterOf

LEMMA InboxHolds == MCSpec => [](flow = "import" => InboxInv)
<1>1. MCInit => (flow = "import" => InboxInv)
  BY InboxInit DEF MCInit
<1>2. (flow = "import" => InboxInv) /\ [MCNext]_intake => (flow = "import" => InboxInv)'
  <2>. SUFFICES ASSUME flow = "import" => InboxInv, [MCNext]_intake, flow' = "import"
                PROVE  InboxInv'
    OBVIOUS
  <2>1. flow = "import" /\ InboxInv
    BY DEF MCNext, intake
  <2>2. CASE Inbox!Next
    BY <2>1, <2>2, InboxStep
  <2>3. CASE UNCHANGED inbox
    BY <2>1, <2>3, InboxStutters
  <2>. QED BY <2>1, <2>2, <2>3 DEF MCNext, intake
<1>. QED BY <1>1, <1>2, PTL DEF MCSpec

-----------------------------------------------------------------------------
(* What the watcher, the importer and the export keep in memory fits the files and the
   database: an ingestion is at a row of its file, options are registered only for files
   in the inbox, a backup holds rows of what was stored, and an item's box has a row. *)
THEOREM InboxIsTyped == MCSpec => []InboxTyped
<1>1. (flow = "import" => InboxInv) => InboxTyped
  BY InboxSafe DEF InboxTyped
<1>. QED BY <1>1, InboxHolds, PTL

(* The archive means done, for any files, however they are cut into rows, uploaded twice,
   ingested side by side, and read again after crashes: what the rows of an archived file
   ask for is in the database or on its way, unless a fault took the write. *)
THEOREM ArchivedIsLanded == MCSpec => []ArchivedRowsLand
<1>1. (flow = "import" => InboxInv) => ArchivedRowsLand
  BY InboxSafe DEF ArchivedRowsLand
<1>. QED BY <1>1, InboxHolds, PTL

=============================================================================
