------------------------------- MODULE Placement -------------------------------
(***************************************************************************)
(* Putting things away with the camera: PlacementScanView and QrScannerPage *)
(* call each other by navigation.  The view opens the scanner, the scanner  *)
(* comes back with what it decoded, the view looks the thing up, offers to  *)
(* move it here and opens the scanner again; at the end what was not        *)
(* scanned is offered for removal.  Each visit is an entry of the browser's *)
(* history and a new instance of its component; what a component awaits     *)
(* goes on after it is unmounted, and then still navigates, writes the      *)
(* sessionStorage and sends requests.                                       *)
(***************************************************************************)
EXTENDS Naturals, Sequences, FiniteSets

CONSTANTS Things,       \* items (or boxes) with a label
          MaxHistory,   \* bound on the entries of the history that are remembered
          MaxRequests   \* bound on the requests under way

VARIABLES mode,      \* "items" into a box, or "boxes" onto a shelf
          entries,   \* history: the page of an entry and the state it carries
          view,      \* the mounted PlacementScanView
          scanner,   \* the mounted QrScannerPage
          requests,  \* what is awaited, with the instance that awaits it
          returns,   \* decoded, and not yet returned to the view
          scanned,   \* sessionStorage: what was confirmed
          where,     \* where the server keeps a thing
          anew,      \* the set was emptied since the view was opened
          walk       \* what was confirmed, and what of it before the list was drawn
vars == <<mode, entries, view, scanner, requests, returns, scanned, where, anew, walk>>

Nothing == "nothing"
Finish == "__finish__"
Entry(page, carries) == [page |-> page, carries |-> carries]
Current == entries[Len(entries)]
On(page) == Current.page = page

Unused == [handled |-> Nothing, warning |-> Nothing, processing |-> FALSE,
           message |-> FALSE, reconcile |-> [t \in Things |-> Nothing]]
Listing(v) == \E t \in Things : v.reconcile[t] # Nothing
Ask(step, t, rest) ==
  [step |-> step, of |-> t, rest |-> rest, live |-> TRUE]

\* A visit without a scan starts with an empty set.
Clears(qr) == mode = "items" /\ qr = Nothing

\* Wrong variant: only a look-up records.
addOnLookup(step, t) == IF mode = "items" /\ step = "lookup" THEN scanned \cup {t} ELSE scanned

\* What was found here, or moved here, is recorded.
addScanned(step, t) == IF mode = "items" THEN scanned \cup {t} ELSE scanned

-----------------------------------------------------------------------------
(* Navigation *)

finishInventory(v, awaited) ==
  IF mode = "items"
  THEN /\ view' = [v EXCEPT !.processing = TRUE, !.message = FALSE]
       /\ requests' = awaited \cup {Ask("finish", Nothing, {})}
  ELSE /\ view' = v
       /\ requests' = awaited \cup {Ask("back", Nothing, {})}

\* The history becomes es.  Another route mounts its page anew, the same one
\* keeps it; the view handles what the entry carries once and replaces it.
Arrive(es, stays, v, awaited, kept) ==
  LET new == es[Len(es)]
      qr == new.carries
      base == IF stays THEN v ELSE Unused
      left == IF stays THEN awaited ELSE {[r EXCEPT !.live = FALSE] : r \in awaited}
      handles == new.page = "placement" /\ qr # Nothing /\ base.handled # qr
  IN /\ entries' = IF handles THEN [es EXCEPT ![Len(es)].carries = Nothing] ELSE es
     /\ scanner' = IF new.page # "scan" THEN "closed"
                   ELSE IF stays THEN scanner ELSE "scanning"
     /\ scanned' = IF new.page = "placement" /\ ~stays /\ Clears(qr) THEN {} ELSE kept
     /\ anew' = (\/ anew
                 \/ scanned # {} /\ kept = {}
                 \/ new.page = "placement" /\ ~stays /\ qr = Nothing /\ mode = "items")
     /\ IF ~handles THEN view' = base /\ requests' = left
        ELSE IF qr = Finish
        THEN finishInventory([base EXCEPT !.handled = Finish], left)
        ELSE /\ view' = [base EXCEPT !.handled = qr, !.processing = TRUE, !.message = FALSE]
             /\ requests' = left \cup {Ask("lookup", qr, {})}
     /\ Cardinality(requests') <= MaxRequests

\* The oldest entries are forgotten: how the operator leaves them is not modelled.
Recent(es) == SubSeq(es, IF Len(es) > MaxHistory THEN 2 ELSE 1, Len(es))

Go(entry, awaited, kept) ==
  Arrive(Recent(Append(entries, entry)), On(entry.page), view, awaited, kept)

GoBack(awaited, kept) ==
  LET es == SubSeq(entries, 1, Len(entries) - 1)
  IN Arrive(es, On(es[Len(es)].page), view, awaited, kept)

navigateToScanner(awaited, kept) == Go(Entry("scan", Nothing), awaited, kept)

-----------------------------------------------------------------------------
(* The scanner *)

handleDecoded(t) ==
  /\ On("scan") /\ scanner = "scanning" /\ t \notin returns
  /\ scanner' = "stopped" /\ returns' = returns \cup {t}
  /\ UNCHANGED <<mode, entries, view, requests, scanned, where, anew, walk>>

\* No camera, a code of another kind, or the detector fails.
ScanError ==
  /\ On("scan") /\ scanner = "scanning"
  /\ scanner' = "stopped"
  /\ UNCHANGED <<mode, entries, view, requests, returns, scanned, where, anew, walk>>

handleRetry ==
  /\ On("scan") /\ scanner # "scanning"
  /\ scanner' = "scanning"
  /\ UNCHANGED <<mode, entries, view, requests, returns, scanned, where, anew, walk>>

\* 280 ms after the scan was logged, whatever the operator did meanwhile.
navigateToReturn(t) ==
  /\ t \in returns
  /\ returns' = returns \ {t}
  /\ Go(Entry("placement", t), requests, scanned)
  /\ UNCHANGED <<mode, where, walk>>

handleClose ==
  /\ On("scan")
  /\ Go(Entry("placement", Finish), requests, scanned)
  /\ UNCHANGED <<mode, returns, where, walk>>

-----------------------------------------------------------------------------
(* The view *)

\* By itself 300 ms after it was opened, or by one of its buttons.
StartScanning ==
  /\ On("placement")
  /\ \/ /\ view.handled = Nothing /\ Current.carries = Nothing
        /\ view.warning = Nothing /\ ~view.processing /\ ~Listing(view)
     \/ view.message
     \/ view.warning = Nothing /\ ~view.processing /\ ~Listing(view)
  /\ navigateToScanner(requests, scanned)
  /\ UNCHANGED <<mode, returns, where, walk>>

Asking(r) ==
  /\ Cardinality(requests) < MaxRequests
  /\ requests' = requests \cup {r}

\* An answer changes the instance that waits for it, or none.
Answered(r, v) == view' = IF r.live THEN v ELSE view

Confirmed(r) ==
  /\ walk' = [walk EXCEPT !.confirmed = @ \cup {r.of}]
  /\ navigateToScanner(requests \ {r}, addScanned(r.step, r.of))

processScan(r) ==
  /\ r \in requests /\ r.step = "lookup"
  /\ IF where[r.of] = "here"
     THEN /\ Confirmed(r)
          /\ UNCHANGED <<mode, returns, where>>
     ELSE /\ Answered(r, [view EXCEPT !.processing = FALSE, !.warning = r.of])
          /\ requests' = requests \ {r}
          /\ UNCHANGED <<mode, entries, scanner, returns, scanned, where, anew, walk>>

handleConfirm ==
  /\ On("placement") /\ view.warning # Nothing /\ ~view.processing
  /\ view' = [view EXCEPT !.processing = TRUE]
  /\ Asking(Ask("move", view.warning, {}))
  /\ UNCHANGED <<mode, entries, scanner, returns, scanned, where, anew, walk>>

Moved(r) ==
  /\ r \in requests /\ r.step = "move"
  /\ where' = [where EXCEPT ![r.of] = "here"]
  /\ Confirmed(r)
  /\ UNCHANGED <<mode, returns>>

handleSkip ==
  /\ On("placement") /\ view.warning # Nothing /\ ~view.processing
  /\ navigateToScanner(requests, scanned)
  /\ UNCHANGED <<mode, returns, where, walk>>

Abbrechen ==
  /\ Len(entries) > 1
  /\ GoBack(requests, scanned)
  /\ UNCHANGED <<mode, returns, where, walk>>

-----------------------------------------------------------------------------
(* The end: what was not scanned is offered for removal *)

Fertig ==
  /\ On("placement") /\ ~Listing(view)
  /\ Ask(IF mode = "items" THEN "finish" ELSE "back", Nothing, {}) \notin requests
  /\ Cardinality(requests) < MaxRequests
  /\ finishInventory(view, requests)
  /\ UNCHANGED <<mode, entries, scanner, returns, scanned, where, anew, walk>>

Unscanned == {t \in Things : where[t] = "here"} \ scanned

\* The content of the box, as it is now, without what was recorded.
BoxLoaded(r) ==
  /\ r \in requests /\ r.step = "finish"
  /\ IF Unscanned = {}
     THEN /\ Answered(r, [view EXCEPT !.processing = FALSE])
          /\ requests' = (requests \ {r}) \cup {Ask("back", Nothing, {})}
          /\ scanned' = {} /\ anew' = TRUE
          /\ UNCHANGED walk
     ELSE /\ Answered(r, [view EXCEPT !.processing = FALSE,
                !.reconcile = [t \in Things |-> IF t \in Unscanned THEN "open" ELSE Nothing]])
          /\ requests' = requests \ {r}
          /\ walk' = IF r.live THEN [walk EXCEPT !.before = walk.confirmed] ELSE walk
          /\ UNCHANGED <<scanned, anew>>
  /\ UNCHANGED <<mode, entries, scanner, returns, where>>

\* navigate(-1) of an answer, wherever the operator is by now.
WentBack(r) ==
  /\ r \in requests /\ r.step = "back"
  /\ IF Len(entries) > 1
     THEN GoBack(requests \ {r}, scanned)
     ELSE /\ requests' = requests \ {r}
          /\ UNCHANGED <<entries, view, scanner, scanned, anew>>
  /\ UNCHANGED <<mode, returns, where, walk>>

resolveUnscanned(t) ==
  /\ On("placement") /\ view.reconcile[t] = "open" /\ ~view.processing
  /\ view' = [view EXCEPT !.processing = TRUE]
  /\ Asking(Ask("take", t, {}))
  /\ UNCHANGED <<mode, entries, scanner, returns, scanned, where, anew, walk>>

\* One after the other, in the order of the list the button was drawn with.
resolveAllUnscanned ==
  LET open == {t \in Things : view.reconcile[t] = "open"}
  IN /\ On("placement") /\ ~view.processing
     /\ \E t \in open : Asking(Ask("take", t, open \ {t}))
     /\ view' = [view EXCEPT !.processing = TRUE]
     /\ UNCHANGED <<mode, entries, scanner, returns, scanned, where, anew, walk>>

\* The rest of the list, also after a failure, and after the view was left.
NextOf(r) ==
  IF r.rest = {} THEN requests' = requests \ {r}
  ELSE \E t \in r.rest : requests' = (requests \ {r}) \cup {[r EXCEPT !.of = t, !.rest = @ \ {t}]}

\* Without a location, or without its last piece, an item has left the box; one with
\* pieces left stays in it.
Taken(r) ==
  /\ r \in requests /\ r.step = "take"
  /\ where' \in {where, [where EXCEPT ![r.of] = "away"]}
  /\ Answered(r, [view EXCEPT !.processing = r.rest # {},
                              !.reconcile[r.of] = IF Listing(view) THEN "resolved" ELSE Nothing])
  /\ NextOf(r)
  /\ UNCHANGED <<mode, entries, scanner, returns, scanned, anew, walk>>

closeReconcile ==
  /\ On("placement") /\ Listing(view)
  /\ Len(entries) > 1
  /\ GoBack(requests, {})
  /\ UNCHANGED <<mode, returns, where, walk>>

\* An answer that is no success: no user, not found, refused, or no connection; the
\* next of a list is tried all the same.
RequestFails(r) ==
  /\ r \in requests /\ r.step # "back"
  /\ Answered(r, [view EXCEPT !.processing = r.rest # {}, !.message = TRUE])
  /\ NextOf(r)
  /\ UNCHANGED <<mode, entries, scanner, returns, scanned, where, anew, walk>>

-----------------------------------------------------------------------------
(* The tab and the others *)

\* A reload loses what was awaited, not the entry's state and the sessionStorage.
Reload ==
  /\ Len(entries) > 1
  /\ returns' = {}
  /\ Arrive(entries, FALSE, view, {}, scanned)
  /\ UNCHANGED <<mode, where, walk>>

\* The button of the box's page.
OpenFlow ==
  /\ On("box")
  /\ Go(Entry("placement", Nothing), requests, scanned)
  /\ UNCHANGED <<mode, returns, where, walk>>

\* Another operator moves a thing.
OthersMove(t, to) ==
  /\ where[t] # to
  /\ where' = [where EXCEPT ![t] = to]
  /\ UNCHANGED <<mode, entries, view, scanner, requests, returns, scanned, anew, walk>>

Init ==
  /\ mode \in {"items", "boxes"}
  /\ entries = <<Entry("box", Nothing), Entry("placement", Nothing)>>
  /\ view = Unused /\ scanner = "closed" /\ requests = {} /\ returns = {}
  /\ scanned = {} /\ anew = FALSE
  /\ where \in [Things -> {"here", "away"}]
  /\ walk = [confirmed |-> {}, before |-> {}]

Next ==
  \/ \E t \in Things : handleDecoded(t) \/ navigateToReturn(t) \/ resolveUnscanned(t)
  \/ ScanError \/ handleRetry \/ handleClose
  \/ StartScanning \/ handleConfirm \/ handleSkip \/ Abbrechen
  \/ Fertig \/ resolveAllUnscanned \/ closeReconcile \/ Reload \/ OpenFlow
  \/ \E r \in requests : processScan(r) \/ Moved(r) \/ BoxLoaded(r) \/ WentBack(r)
                         \/ Taken(r) \/ RequestFails(r)
  \/ \E t \in Things, to \in {"here", "away"} : OthersMove(t, to)

Spec == Init /\ [][Next]_vars

-----------------------------------------------------------------------------
\* What was confirmed to be here before the list of the unscanned was drawn is not
\* offered for removal, unless the operator emptied the set on the way: by going back to
\* the view in the browser, by a reload, or by closing an earlier list.
ConfirmedStays ==
  \A t \in walk.before : view.reconcile[t] = "open" => anew
=============================================================================
