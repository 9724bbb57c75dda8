------------------------------- MODULE ItemDetail -------------------------------
(***************************************************************************)
(* The page of an item in the browser (ItemDetail), the panel that shows   *)
(* it (PanelContext, Layout), the route that shows it a second time        *)
(* (ItemRoute) and the dialogs its commands wait for (DialogProvider).     *)
(*                                                                         *)
(* A command is a handler that was started on one rendering of a page: it  *)
(* names the items that rendering showed, asks its dialogs one after the   *)
(* other, posts, and puts the answer into the page if that page is still   *)
(* mounted.  Dialogs are answered long after the page may be gone.  Loads  *)
(* and commands are not guarded against each other's late answers; what    *)
(* separates the items is the key of the panel's page.  A covering dialog  *)
(* keeps the mouse away from the page, not the arrow keys.                 *)
(* The server is the environment: an answer carries the run of the article *)
(* that was named, or none; the status of runs, which decides only what    *)
(* buttons there are, is left out.  Item and article are one here.         *)
(***************************************************************************)
EXTENDS Integers, Sequences, FiniteSets

CONSTANTS
  LastItem,    \* items 1..LastItem, in the order of the list
  Filters,     \* filters of the item list
  Match,       \* the items the server returns for a filter
  Commands,    \* commands the operator gives on an item's page
  Together,    \* bound: those of them whose handlers are under way next to another
  Commanded,   \* bound: the slots on whose page commands are given
  Tasks        \* bound: handlers under way at once

Agentic == {"review", "start", "restart", "rework", "cancel", "close", "delete"}
Others == {"link", "shop", "add", "remove", "media", "edit"}
Bulk == {"move", "createAndMove", "kiStart", "kiStop", "sync", "bulkDelete", "bulkShop"}
Items == 1..LastItem
None == 0

ASSUME DetailAssumption ==
  /\ LastItem \in Nat \ {0}
  /\ Match \in [Filters -> SUBSET Items]
  /\ Commands \subseteq Agentic \cup Others \cup Bulk

Slots == {"panel", "route"}
NoQuery == [prev |-> None, next |-> None]

\* A page: its address (itemId; None when no page is mounted), what it shows (item, run and
\* the neighbours a lookup found) and isLoading; moved: its address changed under it.
Absent == [itemId |-> None, item |-> None, run |-> None, near |-> NoQuery,
           loading |-> FALSE, moved |-> FALSE]

\* A handler: the items of the rendering it was started on (asked), those its request
\* names, and the steps left, the first of which it waits for.  Its slot is "gone" once
\* what it was started on is unmounted, and then none of its items can show any more.
Idle == [kind |-> "idle", slot |-> "gone", asked |-> {None}, named |-> {None},
         todo |-> <<>>, positive |-> TRUE]
Dialogs == {"user", "flag", "price", "note", "last", "sure", "skip", "alert"}
Requests == {"create", "parts", "post", "refresh", "trigger", "cancelRun"}

VARIABLES
  pages,     \* the page in each slot
  panel,     \* PanelContext: the item shown, whether a tab is, the rows selected,
             \* and the handler that keeps the bar of the selection busy
  query,     \* prev and next in the address
  fetches,   \* loads and neighbour lookups under way
  tasks,     \* handlers
  queue,     \* the dialog requests; the first one is shown
  user       \* a user name is stored

detail == <<pages, panel, query, fetches>>
work == <<tasks, queue, user>>
answered == <<queue, user>>

-----------------------------------------------------------------------------
(* Pages *)

NoFilter == None      \* ITEM_LIST_DEFAULT_FILTERS
Rows(f) == IF f \in Filters THEN Match[f] ELSE Items

\* filterAndSortItems over what the server returns: the neighbours in list order.
Adjacent(i, shown) ==
  LET before == {j \in shown : j < i}
      after == {j \in shown : j > i}
  IN IF i \notin shown THEN NoQuery
     ELSE [prev |-> IF before = {} THEN None ELSE CHOOSE j \in before : \A k \in before : k <= j,
           next |-> IF after = {} THEN None ELSE CHOOSE j \in after : \A k \in after : j <= k]

\* The address wins; only without neighbours in it are they looked up.
Near(s) == IF query = NoQuery THEN pages[s].near ELSE query

Fetch(what, s, i) == [what |-> what, slot |-> s, item |-> i]

\* Wrong variant: the panel's page has no key either.
Unkeyed == {}

\* The panel's page is keyed by the item and a revision; the route's page is not.
Keyed == {"panel"}

\* Page s is given item i: mounted anew, or the page there only gets another address.
Shown(s, i) ==
  IF pages[s].itemId = None \/ s \in Keyed THEN [Absent EXCEPT !.itemId = i, !.loading = TRUE]
  ELSE [pages[s] EXCEPT !.itemId = i, !.loading = TRUE, !.moved = s \notin {"panel"}]

\* Of what is under way when slots are unmounted, only what belongs to other slots is
\* heard.  The effect of fetchNeighbors cancels its lookup when page or address change.
Surviving(gone) == {f \in fetches : f.what # "near" /\ f.slot \notin gone}

Forgotten(tk) == [tk EXCEPT !.slot = "gone", !.asked = {None}, !.named = {None}]

\* Pages and address change together: every mounted page derives its neighbours anew.
Render(ps, q, loads, gone, ts) ==
  /\ pages' = [s \in Slots |-> [ps[s] EXCEPT !.near = NoQuery]]
  /\ query' = q
  /\ fetches' = Surviving(gone) \cup loads
       \cup {Fetch("near", s, ps[s].itemId) :
               s \in {r \in Slots : q = NoQuery /\ ps[r].itemId # None}}
  /\ tasks' = [t \in Tasks |-> IF ts[t].slot \in gone THEN Forgotten(ts[t]) ELSE ts[t]]

Shows(i) == [entity |-> i, tab |-> TRUE, multi |-> {}, busy |-> {}]

setEntity(i, q) ==
  /\ panel' = Shows(i)
  /\ Render([pages EXCEPT !["panel"] = Shown("panel", i)], q, {Fetch("spin", "panel", i)},
            Keyed, tasks)
  /\ UNCHANGED answered

\* The route leaves the list, and its effect puts the same item into the panel.
openRoute(i, q) ==
  /\ i # pages["route"].itemId
  /\ panel' = Shows(i)
  /\ Render([s \in Slots |-> Shown(s, i)], q, {Fetch("spin", s, i) : s \in Slots},
            Keyed \cup {"list"}, tasks)
  /\ UNCHANGED answered

\* setMultiSelection and clearSelection leave the panel without an item.
WithoutEntity(multi, tab, ts) ==
  /\ panel' = [entity |-> None, tab |-> tab, multi |-> multi,
               busy |-> IF multi = {} THEN {} ELSE panel.busy]
  /\ Render([pages EXCEPT !["panel"] = Absent], query, {}, {"panel"}, ts)

clearSelection(ts) == WithoutEntity({}, FALSE, ts)

-----------------------------------------------------------------------------
(* Loads *)

\* State of a page that is gone is not set.
Land(s, p) == IF s \in Slots THEN [pages EXCEPT ![s] = p] ELSE pages

\* load: whatever address the page has by now, the answer replaces all it shows.
FinishLoad(f) ==
  LET p == pages[f.slot] IN
  /\ f.what \in {"spin", "quiet"}
  /\ fetches' = fetches \ {f}
  /\ \E i \in {f.item, None} : \E r \in {i, None} :
       pages' = Land(f.slot, [p EXCEPT !.item = i, !.run = r,
                                       !.loading = @ /\ f.what # "spin"])
  /\ UNCHANGED <<panel, query, work>>

\* The lookup filters as the list last did; the filters are kept in localStorage, which
\* every tab of the browser writes.
fetchNeighbors(f) ==
  /\ f.what = "near"
  /\ fetches' = fetches \ {f}
  /\ \/ pages' = pages
     \/ \E filter \in Filters \cup {NoFilter} :
          pages' = Land(f.slot, [pages[f.slot] EXCEPT !.near = Adjacent(f.item, Rows(filter))])
  /\ UNCHANGED <<panel, query, work>>

\* The arrow keys work behind a dialog too.
Browse(s, i) ==
  /\ pages[s].itemId # None /\ i # None
  /\ IF panel.tab THEN setEntity(i, query) ELSE openRoute(i, query)

handleNeighborNavigation(s) == Browse(s, Near(s).prev) \/ Browse(s, Near(s).next)

\* An open dialog covers the page.
Clickable(s) == queue = <<>> /\ pages[s].itemId # None /\ ~pages[s].loading
Showing(s) == Clickable(s) /\ pages[s].item # None

\* Another piece of the article, in the panel or by its address: which, is decided by the
\* tab of the rendering the handler was made in.  The same piece, or a retry after a
\* failed load, loads again.
handleInstanceNavigation(s) ==
  \/ /\ Showing(s)
     /\ \E i \in Items \ {pages[s].itemId} : setEntity(i, query) \/ openRoute(i, NoQuery)
  \/ /\ Clickable(s)
     /\ fetches' = fetches \cup {Fetch("spin", s, pages[s].itemId)}
     /\ pages' = [pages EXCEPT ![s].loading = TRUE]
     /\ UNCHANGED <<panel, query, work>>
-----------------------------------------------------------------------------
(* Handlers and their dialogs *)

\* The dialogs and requests of each handler, in order; what a refusal or a missing
\* answer leads to is in Answered by the operator and in the replies below.
Steps(kind) ==
  CASE kind = "review" -> <<"user", "flag", "flag", "modal", "flag", "price", "last", "post">>
    [] kind = "start" -> <<"user", "post", "refresh">>
    [] kind = "restart" -> <<"user", "skip", "post", "trigger", "cancelRun">>
    [] kind \in {"cancel", "link"} -> <<"user", "sure", "post">>
    [] kind = "close" -> <<"user", "note", "post">>
    [] kind = "delete" -> <<"user", "sure", "sure", "post">>
    [] kind = "remove" -> <<"user", "parts", "sure", "post">>
    [] kind = "shop" -> <<"sure", "user", "post">>
    [] OTHER -> <<"user", "post">>

\* The buttons of ItemKiTab also follow the status of the run, which may be any here.
Offered(kind, p) ==
  /\ kind \in {"review", "restart", "cancel", "delete", "link"} => p.run # None
  /\ kind = "start" => p.run = None

\* What its request names: the article of the run or of the item, or the address.
Names(kind, p) ==
  IF kind \in {"review", "cancel", "delete", "link"} THEN {p.run}
  ELSE IF kind = "media" THEN {p.itemId, p.item} ELSE {p.item}

Step(tk) == IF tk.todo = <<>> THEN "end" ELSE Head(tk.todo)
Under(kinds, s, steps) ==
  \E t \in Tasks : tasks[t].kind \in kinds /\ tasks[t].slot = s /\ Step(tasks[t]) \in steps

\* agenticActionPending, isMediaSaving and the review's modal.
Free(kind, s) ==
  /\ kind \in Agentic \cup {"link"} => ~Under(Agentic, s, Requests)
  /\ kind \in Agentic => ~Under(Agentic, s, {"modal"})
  /\ kind = "media" => ~Under({"media"}, s, Requests)

\* A handler runs on to its next dialog, its next request or its end; ensureUser asks
\* only when no name is stored.
Later(tk, todo, known) ==
  LET left == IF todo # <<>> /\ Head(todo) = "user" /\ known THEN Tail(todo) ELSE todo
  IN IF left = <<>> THEN Idle ELSE [tk EXCEPT !.todo = left]

Proceed(t, tk, todo, rest, known) ==
  LET next == Later(tk, todo, known) IN
  /\ tasks' = [tasks EXCEPT ![t] = next]
  /\ queue' = IF Step(next) \in Dialogs THEN Append(rest, t) ELSE rest
  /\ user' = known

End(t) == Proceed(t, Idle, <<>>, queue, user)

Begin(t, tk) ==
  /\ tasks[t] = Idle
  /\ \A u \in Tasks : tasks[u] = Idle \/ {tasks[u].kind, tk.kind} \subseteq Together
  /\ Proceed(t, tk, tk.todo, queue, user)

\* On a page that moved no command is given (a bound: nothing is claimed of such a page).
ask(t, s, kind) ==
  LET p == pages[s] IN
  /\ s \in Commanded /\ Showing(s) /\ ~p.moved /\ Offered(kind, p) /\ Free(kind, s)
  /\ kind \notin Bulk \cup {"edit"}
  /\ Begin(t, [Idle EXCEPT !.kind = kind, !.slot = s, !.asked = {p.itemId},
                           !.named = Names(kind, p), !.todo = Steps(kind)])
  /\ UNCHANGED detail

\* While a run is under way the item is not edited; else handleEdit leaves for the form.
refuseEdit(t, s) ==
  /\ "edit" \in Commands /\ s \in Commanded /\ Showing(s) /\ pages[s].run # None
  /\ Begin(t, [Idle EXCEPT !.kind = "edit", !.slot = s, !.todo = <<"alert">>])
  /\ UNCHANGED detail
handleEdit(s) ==
  /\ "edit" \in Commands /\ Showing(s)
  /\ Render([pages EXCEPT !["route"] = Absent], NoQuery, {}, {"route", "list"}, tasks)
  /\ UNCHANGED <<panel, answered>>

-----------------------------------------------------------------------------
(* Answers of the operator *)

\* Wrong variant: the dialog asked for last is removed.
removeNewest(q) == SubSeq(q, 1, Len(q) - 1)

removeActiveRequest(q) == Tail(q)

\* A handler that ends before its request no longer keeps the bar busy.
Released(t) == panel' = IF tasks'[t] = Idle THEN [panel EXCEPT !.busy = @ \ {t}] ELSE panel

\* What follows the answer to the dialog that is shown.
Resolved(todo, tk, known) ==
  LET t == Head(queue) IN
  /\ Proceed(t, tk, todo, removeActiveRequest(queue), known)
  /\ Released(t)
  /\ UNCHANGED <<pages, query, fetches>>

\* Without a name a handler says so and ends; handleShopStatus just ends.
Nameless(tk) == Resolved(IF tk.kind = "shop" THEN <<>> ELSE <<"alert">>, tk, user)

handleConfirm ==
  /\ queue # <<>>
  /\ LET tk == tasks[Head(queue)] IN
     \/ Resolved(Tail(tk.todo), tk, user \/ Head(tk.todo) = "user")
     \/ Head(tk.todo) = "user" /\ Nameless(tk)

handleReject ==
  /\ queue # <<>>
  /\ LET tk == tasks[Head(queue)] IN
     /\ Head(tk.todo) = "flag"
     /\ Resolved(Tail(tk.todo), [tk EXCEPT !.positive = FALSE], user)

\* For skip and for the shop question of a positive review, cancel means no.
handleCancel ==
  /\ queue # <<>>
  /\ LET tk == tasks[Head(queue)]  step == Head(tk.todo) IN
     \/ step = "user" /\ Nameless(tk)
     \/ /\ step = "skip" \/ (step = "last" /\ tk.positive)
        /\ Resolved(Tail(tk.todo), tk, user)
     \/ /\ step \notin {"user", "skip"} /\ ~(step = "last" /\ tk.positive)
        /\ Resolved(<<>>, tk, user)

\* The modal of the review belongs to the page: a page that is gone never answers.
handleSpecFieldModal(t) ==
  LET tk == tasks[t] IN
  /\ Step(tk) = "modal" /\ tk.slot \in Slots
  /\ \/ Proceed(t, tk, Tail(tk.todo), queue, user)
     \/ End(t)
  /\ UNCHANGED detail

-----------------------------------------------------------------------------
(* Answers of the server *)

\* setAgentic and setItem of a handler's own page, if it is still mounted.
setAgentic(tk, r) == pages' = Land(tk.slot, [pages[tk.slot] EXCEPT !.run = r])
setItem(tk, i) == pages' = Land(tk.slot, [pages[tk.slot] EXCEPT !.item = i])

Asking(t, kinds, step) == tasks[t].kind \in kinds /\ Step(tasks[t]) = step

\* The answer carries a run and the handler goes on to the given steps.
Carries(t, todo) ==
  /\ \E r \in tasks[t].named : setAgentic(tasks[t], r)
  /\ Proceed(t, tasks[t], todo, queue, user)
  /\ UNCHANGED fetches

\* The handler goes on without touching its page.
Continues(t, todo) ==
  /\ Proceed(t, tasks[t], todo, queue, user)
  /\ UNCHANGED <<pages, fetches>>

handleAgenticReview(t) ==
  /\ Asking(t, {"review"}, "post")
  /\ \/ Carries(t, <<>>)
     \/ setAgentic(tasks[t], None) /\ End(t) /\ UNCHANGED fetches
     \/ Continues(t, <<>>)

\* A start whose answer lacks the run reads it (refreshAgenticStatus).
handleAgenticStart(t) ==
  \/ Asking(t, {"start"}, "post") /\ (Carries(t, <<>>) \/ Continues(t, <<"refresh">>)
                                     \/ Continues(t, <<>>))
  \/ /\ Asking(t, {"start"}, "refresh")
     /\ Carries(t, <<>>) \/ (setAgentic(tasks[t], None) /\ End(t) /\ UNCHANGED fetches)

handleAgenticRestart(t) ==
  /\ Asking(t, {"restart"}, "post")
  /\ \/ Continues(t, <<>>)
     \/ setAgentic(tasks[t], None) /\ End(t) /\ UNCHANGED fetches
     \/ \E r \in tasks[t].named :
          /\ setAgentic(tasks[t], r) /\ UNCHANGED fetches
          /\ End(t) \/ Proceed(t, tasks[t], Tail(tasks[t].todo), queue, user)

\* A restarted run that is not queued is triggered as well, and cancelled when that fails.
TriggerRestarted(t) ==
  \/ /\ Asking(t, {"restart"}, "trigger")
     /\ Continues(t, <<>>) \/ Continues(t, <<"cancelRun">>)
  \/ Asking(t, {"restart"}, "cancelRun") /\ (Carries(t, <<>>) \/ Continues(t, <<>>))

\* The run of the answer is shown, if there is one.
ShowsRun(t, kind) ==
  /\ Asking(t, {kind}, "post")
  /\ Carries(t, <<>>) \/ Continues(t, <<>>)

handleReworkSubmit(t) == ShowsRun(t, "rework")
handleAgenticCancel(t) == ShowsRun(t, "cancel")
handleAgenticClose(t) == ShowsRun(t, "close")
handleAgenticSearchLinkDelete(t) == ShowsRun(t, "link")

handleAgenticDelete(t) ==
  /\ Asking(t, {"delete"}, "post")
  /\ \/ setAgentic(tasks[t], None) /\ End(t) /\ UNCHANGED fetches
     \/ Continues(t, <<>>)

\* The load at the end of a handler is that of the rendering it was started on.
ReloadsAsked(t) ==
  LET tk == tasks[t] IN
  /\ fetches' = fetches \cup {Fetch("quiet", tk.slot, i) : i \in tk.asked \ {None}}
  /\ End(t)
  /\ UNCHANGED pages

\* A device whose parts were catalogued is removed only after a further question.
handleRemoveItem(t) ==
  \/ Asking(t, {"remove"}, "parts") /\ (Continues(t, <<"sure", "post">>) \/ Continues(t, <<"post">>))
  \/ Asking(t, {"remove"}, "post") /\ (ReloadsAsked(t) \/ Continues(t, <<>>))

handleShopStatus(t) ==
  /\ Asking(t, {"shop"}, "post")
  /\ ReloadsAsked(t) \/ Continues(t, <<>>)

\* Put back is the item of the rendering the handler was started on.
handleAddItem(t) ==
  /\ Asking(t, {"add"}, "post")
  /\ \/ Continues(t, <<>>)
     \/ /\ \E i \in tasks[t].named : setItem(tasks[t], i)
        /\ UNCHANGED fetches
        /\ End(t) \/ Proceed(t, tasks[t], <<"alert">>, queue, user)

persistMediaUpdate(t) ==
  /\ Asking(t, {"media"}, "post")
  /\ Continues(t, <<>>) \/ Continues(t, <<"alert">>)

Reply(t) ==
  /\ \/ handleAgenticReview(t) \/ handleAgenticStart(t) \/ handleAgenticRestart(t)
     \/ TriggerRestarted(t) \/ handleReworkSubmit(t) \/ handleAgenticCancel(t)
     \/ handleAgenticClose(t) \/ handleAgenticSearchLinkDelete(t)
     \/ handleAgenticDelete(t) \/ handleRemoveItem(t)
     \/ handleShopStatus(t) \/ handleAddItem(t) \/ persistMediaUpdate(t)
  /\ UNCHANGED <<panel, query>>

=============================================================================
