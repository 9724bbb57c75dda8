-------------------------------- MODULE ItemList --------------------------------
(***************************************************************************)
(* The list of items (ItemListPage), the bar with the bulk commands for    *)
(* the selected rows (BulkItemActionBar) and the item pages next to it:    *)
(* the whole of what an operator works with in one browser tab.            *)
(*                                                                         *)
(* The list loads again on every change of a filter and after every bulk   *)
(* command; the answers arrive in any order and each replaces the rows.    *)
(* Rows that are gone leave the selection, and the selection is published  *)
(* to the panel, whose bar keeps the rows and the callbacks it was drawn   *)
(* with until the command ends.                                            *)
(***************************************************************************)
EXTENDS ItemDetail

VARIABLE list
vars == <<detail, work, list>>

Unlisted == [open |-> FALSE, filter |-> NoFilter, items |-> {}, selected |-> {},
             loading |-> FALSE, loads |-> {}]
LoadRows(f, silent) == [by |-> f, silent |-> silent]
Listed(f) == [Unlisted EXCEPT !.open = TRUE, !.filter = f, !.loading = TRUE,
                              !.loads = {LoadRows(f, FALSE)}]

\* filterAndSortItems filters the rows that are there by the filter that is set.
visibleIds == list.items \cap Rows(list.filter)

Table == list.open /\ ~list.loading /\ queue = <<>>

Init ==
  /\ pages = [s \in Slots |-> Absent]
  /\ list = Listed(NoFilter)
  /\ panel = [entity |-> None, tab |-> FALSE, multi |-> {}, busy |-> {}]
  /\ query = NoQuery /\ fetches = {}
  /\ tasks = [t \in Tasks |-> Idle] /\ queue = <<>>
  /\ user = FALSE

-----------------------------------------------------------------------------
(* Rows, filters and the selection *)

\* The list is left for a page of its own; its answers and its selection are gone.
Left == list' = IF pages'["route"].itemId # None THEN Unlisted ELSE list

\* Back to the list, which starts with the filters of the link, or with those in
\* localStorage: stored 250 ms after the last change, by any tab, and forgotten on a reset.
openList(f) ==
  /\ ~list.open
  /\ list' = Listed(f)
  /\ Render([pages EXCEPT !["route"] = Absent], NoQuery, {}, {"route"}, tasks)
  /\ UNCHANGED <<panel, answered>>

\* The selection goes to the panel, which then shows no item; without one the panel
\* keeps what it shows.
publish(selected) ==
  IF selected # {} THEN WithoutEntity(selected, panel.tab, tasks)
  ELSE /\ panel' = [panel EXCEPT !.multi = {}, !.busy = {}]
       /\ Render(pages, query, {}, {}, tasks)

Filtered(f) ==
  [list EXCEPT !.filter = f, !.loading = TRUE, !.loads = @ \cup {LoadRows(f, FALSE)}]

setFilter(f) ==
  /\ Table /\ f # list.filter
  /\ list' = Filtered(f)
  /\ UNCHANGED <<detail, work>>

handleFilterReset ==
  /\ Table /\ list.filter # NoFilter
  /\ list' = [Filtered(NoFilter) EXCEPT !.selected = {}]
  /\ publish({})
  /\ UNCHANGED answered

\* Wrong variant: the selection is left alone.
KeptSelected(selected, items) == selected

\* Rows that are no longer there leave the selection.
StillValid(selected, items) == selected \cap items

loadItems(l) ==
  /\ l \in list.loads
  /\ LET done == [list EXCEPT !.loads = @ \ {l}, !.loading = @ /\ l.silent]
         items == Rows(l.by)
         selected == StillValid(list.selected, items)
     IN \/ list' = done /\ UNCHANGED <<detail, tasks>>
        \/ /\ list' = [done EXCEPT !.items = items, !.selected = selected]
           /\ publish(selected)
  /\ UNCHANGED answered

Select(selected) ==
  /\ list' = [list EXCEPT !.selected = selected]
  /\ publish(selected)
  /\ UNCHANGED answered

handleToggleItem(i) ==
  /\ Table /\ i \in visibleIds
  /\ Select(IF i \in list.selected THEN list.selected \ {i} ELSE list.selected \cup {i})

handleToggleAll ==
  /\ Table /\ visibleIds # {}
  /\ Select(IF visibleIds \subseteq list.selected THEN list.selected \ visibleIds
            ELSE list.selected \cup visibleIds)

handleItemSelect(i) ==
  /\ Table /\ i \in visibleIds
  /\ setEntity(i, Adjacent(i, visibleIds))
  /\ UNCHANGED list

\* The way back in the panel's header clears the panel, not the rows ticked in the list.
backToList ==
  /\ queue = <<>>
  /\ panel.entity # None \/ panel.multi # {}
  /\ clearSelection(tasks)
  /\ UNCHANGED <<answered, list>>

\* The bar's own button clears both.
handleClearSelection ==
  /\ list.open /\ queue = <<>> /\ panel.multi # {} /\ panel.busy = {}
  /\ list' = [list EXCEPT !.selected = {}]
  /\ clearSelection(tasks)
  /\ UNCHANGED answered

-----------------------------------------------------------------------------
(* Bulk commands *)

\* The dialogs and requests of the bar's handlers.  A move into a new box has asked for
\* the user before it asks whether to move.
executeBulkMove(asked) == <<"sure">> \o (IF asked THEN <<>> ELSE <<"user">>) \o <<"post">>
handleCreateAndMove == <<"user", "create">> \o executeBulkMove(TRUE)
handleBulkSyncToErp == <<"sure", "user", "post">>
handleBulkDelete == <<"sure", "user", "post">>
handleBulkUpdateShopStatus == <<"sure", "user", "post">>

\* One request for each row; only a stop asks for the user.
handleBulkKi(kind, named) ==
  (IF kind = "kiStop" THEN <<"sure", "user">> ELSE <<"sure">>)
    \o [k \in 1..Cardinality(named) |-> "post"]
OneByOne == {"kiStart", "kiStop"}

BulkSteps(kind, named) ==
  CASE kind = "move" -> executeBulkMove(FALSE)
    [] kind = "createAndMove" -> handleCreateAndMove
    [] kind = "sync" -> handleBulkSyncToErp
    [] kind = "bulkDelete" -> handleBulkDelete
    [] kind = "bulkShop" -> handleBulkUpdateShopStatus
    [] OTHER -> handleBulkKi(kind, named)

\* The bar is there as long as the panel shows the selection; stopped are the runs
\* under way among the rows.
askBulk(t, kind) ==
  /\ list.open /\ queue = <<>> /\ panel.multi # {} /\ panel.busy = {}
  /\ \E named \in IF kind = "kiStop" THEN SUBSET panel.multi ELSE {panel.multi} :
       Begin(t, [Idle EXCEPT !.kind = kind, !.slot = "list", !.asked = list.items,
                             !.named = named, !.todo = BulkSteps(kind, named),
                             !.positive = kind \notin OneByOne])
  /\ panel' = [panel EXCEPT !.busy = {t}]
  /\ UNCHANGED <<pages, query, fetches, list>>

\* The callbacks of the list the bar was drawn with: they clear its selection, whatever
\* is ticked by now, close the panel, whatever it shows, and load the rows again.
handleAfterSuccess(t) ==
  /\ clearSelection([tasks EXCEPT ![t] = Idle])
  /\ UNCHANGED answered
  /\ list' = IF tasks[t].slot = "gone" THEN list
             ELSE [list EXCEPT !.selected = {}, !.loads = @ \cup {LoadRows(list.filter, TRUE)}]

BulkContinues(t, tk, todo) ==
  /\ Proceed(t, tk, todo, queue, user)
  /\ Released(t)
  /\ UNCHANGED <<pages, query, fetches, list>>

createBoxForRelocation(t) ==
  /\ Asking(t, {"createAndMove"}, "create")
  /\ BulkContinues(t, tasks[t], Tail(tasks[t].todo)) \/ BulkContinues(t, tasks[t], <<>>)

\* The answer to a bulk request; positive: some request succeeded.
ReplyBulk(t) ==
  LET tk == tasks[t] IN
  /\ Asking(t, Bulk, "post")
  /\ \E ok \in BOOLEAN :
       LET some == ok \/ (tk.kind \in OneByOne /\ tk.positive)
           rest == Tail(tk.todo)
       IN IF rest = <<>> /\ some THEN handleAfterSuccess(t)
          ELSE BulkContinues(t, [tk EXCEPT !.positive = some], rest)

-----------------------------------------------------------------------------
(* The browser tab *)

Pages ==
  \/ \E s \in Slots : /\ handleNeighborNavigation(s) \/ handleInstanceNavigation(s)
                      /\ Left
  \/ \E i \in Items : queue = <<>> /\ openRoute(i, NoQuery) /\ Left
  \/ \E s \in Slots : handleEdit(s) /\ list' = Unlisted
  \/ \E f \in fetches : (FinishLoad(f) \/ fetchNeighbors(f)) /\ UNCHANGED list

Handlers ==
  \/ \E t \in Tasks, s \in Slots, kind \in Commands : ask(t, s, kind) /\ UNCHANGED list
  \/ \E t \in Tasks, s \in Slots : refuseEdit(t, s) /\ UNCHANGED list
  \/ \E t \in Tasks : (handleSpecFieldModal(t) \/ Reply(t)) /\ UNCHANGED list
  \/ (handleConfirm \/ handleReject \/ handleCancel) /\ UNCHANGED list

ListSteps ==
  \/ handleFilterReset \/ handleToggleAll \/ backToList
  \/ handleClearSelection
  \/ \E f \in Filters \cup {NoFilter} : openList(f) \/ setFilter(f)
  \/ \E l \in list.loads : loadItems(l)
  \/ \E i \in Items : handleToggleItem(i) \/ handleItemSelect(i)

BulkCommands ==
  \/ \E t \in Tasks, kind \in Bulk \cap Commands : askBulk(t, kind)
  \/ \E t \in Tasks : createBoxForRelocation(t) \/ ReplyBulk(t)

Next == Pages \/ Handlers \/ ListSteps \/ BulkCommands
Spec == Init /\ [][Next]_vars

-----------------------------------------------------------------------------
(* Properties *)

\* What a page shows belongs to its address: the item, the run of its article, looked-up
\* neighbours; and a command names only the item of the page it was given on.  Loads and
\* handlers of ItemDetail.tsx answer unguarded in any order: only the key of the panel's page
\* and the cancelled lookups see to it.  A route's page is not keyed; one that moved to
\* another address may show the item before.
ShownBelongs ==
  /\ \A s \in Slots : LET p == pages[s] IN
       /\ ~p.moved => {p.item, p.run} \subseteq {p.itemId, None}
       /\ p.near.prev \in {None} \cup 1 .. p.itemId - 1
       /\ p.near.next \in {None} \cup p.itemId + 1 .. LastItem
  /\ \A t \in Tasks : tasks[t].kind \notin Bulk => tasks[t].named \subseteq tasks[t].asked

\* The dialogs of several handlers are shown one after the other (DialogProvider): exactly
\* the handlers that wait for an answer are in the queue, each once, so no answer goes to
\* another question and no handler waits without its dialog being shown.
AnswersReachTheAsker ==
  /\ {queue[k] : k \in DOMAIN queue} = {t \in Tasks : Step(tasks[t]) \in Dialogs}
  /\ Cardinality({queue[k] : k \in DOMAIN queue}) = Len(queue)

\* A bulk command names only rows that the list had when it was given, whatever answers
\* of earlier filters came in between (ItemListPage prunes and publishes its selection).
BulkNamesListed ==
  \A t \in Tasks : tasks[t].kind \in Bulk => tasks[t].named \subseteq tasks[t].asked
=============================================================================
