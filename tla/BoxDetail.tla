------------------------------- MODULE BoxDetail -------------------------------
(***************************************************************************)
(* The page of a box in the browser (BoxDetail with RelocateBoxCard and    *)
(* AddItemToBoxDialog) and the requests it makes of the server.            *)
(*                                                                         *)
(* The panel remounts the page with every selection; the route keeps it    *)
(* and changes its address.  Loads carry no guard: an answer replaces what *)
(* the page shows, whichever box it is about and however old it is.  A     *)
(* handler posts what the rendering it was started on showed, however long *)
(* its dialogs took, and reloads the address it was started on.            *)
(***************************************************************************)
EXTENDS Integers, FiniteSets

CONSTANTS
  Boxes,      \* boxes and shelves
  Shelves,    \* those of them that are shelves
  Places,     \* locations
  Notes,      \* notes other than the empty one
  Items,
  Loads,      \* bound: loads of the page in flight
  Tasks,      \* bound: handlers under way
  MaxClicks,  \* bound: commands and navigations
  MaxForeign, \* bound: changes made by others
  NoBox, NoPlace, NoNote, NoItem

VARIABLES
  rows,      \* boxes: the rows,
  place,     \* "LocationId"
  note,      \* and "Notes"
  inside,    \* items."BoxID"
  keyed,     \* whether the page is the panel's or the route's
  page,      \* the page: its address and what it shows
  load,      \* the loads
  task,      \* the handlers
  clicks, foreign,  \* bounds
  undone     \* history: a save of notes put a box back, and whether with an excuse

store == <<rows, place, note, inside>>
vars == <<store, keyed, page, load, task, clicks, foreign, undone>>

\* What the page shows of a box.  fresh: nothing that happened since would tell the
\* operator that this is out of date.
Nothing == [box |-> NoBox, place |-> NoPlace, note |-> NoNote, items |-> {}, fresh |-> TRUE]
Stored(b) == IF b \in rows
             THEN [box |-> b, place |-> place[b], note |-> note[b],
                   items |-> {i \in Items : inside[i] = b}, fresh |-> TRUE]
             ELSE Nothing

NoLoad == [pc |-> "none", address |-> NoBox, spin |-> FALSE, found |-> Nothing, fresh |-> TRUE]
NoTask == [kind |-> "none", pc |-> "none", box |-> NoBox, place |-> NoPlace, note |-> NoNote,
           item |-> NoItem, address |-> NoBox, here |-> TRUE, fresh |-> TRUE]

Ready == page.address # NoBox /\ ~page.loading /\ page.shown.box # NoBox
Relocatable == page.shown.box \notin Shelves

-----------------------------------------------------------------------------
(* Loads *)

\* load: the address is that of the rendering the caller belongs to.
StartLoad(l, address, spin) ==
  [load EXCEPT ![l] = [NoLoad EXCEPT !.pc = "sent", !.address = address, !.spin = spin]]
Free(l) == load[l].pc = "none"

\* box-detail
ReadBox(l) ==
  /\ load[l].pc = "sent"
  /\ load' = [load EXCEPT ![l].pc = "read", ![l].found = Stored(load[l].address)]
  /\ UNCHANGED <<store, keyed, page, task, clicks, foreign, undone>>

Landed(l, shown) ==
  [page EXCEPT !.shown = shown, !.loading = @ /\ ~load[l].spin]

\* Nobody asks which address the page has by now.
FinishLoad(l) ==
  /\ load[l].pc = "read"
  /\ page' = Landed(l, [load[l].found EXCEPT !.fresh = load[l].fresh])
  /\ load' = [load EXCEPT ![l] = NoLoad]
  /\ UNCHANGED <<store, keyed, task, clicks, foreign, undone>>

\* Refused, the page is emptied; without an answer it keeps what it showed.
LoadFails(l) ==
  /\ load[l].pc # "none"
  /\ \/ page' = Landed(l, Nothing)
     \/ page' = Landed(l, [page.shown EXCEPT !.fresh = FALSE])
  /\ load' = [load EXCEPT ![l] = NoLoad]
  /\ UNCHANGED <<store, keyed, task, clicks, foreign, undone>>

-----------------------------------------------------------------------------
(* Navigation *)

Blank(b) == [address |-> b, shown |-> Nothing, loading |-> b # NoBox]

\* The page of the panel is another one for every selection; what the old one started
\* goes on, and its answers are not heard.
Remount(b) ==
  /\ page' = Blank(b)
  /\ task' = [t \in Tasks |-> IF task[t].kind = "none" THEN NoTask ELSE [task[t] EXCEPT !.here = FALSE]]

\* The effect on boxId, with the spinner.
Open(b, l) ==
  /\ clicks > 0 /\ Free(l) /\ clicks' = clicks - 1
  /\ IF keyed \/ page.address = NoBox
     THEN /\ Remount(b)
          /\ load' = [k \in Loads |-> IF k = l THEN StartLoad(l, b, TRUE)[l] ELSE NoLoad]
     ELSE /\ b # page.address
          /\ page' = [page EXCEPT !.address = b, !.loading = TRUE]
          /\ load' = StartLoad(l, b, TRUE) /\ UNCHANGED task
  /\ UNCHANGED <<store, keyed, foreign, undone>>

\* "Erneut versuchen", when nothing is shown.
Retry(l) ==
  /\ clicks > 0 /\ Free(l) /\ clicks' = clicks - 1
  /\ page.address # NoBox /\ ~page.loading /\ page.shown.box = NoBox
  /\ page' = [page EXCEPT !.loading = TRUE]
  /\ load' = StartLoad(l, page.address, TRUE)
  /\ UNCHANGED <<store, keyed, task, foreign, undone>>

Type(n) ==
  /\ Ready /\ n # page.shown.note /\ clicks > 0 /\ clicks' = clicks - 1
  /\ page' = [page EXCEPT !.shown.note = n]
  /\ UNCHANGED <<store, keyed, load, task, foreign, undone>>

-----------------------------------------------------------------------------
(* Commands *)

\* Nothing is under way whose end the operator could have waited for.
AtRest == /\ \A l \in Loads : Free(l)
          /\ \A t \in Tasks : task[t].pc \notin {"ok", "refused"}

\* A handler is started: it keeps what this rendering shows.
Begin(t, k) ==
  /\ Ready /\ clicks > 0 /\ task[t].kind = "none"
  /\ clicks' = clicks - 1
  /\ task' = [task EXCEPT ![t] = [k EXCEPT !.pc = "ask", !.address = page.address,
                                           !.fresh = page.shown.fresh /\ AtRest]]
  /\ UNCHANGED <<store, keyed, page, load, foreign, undone>>

\* The place goes along with the notes.  A chosen photo saves at once, also while a
\* save is under way.
saveBoxNoteAndPhoto(t) ==
  /\ Relocatable
  /\ Begin(t, [NoTask EXCEPT !.kind = "note", !.box = page.shown.box, !.place = page.shown.place,
                             !.note = page.shown.note])

saveShelfDetails(t) ==
  /\ ~Relocatable
  /\ Begin(t, [NoTask EXCEPT !.kind = "note", !.box = page.shown.box, !.note = page.shown.note])

submitRelocation(t) ==
  /\ Relocatable
  /\ \E p \in Places : Begin(t, [NoTask EXCEPT !.kind = "relocate", !.box = page.shown.box, !.place = p])

removeItem(t) ==
  \E i \in page.shown.items : Begin(t, [NoTask EXCEPT !.kind = "remove", !.item = i])

\* The dialog is given the address, not the box that is shown.
addToBox(t) ==
  \E i \in Items : Begin(t, [NoTask EXCEPT !.kind = "add", !.box = page.address, !.item = i])

handleDeleteBox(t) ==
  /\ page.shown.items = {}
  /\ Begin(t, [NoTask EXCEPT !.kind = "delete", !.box = page.shown.box])

\* No user, or the confirmation is cancelled.
Decline(t) ==
  /\ task[t].pc = "ask" /\ task' = [task EXCEPT ![t] = NoTask]
  /\ UNCHANGED <<store, keyed, page, load, clicks, foreign, undone>>

\* What was read before this moment is out of date.
Outdated(ts) ==
  /\ load' = [l \in Loads |-> [load[l] EXCEPT !.fresh = FALSE]]
  /\ task' = [t \in Tasks |-> [ts[t] EXCEPT !.fresh = FALSE]]
PageOutdated == page' = [page EXCEPT !.shown.fresh = FALSE]
Answered(t, pc) == [task EXCEPT ![t].pc = pc]

\* The handler that wrote reloads, unless its page is gone.
Written(t) ==
  /\ Outdated(Answered(t, "ok"))
  /\ IF task[t].here THEN UNCHANGED page ELSE PageOutdated

\* move-box with notes: without a location the place stays.
PostNote(t) ==
  /\ task[t].kind = "note" /\ task[t].box \in rows
  /\ note' = [note EXCEPT ![task[t].box] = task[t].note]
  /\ IF task[t].place \in {NoPlace, place[task[t].box]}
     THEN UNCHANGED <<place, undone, page>>
     ELSE /\ place' = [place EXCEPT ![task[t].box] = task[t].place]
          /\ undone' = undone \cup {task[t].fresh} /\ PageOutdated
  /\ Outdated(Answered(t, "ok"))
  /\ UNCHANGED <<rows, inside>>

\* move-box without notes takes them for empty.
NotesWritten(t) == [note EXCEPT ![task[t].box] = NoNote]

PostRelocation(t) ==
  /\ task[t].kind = "relocate" /\ task[t].box \in rows
  /\ place' = [place EXCEPT ![task[t].box] = task[t].place]
  /\ note' = NotesWritten(t)
  /\ Written(t) /\ UNCHANGED <<rows, inside, undone>>

\* The item leaves its box with its last piece.
PostRemove(t) ==
  /\ task[t].kind = "remove"
  /\ inside' \in {inside, [inside EXCEPT ![task[t].item] = NoBox]}
  /\ Written(t) /\ UNCHANGED <<rows, place, note, undone>>

PostAdd(t) ==
  /\ task[t].kind = "add" /\ task[t].box \in rows
  /\ inside' = [inside EXCEPT ![task[t].item] = task[t].box]
  /\ Written(t) /\ UNCHANGED <<rows, place, note, undone>>

Empty(b) == \A i \in Items : inside[i] # b
PostDelete(t) ==
  /\ task[t].kind = "delete" /\ task[t].box \in rows /\ Empty(task[t].box)
  /\ rows' = rows \ {task[t].box}
  /\ Written(t) /\ UNCHANGED <<place, note, inside, undone>>

\* No such box, or it is not empty.
PostRefused(t) ==
  /\ task[t].kind # "remove"
  /\ task[t].box \in rows => task[t].kind = "delete" /\ ~Empty(task[t].box)
  /\ task' = Answered(t, "refused")
  /\ UNCHANGED <<store, page, load, undone>>

Post(t) ==
  /\ task[t].pc = "ask"
  /\ PostNote(t) \/ PostRelocation(t) \/ PostRemove(t) \/ PostAdd(t) \/ PostDelete(t) \/ PostRefused(t)
  /\ UNCHANGED <<keyed, clicks, foreign>>

\* Wrong variant: the page is not loaded again after a relocation.
ReloadAfterItems(t) == task[t].kind \in {"remove", "add"}

Reloads(t) == task[t].kind \in {"relocate", "remove", "add"}

\* A save of notes sets what the page shows already.
Answer(t) ==
  /\ task[t].pc \in {"ok", "refused"}
  /\ task' = [task EXCEPT ![t] = NoTask]
  /\ IF task[t].pc = "ok" /\ task[t].here
     THEN \/ /\ Reloads(t) /\ UNCHANGED page
             /\ \E l \in Loads : Free(l) /\ load' = StartLoad(l, task[t].address, FALSE)
          \/ /\ task[t].kind = "delete"
             /\ page' = Blank(NoBox) /\ load' = [l \in Loads |-> NoLoad]
          \/ ~Reloads(t) /\ task[t].kind # "delete" /\ UNCHANGED <<page, load>>
     ELSE UNCHANGED <<page, load>>
  /\ UNCHANGED <<store, keyed, clicks, foreign, undone>>

\* The server has written and nobody hears of it.
AnswerLost(t) ==
  /\ task[t].pc = "ok" /\ task' = [task EXCEPT ![t] = NoTask]
  /\ IF task[t].here THEN PageOutdated ELSE UNCHANGED page
  /\ UNCHANGED <<store, keyed, load, clicks, foreign, undone>>

-----------------------------------------------------------------------------
(* Others *)

ByOthers ==
  /\ foreign > 0 /\ foreign' = foreign - 1
  /\ Outdated(task) /\ PageOutdated
  /\ UNCHANGED <<keyed, clicks, undone>>

BoxChanges(b) ==
  /\ b \in rows /\ ByOthers
  /\ \E p \in Places, n \in Notes \cup {NoNote} :
       place' = [place EXCEPT ![b] = p] /\ note' = [note EXCEPT ![b] = n]
  /\ UNCHANGED <<rows, inside>>

ItemMoves(i) ==
  /\ ByOthers
  /\ \E b \in rows \cup {NoBox} : inside' = [inside EXCEPT ![i] = b]
  /\ UNCHANGED <<rows, place, note>>

BoxDeleted(b) ==
  /\ b \in rows /\ Empty(b) /\ ByOthers
  /\ rows' = rows \ {b}
  /\ UNCHANGED <<place, note, inside>>

-----------------------------------------------------------------------------
(* Specification *)

\* All boxes stand on one shelf and have the same notes.
Init ==
  /\ rows = Boxes
  /\ \E p \in Places, n \in Notes : place = [b \in Boxes |-> p] /\ note = [b \in Boxes |-> n]
  /\ inside \in [Items -> Boxes \cup {NoBox}]
  /\ keyed \in BOOLEAN /\ page = Blank(NoBox)
  /\ load = [l \in Loads |-> NoLoad] /\ task = [t \in Tasks |-> NoTask]
  /\ clicks = MaxClicks /\ foreign = MaxForeign /\ undone = {}

Browse(l) == Retry(l) \/ ReadBox(l) \/ FinishLoad(l) \/ LoadFails(l)
Command(t) == saveBoxNoteAndPhoto(t) \/ saveShelfDetails(t) \/ submitRelocation(t)
              \/ removeItem(t) \/ addToBox(t) \/ handleDeleteBox(t)

Next ==
  \/ \E l \in Loads : Browse(l) \/ \E b \in Boxes : Open(b, l)
  \/ \E t \in Tasks : Command(t) \/ Decline(t) \/ Post(t) \/ Answer(t) \/ AnswerLost(t)
  \/ \E n \in Notes \cup {NoNote} : Type(n)
  \/ \E b \in Boxes : BoxChanges(b) \/ BoxDeleted(b)
  \/ \E i \in Items : ItemMoves(i)

Spec == Init /\ [][Next]_vars

-----------------------------------------------------------------------------
(* Properties *)

Shown == [box : Boxes \cup {NoBox}, place : Places \cup {NoPlace}, note : Notes \cup {NoNote},
          items : SUBSET Items, fresh : BOOLEAN]

\* The variables stay in their sets.
TypeOK ==
  /\ rows \subseteq Boxes /\ place \in [Boxes -> Places \cup {NoPlace}]
  /\ note \in [Boxes -> Notes \cup {NoNote}] /\ inside \in [Items -> Boxes \cup {NoBox}]
  /\ page.address \in Boxes \cup {NoBox} /\ page.shown \in Shown /\ page.loading \in BOOLEAN
  /\ \A l \in Loads : load[l].pc \in {"none", "sent", "read"} /\ load[l].found \in Shown
  /\ \A t \in Tasks : task[t].pc \in {"none", "ask", "ok", "refused"}
  /\ clicks \in 0..MaxClicks /\ foreign \in 0..MaxForeign /\ undone \subseteq BOOLEAN

\* Saving notes, which posts the place along, puts a box back where it was only if the
\* operator could not have known better: something was still under way when the save
\* was started or before it arrived, an answer was lost, or others moved the box.
PlaceUndoneOnlyUnseen == TRUE \notin undone

\* Once everything it started has ended, the page shows where the box stands and what is
\* in it, unless an answer was lost or others changed it.
RestShowsStored ==
  AtRest /\ page.shown.box # NoBox /\ page.shown.fresh
    => /\ page.shown.box \in rows /\ page.shown.place = place[page.shown.box]
       /\ page.shown.items = {i \in Items : inside[i] = page.shown.box}

\* "move-box updates boxes.LocationId and boxes.Label (plus optional photo fields)": the
\* notes of a box change only where notes are saved.
NotesOnlyBySave ==
  [][\A b \in rows \cap rows' :
       note'[b] # note[b] => foreign' # foreign \/ \E t \in Tasks : task[t].kind = "note" /\ task[t].box = b]_vars
=============================================================================
