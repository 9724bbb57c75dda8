------------------------------ MODULE SparePartSlot ------------------------------
(***************************************************************************)
(* One slot of the assembly card of a device in the browser                *)
(* (ItemAccessoriesTab, ZubehoerCard, SparepartSlotPopup,                  *)
(* RelocateItemCard): the parts recorded for it.                           *)
(*                                                                         *)
(* The slot takes one part (multipleAllowed is not set); whether the       *)
(* checklist left it empty, present or unanswered makes no difference here.*)
(* The tab shows no parts until they are loaded, and none again when a     *)
(* load fails; the answers of loads are taken in the order they come.      *)
(* What the requests do to the rows is Assemblies; here they only change   *)
(* where a part is.                                                        *)
(***************************************************************************)
EXTENDS Integers, FiniteSets

CONSTANTS
  Parts,      \* pieces of hardware for the slot
  Fetches,    \* bound: loads of the parts in flight
  Tasks,      \* bound: handlers under way
  MaxClicks,  \* bound: commands
  MaxForeign, \* bound: changes made by others
  NoPart

VARIABLES
  where,    \* a part is not recorded, in the device, or taken out
  shown,    \* spareParts; fresh: nothing the operator could not know made it outdated
  known,    \* whether the article of such parts is known (knownRef)
  popup,    \* openPopupSlot
  fetch,    \* loads of the parts
  task,     \* handlers
  doubled,  \* history: a second part was recorded, and whether with an excuse
  clicks, foreign  \* bounds

page == <<shown, known, popup>>
vars == <<where, page, fetch, task, doubled, clicks, foreign>>

Spots == {"none", "device", "box"}
At(spot) == {p \in Parts : where[p] = spot}

NoFetch == [pc |-> "none", inside |-> {}, taken |-> {}, fresh |-> TRUE]
NoTask == [kind |-> "none", pc |-> "none", part |-> NoPart, fresh |-> TRUE]
Closed == [open |-> FALSE, fresh |-> TRUE]
Free(f) == fetch[f].pc = "none"

\* Nothing is under way whose end the operator could have waited for.
AtRest == (\A f \in Fetches : Free(f)) /\ \A t \in Tasks : task[t].kind = "none"

-----------------------------------------------------------------------------
(* Loads *)

\* fetchSpareParts
Sent(f) == [fetch EXCEPT ![f] = [NoFetch EXCEPT !.pc = "sent"]]

ReadParts(f) ==
  /\ fetch[f].pc = "sent"
  /\ fetch' = [fetch EXCEPT ![f] = [@ EXCEPT !.pc = "read", !.inside = At("device"), !.taken = At("box")]]
  /\ UNCHANGED <<where, page, task, doubled, clicks, foreign>>

ShowParts(f) ==
  /\ fetch[f].pc = "read"
  /\ shown' = [inside |-> fetch[f].inside, taken |-> fetch[f].taken, fresh |-> fetch[f].fresh]
  /\ fetch' = [fetch EXCEPT ![f] = NoFetch]
  /\ UNCHANGED <<where, known, popup, task, doubled, clicks, foreign>>

PartsUnknown(f) ==
  /\ ~Free(f)
  /\ shown' = [inside |-> {}, taken |-> {}, fresh |-> FALSE]
  /\ fetch' = [fetch EXCEPT ![f] = NoFetch]
  /\ UNCHANGED <<where, known, popup, task, doubled, clicks, foreign>>

-----------------------------------------------------------------------------
(* Commands *)

\* deriveSlotState: a part in the device comes before those taken out.
State == CASE shown.inside # {} -> "cataloged"
           [] shown.inside = {} /\ shown.taken # {} -> "removed"
           [] OTHER -> "unknown"

\* Wrong variant: a slot is recorded again whatever is in it.
Always == TRUE

canErfassen == State # "cataloged"

Begin(t, kind, p, fresh) ==
  /\ clicks > 0 /\ clicks' = clicks - 1
  /\ task[t].kind = "none"
  /\ task' = [task EXCEPT ![t] = [kind |-> kind, pc |-> "ask", part |-> p,
                                  fresh |-> fresh /\ shown.fresh /\ AtRest]]
  /\ UNCHANGED <<where, page, fetch, doubled, foreign>>

\* The article of the part is known, and one click records it, ...
handleDirectErfassen(t) == known /\ canErfassen /\ Begin(t, "record", NoPart, TRUE)

\* ... or it is chosen in a dialog, which stays open whatever the card shows by then.
OpenPopup ==
  /\ ~known /\ canErfassen /\ ~popup.open /\ clicks > 0
  /\ popup' = [open |-> TRUE, fresh |-> shown.fresh /\ AtRest]
  /\ clicks' = clicks - 1
  /\ UNCHANGED <<where, shown, known, fetch, task, doubled, foreign>>

\* handleConfirm, or handleCreate for an article that is not there yet.
RecordFromPopup(t) == popup.open /\ Begin(t, "record", NoPart, popup.fresh)

ClosePopup ==
  /\ popup.open /\ popup' = Closed
  /\ UNCHANGED <<where, shown, known, fetch, task, doubled, clicks, foreign>>

\* "Entnehmen" and "Loesen" are for a part the list shows in the device.
handleRelocateSubmit(t) == \E p \in shown.inside : Begin(t, "take", p, TRUE)
handleLoesen(t) == \E p \in shown.inside : Begin(t, "delete", p, TRUE)

Decline(t) ==
  /\ task[t].pc \in {"ask", "missing"} /\ task' = [task EXCEPT ![t] = NoTask]
  /\ UNCHANGED <<where, page, fetch, doubled, clicks, foreign>>

\* What was read before this moment is out of date.
Outdated(ts) ==
  /\ fetch' = [f \in Fetches |-> [fetch[f] EXCEPT !.fresh = FALSE]]
  /\ task' = [t \in Tasks |-> [ts[t] EXCEPT !.fresh = FALSE]]

Accept(t, p, spot) ==
  /\ where' = [where EXCEPT ![p] = spot]
  /\ Outdated([task EXCEPT ![t].pc = "ok"])
Refuse(t, pc) == task' = [task EXCEPT ![t].pc = pc] /\ UNCHANGED <<where, fetch>>

\* Nothing on the server keeps a slot to one part.
PostRecord(t) ==
  /\ task[t].kind = "record" /\ task[t].pc = "ask"
  /\ \/ /\ \E p \in At("none") : Accept(t, p, "device")
        /\ doubled' = IF At("device") = {} THEN doubled ELSE doubled \cup {task[t].fresh}
     \/ Refuse(t, "failed") /\ UNCHANGED doubled
  /\ UNCHANGED <<page, clicks, foreign>>

\* performRelocate.  Not found is taken for a missing box, also when the part is gone.
PostTake(t) ==
  /\ task[t].kind = "take" /\ task[t].pc \in {"ask", "again"}
  /\ \/ where[task[t].part] # "none" /\ Accept(t, task[t].part, "box")
     \/ Refuse(t, IF task[t].pc = "ask" THEN "missing" ELSE "failed")
     \/ Refuse(t, "failed")
  /\ UNCHANGED <<page, doubled, clicks, foreign>>

createBoxForRelocation(t) ==
  /\ task[t].pc = "missing"
  /\ \E pc \in {"again", "failed"} : Refuse(t, pc)
  /\ UNCHANGED <<page, doubled, clicks, foreign>>

\* Only a part that is in no box is deleted; the card does not ask what came of it.
PostDelete(t) ==
  /\ task[t].kind = "delete" /\ task[t].pc = "ask"
  /\ IF where[task[t].part] = "device" THEN Accept(t, task[t].part, "none") ELSE Refuse(t, "ok")
  /\ UNCHANGED <<page, doubled, clicks, foreign>>

\* onSparepartChanged
Reloads(t) == task[t].pc = "ok"

Answered(t) ==
  /\ task[t].pc \in {"ok", "failed"} /\ task' = [task EXCEPT ![t] = NoTask]
  /\ IF Reloads(t) THEN \E f \in Fetches : Free(f) /\ fetch' = Sent(f) ELSE UNCHANGED fetch
  /\ popup' = IF task[t].kind = "record" /\ task[t].pc = "ok" THEN Closed ELSE popup
  /\ UNCHANGED <<where, shown, known, doubled, clicks, foreign>>

\* The server has written and nobody hears of it: nothing is loaded again.
AnswerLost(t) ==
  /\ task[t].pc = "ok" /\ task' = [task EXCEPT ![t] = NoTask]
  /\ shown' = [shown EXCEPT !.fresh = FALSE]
  /\ UNCHANGED <<where, known, popup, fetch, doubled, clicks, foreign>>

\* Intake, other pages and the removal of the device change the parts, too.
PartChanges(p) ==
  /\ foreign > 0 /\ foreign' = foreign - 1
  /\ \E spot \in Spots : where' = [where EXCEPT ![p] = spot]
  /\ Outdated(task) /\ shown' = [shown EXCEPT !.fresh = FALSE]
  /\ UNCHANGED <<known, popup, doubled, clicks>>

-----------------------------------------------------------------------------
(* Specification *)

\* The tab has just been opened.
Init ==
  /\ where \in [Parts -> Spots] /\ Cardinality(At("device")) <= 1
  /\ shown = [inside |-> {}, taken |-> {}, fresh |-> TRUE]
  /\ known \in BOOLEAN /\ popup = Closed
  /\ \E first \in Fetches :
       fetch = [f \in Fetches |-> IF f = first THEN [NoFetch EXCEPT !.pc = "sent"] ELSE NoFetch]
  /\ task = [t \in Tasks |-> NoTask]
  /\ doubled = {} /\ clicks = MaxClicks /\ foreign = MaxForeign

Handle(t) ==
  handleDirectErfassen(t) \/ RecordFromPopup(t) \/ handleRelocateSubmit(t) \/ handleLoesen(t)
  \/ PostRecord(t) \/ PostTake(t) \/ createBoxForRelocation(t) \/ PostDelete(t)
  \/ Answered(t) \/ AnswerLost(t) \/ Decline(t)

Next ==
  \/ \E f \in Fetches : ReadParts(f) \/ ShowParts(f) \/ PartsUnknown(f)
  \/ OpenPopup \/ ClosePopup
  \/ \E t \in Tasks : Handle(t)
  \/ \E p \in Parts : PartChanges(p)

Spec == Init /\ [][Next]_vars

-----------------------------------------------------------------------------
(* Properties *)

\* The variables stay in their sets.
TypeOK ==
  /\ where \in [Parts -> Spots] /\ shown.inside \cup shown.taken \subseteq Parts
  /\ shown.fresh \in BOOLEAN /\ known \in BOOLEAN /\ popup \in [open : BOOLEAN, fresh : BOOLEAN]
  /\ \A f \in Fetches : fetch[f].pc \in {"none", "sent", "read"}
  /\ \A t \in Tasks : task[t].pc \in {"none", "ask", "missing", "again", "ok", "failed"}
  /\ doubled \subseteq BOOLEAN /\ clicks \in 0..MaxClicks /\ foreign \in 0..MaxForeign

\* A second part is recorded for a slot whose part is still in the device only where the
\* operator could not have known: the list was not there yet, had failed or was being
\* loaded again, a click was repeated, an answer was lost, or others recorded the first.
DoubledOnlyUnseen == TRUE \notin doubled
=============================================================================
