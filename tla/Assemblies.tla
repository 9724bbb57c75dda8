------------------------------- MODULE Assemblies -------------------------------
(***************************************************************************)
(* A device and its parts: cataloguing a part that is still inside,         *)
(* intake of the parts a scan finds, taking a part out into a box, and      *)
(* removing the device with what is left in it.                             *)
(*                                                                         *)
(* A part inside is a row without a box and with a Zerlegt_aus relation.    *)
(* A part found by a scan has no article and a temporary id; it gets both   *)
(* when it graduates.  A row is named here by its piece of hardware, and    *)
(* an id by the piece and whether it is the final one: a statement finds    *)
(* the row by the id it was given.  A relation to an id that is no longer   *)
(* in use joins no row and is left out.  Boxes are not deleted (Inventory). *)
(***************************************************************************)
EXTENDS Integers, FiniteSets, FiniteSetsExt

CONSTANTS
  Parts,       \* pieces that are, or become, parts of the device
  Boxes,       \* BoxIDs
  MaxRef,      \* bound: article numbers 1..MaxRef; 0 is none
  Slots,       \* the slots of the assembly contract
  Handlers,    \* bound: requests in flight at once
  MaxRequests, \* bound: requests issued
  Calls,       \* the operations this instance issues
  NoSlot, NoBox, NoPart

VARIABLES
  device,     \* whether the device has its row
  rows,       \* the parts that have a row
  ref,        \* items."Artikel_Nummer" of a part
  box,        \* items."BoxID" of a part
  relation,   \* "RelationType" of the part's relation to the device
  slot,       \* "SlotKey" of that relation
  scanned,    \* the parts whose row has the serial number of the scan
  boxes,      \* the box rows
  refs,       \* the article rows
  compat,     \* "RelationType" of the device's article to an article
  incomplete, \* whether the device is marked as a donor of spare parts
  excused,    \* history: the mark was declined, failed, or reviewed since, or missed
  lost,       \* history: parts deleted in a box, and whether by a race
  doubled,    \* history: whether each repeated serial was stored by a race
  req,        \* requests in flight
  budget      \* requests left

table == <<device, rows, ref, box, relation, slot, scanned, boxes, refs, compat>>
vars == <<table, incomplete, excused, lost, doubled, req, budget>>

Refs == 1..MaxRef
Kinds == {"none", "Zerlegt_aus", "Zubehoer"}   \* "Zubehoer" is spelt with an umlaut in the code
Id == [part : Parts, final : BOOLEAN]
IdOf(p) == [part |-> p, final |-> ref[p] # 0]

\* The row an id names, if there is one.
Current(id) == id.part \in rows /\ IdOf(id.part) = id

\* Wrong variant: the box is not looked at.
CameFromDevice(p) == p \in rows /\ relation[p] = "Zerlegt_aus"

InDevice(p) == p \in rows /\ relation[p] = "Zerlegt_aus" /\ box[p] = NoBox

Operations == {"catalog", "newRef", "unlinkPart", "removeDevice", "take", "move",
               "link", "intake"}
Steps == {"rest", "write", "list", "delete", "resolve", "mint", "graduate", "mark",
          "look", "insert"}

Idle(ok) == [op |-> "none", pc |-> "rest", id |-> [part |-> NoPart, final |-> FALSE],
             ref |-> 0, box |-> NoBox, slot |-> NoSlot, todo |-> {}, mark |-> FALSE,
             overtaken |-> FALSE, ok |-> ok]

Request(op, pc, id) == [Idle(TRUE) EXCEPT !.op = op, !.pc = pc, !.id = id]

At(h, op, pc) == req[h].op = op /\ req[h].pc = pc
Issue(h, r) ==
  /\ r.op \in Calls /\ req[h].op = "none" /\ budget > 0
  /\ req' = [req EXCEPT ![h] = r]
  /\ budget' = budget - 1
Step(h, pc) == req' = [req EXCEPT ![h].pc = pc]
Answer(h, ok) == req' = [req EXCEPT ![h] = Idle(ok)]

\* The requests that read part p before now act on what they read.
Overtaking(r, p) ==
  [r EXCEPT !.overtaken = @ \/ r.id.part = p \/ \E id \in r.todo : id.part = p]
AnswerPlaced(h, pc, p) ==
  req' = [g \in Handlers |-> IF g # h THEN Overtaking(req[g], p)
                             ELSE IF pc = "rest" THEN Idle(TRUE) ELSE [req[h] EXCEPT !.pc = pc]]

NoMarks == UNCHANGED <<incomplete, excused>>
NoLoss == UNCHANGED <<lost, doubled>>
Reads == UNCHANGED <<table, incomplete, excused, lost, doubled>>

-----------------------------------------------------------------------------
(* Writes *)

\* INSERT INTO items and item_relations: both keys must be free.
KeysFree(p) == p \notin rows /\ relation[p] = "none"

\* The id of a deleted part is minted again (IdMinting); a move that read the deleted one
\* takes the new part out and marks nothing.
Mistaken(p, r) ==
  \E g \in Handlers : req[g].op = "move" /\ ~req[g].mark /\ req[g].id = [part |-> p, final |-> r # 0]

InsertPart(p, r, s) ==
  /\ excused' = (excused \/ Mistaken(p, r))
  /\ rows' = rows \cup {p}
  /\ ref' = [ref EXCEPT ![p] = r]
  /\ box' = [box EXCEPT ![p] = NoBox]
  /\ relation' = [relation EXCEPT ![p] = "Zerlegt_aus"]
  /\ slot' = [slot EXCEPT ![p] = s]

\* ON CONFLICT DO NOTHING: an accessory stays an accessory.
Provenance(r) == compat' = IF compat[r] = "none" THEN [compat EXCEPT ![r] = "Ersatzteil"] ELSE compat

DropRows(S) ==
  /\ rows' = rows \ S
  /\ ref' = [p \in Parts |-> IF p \in S THEN 0 ELSE ref[p]]
  /\ box' = [p \in Parts |-> IF p \in S THEN NoBox ELSE box[p]]
  /\ scanned' = scanned \ S
DropRelations(S) ==
  /\ relation' = [p \in Parts |-> IF p \in S THEN "none" ELSE relation[p]]
  /\ slot' = [p \in Parts |-> IF p \in S THEN NoSlot ELSE slot[p]]
ZerlegtAus(S) == {p \in S : relation[p] = "Zerlegt_aus"}
Mislaid(S, h) == {[part |-> p, raced |-> req[h].overtaken] : p \in {q \in S : box[q] # NoBox}}

-----------------------------------------------------------------------------
(* Cataloguing and unlinking *)

\* The device is read, an id is minted and looked up.
ReadCatalog(h) ==
  /\ device
  /\ \E p \in Parts \ rows, r \in refs, s \in Slots :
       Issue(h, [Request("catalog", "write", [part |-> p, final |-> TRUE])
                   EXCEPT !.ref = r, !.slot = s])
  /\ Reads

Catalog(h) ==
  /\ At(h, "catalog", "write")
  /\ IF KeysFree(req[h].id.part)
     THEN /\ InsertPart(req[h].id.part, req[h].ref, req[h].slot) /\ Provenance(req[h].ref)
          /\ Answer(h, TRUE)
          /\ UNCHANGED <<device, scanned, boxes, refs>>
     ELSE Answer(h, FALSE) /\ UNCHANGED <<table, excused>>
  /\ NoLoss /\ UNCHANGED <<incomplete, budget>>

NextRef == Max(refs \cup {0}) + 1

\* A part of a new article: its number is the highest plus one, read before.
ReadNewRef(h) ==
  /\ device /\ NextRef <= MaxRef
  /\ \E p \in Parts \ rows, s \in Slots :
       Issue(h, [Request("newRef", "write", [part |-> p, final |-> TRUE])
                   EXCEPT !.ref = NextRef, !.slot = s])
  /\ Reads

NewRef(h) ==
  /\ At(h, "newRef", "write")
  /\ IF req[h].ref \notin refs /\ KeysFree(req[h].id.part)
     THEN /\ InsertPart(req[h].id.part, req[h].ref, req[h].slot) /\ Provenance(req[h].ref)
          /\ refs' = refs \cup {req[h].ref}
          /\ Answer(h, TRUE)
          /\ UNCHANGED <<device, scanned, boxes>>
     ELSE Answer(h, FALSE) /\ UNCHANGED <<table, excused>>
  /\ NoLoss /\ UNCHANGED <<incomplete, budget>>

\* Loesen is refused for a part that lies in a box ...
ReadUnlinkPart(h) ==
  /\ \E p \in rows :
       /\ box[p] = NoBox
       /\ Issue(h, Request("unlinkPart", "write", IdOf(p)))
  /\ Reads

\* ... and deletes the row by its id.
UnlinkPart(h) ==
  /\ At(h, "unlinkPart", "write")
  /\ LET S == IF Current(req[h].id) THEN {req[h].id.part} ELSE {} IN
     /\ DropRows(S) /\ DropRelations(ZerlegtAus(S))
     /\ lost' = lost \cup Mislaid(S, h)
  /\ Answer(h, TRUE)
  /\ UNCHANGED <<device, boxes, refs, compat, doubled, budget>> /\ NoMarks

-----------------------------------------------------------------------------
(* Removing the device *)

ReadRemoveDevice(h) ==
  /\ device
  /\ Issue(h, Request("removeDevice", "list", Idle(TRUE).id))
  /\ Reads

\* The parts inside are listed, after the stock of the device is zeroed ...
ListUnextracted(h) ==
  /\ At(h, "removeDevice", "list")
  /\ req' = [req EXCEPT ![h].pc = "delete", ![h].todo = {IdOf(p) : p \in {q \in rows : InDevice(q)}}]
  /\ Reads /\ UNCHANGED budget

\* ... and deleted by their ids.
DeleteUnextracted(h) ==
  /\ At(h, "removeDevice", "delete")
  /\ LET S == {id.part : id \in {d \in req[h].todo : Current(d)}} IN
     /\ DropRows(S) /\ DropRelations(ZerlegtAus(S))
     /\ lost' = lost \cup Mislaid(S, h)
  /\ Answer(h, TRUE)
  /\ UNCHANGED <<device, boxes, refs, compat, doubled, budget>> /\ NoMarks

-----------------------------------------------------------------------------
(* Taking a part out *)

needsGraduation(id) == ~id.final

\* remove-from-device takes any part with its relation, also one in a box.
ReadTake(h) ==
  /\ \E p \in rows, b \in boxes, marked \in BOOLEAN :
       /\ relation[p] = "Zerlegt_aus"
       /\ Issue(h, [Request("take", IF needsGraduation(IdOf(p)) THEN "resolve" ELSE "write", IdOf(p))
                      EXCEPT !.box = b, !.mark = marked])
  /\ Reads

\* The article a part graduates to exists, or is the highest number plus one.
resolveGraduationRef(h) ==
  /\ At(h, "take", "resolve")
  /\ \/ \E r \in refs : req' = [req EXCEPT ![h].ref = r, ![h].pc = "graduate"]
     \/ NextRef <= MaxRef /\ req' = [req EXCEPT ![h].ref = NextRef, ![h].pc = "mint"]
  /\ Reads /\ UNCHANGED budget

\* It is stored before the transaction and stays if that fails.
MintRef(h) ==
  /\ At(h, "take", "mint")
  /\ IF req[h].ref \in refs
     THEN Answer(h, FALSE) /\ UNCHANGED refs
     ELSE refs' = refs \cup {req[h].ref} /\ Step(h, "graduate")
  /\ UNCHANGED <<device, rows, ref, box, relation, slot, scanned, boxes, compat, budget>>
  /\ NoMarks /\ NoLoss

PlacePart(p, b) == box' = [box EXCEPT ![p] = b]

graduateComponentInTx(h) ==
  /\ At(h, "take", "graduate")
  /\ IF Current(req[h].id) /\ ref[req[h].id.part] = 0
     THEN /\ ref' = [ref EXCEPT ![req[h].id.part] = req[h].ref]
          /\ PlacePart(req[h].id.part, req[h].box)
          /\ IF relation[req[h].id.part] = "Zerlegt_aus" /\ device
             THEN Provenance(req[h].ref) ELSE UNCHANGED compat
          /\ AnswerPlaced(h, "mark", req[h].id.part)
     ELSE Answer(h, FALSE) /\ UNCHANGED <<ref, box, compat>>
  /\ UNCHANGED <<device, rows, relation, slot, scanned, boxes, refs, budget>>
  /\ NoMarks /\ NoLoss

Relocate(h) ==
  /\ At(h, "take", "write")
  /\ IF Current(req[h].id)
     THEN PlacePart(req[h].id.part, req[h].box) /\ AnswerPlaced(h, "mark", req[h].id.part)
     ELSE Step(h, "mark") /\ UNCHANGED box
  /\ UNCHANGED <<device, rows, ref, relation, slot, scanned, boxes, refs, compat, budget>>
  /\ NoMarks /\ NoLoss

\* Wrong variant: a part that is moved leaves no trace at its device.
ReadMoveOnly(h) ==
  /\ \E p \in rows, b \in boxes : Issue(h, [Request("move", "write", IdOf(p)) EXCEPT !.box = b])
  /\ Reads

\* Whether the part counts as leaving the device is decided by what was read.
ReadMove(h) ==
  /\ \E p \in rows, b \in boxes :
       Issue(h, [Request("move", "write", IdOf(p)) EXCEPT !.box = b, !.mark = InDevice(p)])
  /\ Reads

Move(h) ==
  /\ At(h, "move", "write")
  /\ LET next == IF req[h].mark THEN "mark" ELSE "rest" IN
     IF Current(req[h].id)
     THEN PlacePart(req[h].id.part, req[h].box) /\ AnswerPlaced(h, next, req[h].id.part)
     ELSE box' = box /\ IF next = "mark" THEN Step(h, next) ELSE Answer(h, TRUE)
  /\ UNCHANGED <<device, rows, ref, relation, slot, scanned, boxes, refs, compat, budget>>
  /\ NoMarks /\ NoLoss

\* The device becomes a donor; an error is logged and the request succeeds.
MarkParent(h) ==
  /\ req[h].pc = "mark"
  /\ \/ req[h].mark /\ incomplete' = TRUE /\ UNCHANGED excused
     \/ excused' = TRUE /\ UNCHANGED incomplete
  /\ Answer(h, TRUE)
  /\ UNCHANGED <<table, budget>> /\ NoLoss

-----------------------------------------------------------------------------
(* Relations by hand *)

ReadLink(h) ==
  /\ device
  /\ \E p \in rows : Issue(h, Request("link", "write", IdOf(p)))
  /\ Reads

\* UNIQUE (parent, child): a second relation is refused.
Link(h) ==
  /\ At(h, "link", "write")
  /\ IF relation[req[h].id.part] = "none"
     THEN /\ relation' = IF Current(req[h].id)
                         THEN [relation EXCEPT ![req[h].id.part] = "Zubehoer"] ELSE relation
          /\ Answer(h, TRUE)
     ELSE Answer(h, FALSE) /\ UNCHANGED relation
  /\ UNCHANGED <<device, rows, ref, box, slot, scanned, boxes, refs, compat, budget>>
  /\ NoMarks /\ NoLoss

\* DELETE asks for the pair and not for the type: a part inside is cut loose.
Unlink(p) ==
  /\ p \in rows /\ relation[p] # "none" /\ budget > 0
  /\ DropRelations({p}) /\ budget' = budget - 1
  /\ UNCHANGED <<device, rows, ref, box, scanned, boxes, refs, compat, req>>
  /\ NoMarks /\ NoLoss

LinkRef(r) ==
  /\ compat[r] = "none" /\ budget > 0
  /\ compat' = [compat EXCEPT ![r] = "Zubehoer"] /\ budget' = budget - 1
  /\ UNCHANGED <<device, rows, ref, box, relation, slot, scanned, boxes, refs, req>>
  /\ NoMarks /\ NoLoss

UnlinkRef(r) ==
  /\ compat[r] # "none" /\ budget > 0
  /\ compat' = [compat EXCEPT ![r] = "none"] /\ budget' = budget - 1
  /\ UNCHANGED <<device, rows, ref, box, relation, slot, scanned, boxes, refs, req>>
  /\ NoMarks /\ NoLoss

-----------------------------------------------------------------------------
(* Intake *)

\* The device of a scan is looked up by its serial and stored if it is new.
ensureItem(h) ==
  /\ Issue(h, Request("intake", "look", Idle(TRUE).id))
  /\ device' = TRUE
  /\ UNCHANGED <<rows, ref, box, relation, slot, scanned, boxes, refs, compat>>
  /\ NoMarks /\ NoLoss

\* Wrong variant: every scan stores its components.
LookNowhere(h) == At(h, "intake", "look") /\ Step(h, "insert") /\ Reads /\ UNCHANGED budget

\* A component is keyed by its serial ...
LookSerial(h) ==
  /\ At(h, "intake", "look")
  /\ IF rows \cap scanned # {} THEN Answer(h, TRUE) ELSE Step(h, "insert")
  /\ Reads /\ UNCHANGED budget

\* ... which no constraint keeps unique; a failing batch is logged only.
InsertComponent(h) ==
  /\ At(h, "intake", "insert")
  /\ \/ \E p \in Parts :
          /\ KeysFree(p) /\ InsertPart(p, 0, NoSlot)
          /\ scanned' = scanned \cup {p}
          /\ doubled' = IF rows \cap scanned # {} THEN doubled \cup {req[h].overtaken} ELSE doubled
          /\ req' = [g \in Handlers |->
                       IF g = h THEN Idle(TRUE)
                       ELSE [req[g] EXCEPT !.overtaken = @ \/ req[g].op = "intake"]]
     \/ Answer(h, TRUE) /\ UNCHANGED <<rows, ref, box, relation, slot, scanned, doubled, excused>>
  /\ UNCHANGED <<device, boxes, refs, compat, incomplete, lost, budget>>

\* A review stores a quality of its own.
Review(value) ==
  /\ device /\ budget > 0
  /\ incomplete' = value /\ excused' = TRUE /\ budget' = budget - 1
  /\ UNCHANGED <<table, req>> /\ NoLoss

-----------------------------------------------------------------------------
(* What the rest of the program does to these rows (Inventory) *)

\* A part leaves its box: cleared, sold, or its box deleted.
Unplace(p) ==
  /\ p \in rows /\ box[p] # NoBox /\ budget > 0
  /\ box' = [box EXCEPT ![p] = NoBox] /\ budget' = budget - 1
  /\ UNCHANGED <<device, rows, ref, relation, slot, scanned, boxes, refs, compat, req>>
  /\ NoMarks /\ NoLoss

\* A bulk move places a part and marks no device.
PlaceInBulk(p) ==
  /\ p \in rows /\ budget > 0
  /\ \E b \in boxes : PlacePart(p, b)
  /\ budget' = budget - 1
  /\ excused' = TRUE
  /\ req' = [g \in Handlers |-> Overtaking(req[g], p)]
  /\ UNCHANGED <<device, rows, ref, relation, slot, scanned, boxes, refs, compat, incomplete>>
  /\ NoLoss

\* Deleting a row leaves its relation.
DeleteItem(p) ==
  /\ p \in rows /\ budget > 0
  /\ DropRows({p}) /\ budget' = budget - 1
  /\ UNCHANGED <<device, relation, slot, boxes, refs, compat, req>>
  /\ NoMarks /\ NoLoss

CreateBox(b) ==
  /\ b \notin boxes /\ budget > 0
  /\ boxes' = boxes \cup {b} /\ budget' = budget - 1
  /\ UNCHANGED <<device, rows, ref, box, relation, slot, scanned, refs, compat, req>>
  /\ NoMarks /\ NoLoss

-----------------------------------------------------------------------------
(* Specification *)

\* A device with one article of part in the catalogue.
Init ==
  /\ device \in BOOLEAN /\ rows = {}
  /\ ref = [p \in Parts |-> 0] /\ box = [p \in Parts |-> NoBox]
  /\ relation = [p \in Parts |-> "none"] /\ slot = [p \in Parts |-> NoSlot]
  /\ scanned = {}
  /\ boxes \in SUBSET Boxes
  /\ refs = {1} /\ compat = [r \in Refs |-> "none"]
  /\ incomplete = FALSE /\ excused = FALSE /\ lost = {} /\ doubled = {}
  /\ req = [h \in Handlers |-> Idle(TRUE)]
  /\ budget = MaxRequests

Read(h) == ReadCatalog(h) \/ ReadNewRef(h) \/ ReadUnlinkPart(h) \/ ReadRemoveDevice(h)
           \/ ReadTake(h) \/ ReadMove(h) \/ ReadLink(h) \/ ensureItem(h)

Serve(h) == Catalog(h) \/ NewRef(h) \/ UnlinkPart(h) \/ ListUnextracted(h)
            \/ DeleteUnextracted(h) \/ resolveGraduationRef(h) \/ MintRef(h)
            \/ graduateComponentInTx(h) \/ Relocate(h) \/ Move(h) \/ MarkParent(h)
            \/ Link(h) \/ LookSerial(h) \/ InsertComponent(h)

Elsewhere ==
  \/ \E p \in Parts : Unlink(p) \/ Unplace(p) \/ PlaceInBulk(p) \/ DeleteItem(p)
  \/ \E r \in Refs : LinkRef(r) \/ UnlinkRef(r)
  \/ \E b \in Boxes : CreateBox(b)
  \/ \E value \in BOOLEAN : Review(value)

Next == (\E h \in Handlers : Read(h) \/ Serve(h)) \/ Elsewhere

Spec == Init /\ [][Next]_vars

-----------------------------------------------------------------------------
(* Properties *)

\* Every variable has its type, and a part in a box or an article exists.
TypeOK ==
  /\ device \in BOOLEAN /\ rows \subseteq Parts /\ scanned \subseteq rows
  /\ ref \in [Parts -> refs \cup {0}] /\ refs \subseteq Refs
  /\ box \in [Parts -> boxes \cup {NoBox}] /\ boxes \subseteq Boxes
  /\ relation \in [Parts -> Kinds] /\ slot \in [Parts -> Slots \cup {NoSlot}]
  /\ compat \in [Refs -> {"none", "Zubehoer", "Ersatzteil"}]
  /\ incomplete \in BOOLEAN /\ excused \in BOOLEAN
  /\ lost \subseteq [part : Parts, raced : BOOLEAN] /\ doubled \subseteq BOOLEAN
  /\ budget \in 0..MaxRequests
  /\ \A h \in Handlers : req[h].op \in Operations \cup {"none"} /\ req[h].pc \in Steps

\* "extracted children (BoxID set) survive as real inventory": unlinking a part or
\* removing its device deletes a part that lies in a box only if the part was placed
\* after the request had read that it was inside.
LostOnlyByRace == \A l \in lost : l.raced

\* "re-running never duplicates it": a scanned component is stored twice only by two
\* scans that both looked before either stored it.
SerialTwiceOnlyByRace == FALSE \notin doubled

\* A device whose part was taken out is marked as a donor, or is about to be, unless
\* the mark was declined or failed, the device was reviewed, parts were moved in bulk, or
\* a part got the id of one that was being moved when it was deleted.
DonorMarked ==
  (\E p \in rows : relation[p] = "Zerlegt_aus" /\ box[p] # NoBox)
    => incomplete \/ excused \/ \E h \in Handlers : req[h].pc = "mark"
=============================================================================
