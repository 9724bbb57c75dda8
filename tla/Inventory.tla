------------------------------- MODULE Inventory -------------------------------
(***************************************************************************)
(* Items, boxes and their stock: the rows of items and boxes, and the      *)
(* requests that add, remove, move, unplace and delete them.               *)
(*                                                                         *)
(* A handler reads the row, answers 404 or 400 on what it read, and writes *)
(* later.  The helpers of db.ts commit one by one (PooledTransactions), so *)
(* every statement that changes state is a step; the validating reads of   *)
(* one request are one step.  An update of a row that is gone changes      *)
(* nothing and is no error.  Items here have no component relations, and   *)
(* ids are fresh (IdMinting models how they are minted).                   *)
(***************************************************************************)
EXTENDS Integers, FiniteSets

CONSTANTS
  Items,      \* ItemUUIDs
  Boxes,      \* BoxIDs
  Shelves,    \* LocationIds
  Handlers,   \* bound: requests in flight at once
  MaxQty,     \* bound: pieces of one item
  MaxDrift,   \* bound: books and stock this far apart see no more removals
  MaxCrashes, \* bound: restarts from outside
  Requests,   \* the operations this instance issues
  Starts,     \* the sets of items in stock at the start, one piece each, in no box
  BulkKinds,  \* the sets of items that may be counted by quantity
  StartBoxes, \* the boxes at the start
  NoItem, NoBox, NoShelf

Operations == {"remove", "add", "move", "bulkMove", "clear", "delete", "bulkDelete",
               "createBox", "moveBox", "deleteBox"}

ASSUME ItemsAssumption ==
  Starts \subseteq SUBSET Items /\ BulkKinds \subseteq SUBSET Items /\ NoItem \notin Items
ASSUME BoxesAssumption == StartBoxes \subseteq Boxes /\ NoBox \notin Boxes
ASSUME BoundsAssumption == MaxQty \in Nat \ {0} /\ MaxDrift \in Nat /\ MaxCrashes \in Nat
ASSUME RequestsAssumption == Requests \subseteq Operations
ASSUME HandlersAssumption == IsFiniteSet(Handlers)

VARIABLES
  bulk,     \* the items with items."Einheit" = Menge; no request changes it
  rows,     \* the item rows
  qty,      \* items."Auf_Lager"
  box,      \* items."BoxID"
  place,    \* items."Location"
  boxes,    \* the box rows
  shelf,    \* boxes."LocationId"
  ledger,   \* stock according to the Added and Removed events and their sync jobs
  req,      \* requests between their read and their last statement
  crashes,  \* restarts from outside left
  died      \* whether an unhandled rejection ended the process

store == <<rows, qty, box, place, boxes, shelf>>
vars == <<bulk, rows, qty, box, place, boxes, shelf, ledger, req, crashes, died>>

\* A request: its item or the items it still has to treat, the quantity it read,
\* and the box and location it is going to write.
Request == [op : Operations \cup {"none", "background"}, pc : {"read", "effect", "book"},
            todo : SUBSET Items, item : Items \cup {NoItem}, seen : Nat,
            to : Boxes \cup {NoBox}, loc : Shelves \cup {NoShelf}]

Idle == [op |-> "none", pc |-> "effect", todo |-> {}, item |-> NoItem, seen |-> 0,
         to |-> NoBox, loc |-> NoShelf]

-----------------------------------------------------------------------------
(* Statements *)

\* Wrong variant: the statement of an instance.
DecrementToZero(i) ==
  /\ qty' = [qty EXCEPT ![i] = 0]
  /\ box' = [box EXCEPT ![i] = NoBox]
  /\ place' = [place EXCEPT ![i] = NoShelf]
  /\ UNCHANGED <<rows, boxes, shelf>>

\* One piece less if there is one; the last piece leaves its box.
decrementItemStock(i) ==
  IF i \in rows /\ qty[i] > 0
  THEN /\ qty' = [qty EXCEPT ![i] = @ - 1]
       /\ box' = [box EXCEPT ![i] = IF qty[i] = 1 THEN NoBox ELSE @]
       /\ place' = [place EXCEPT ![i] = IF qty[i] = 1 THEN NoShelf ELSE @]
       /\ UNCHANGED <<rows, boxes, shelf>>
  ELSE UNCHANGED store

incrementItemStock(i) ==
  /\ qty' = IF i \in rows THEN [qty EXCEPT ![i] = @ + 1] ELSE qty
  /\ UNCHANGED <<rows, box, place, boxes, shelf>>

zeroItemStock(i) ==
  /\ qty' = [qty EXCEPT ![i] = 0]
  /\ box' = [box EXCEPT ![i] = NoBox]
  /\ place' = [place EXCEPT ![i] = NoShelf]
  /\ UNCHANGED <<rows, boxes, shelf>>

clearItemLocation(i) ==
  /\ box' = [box EXCEPT ![i] = NoBox]
  /\ place' = [place EXCEPT ![i] = NoShelf]
  /\ UNCHANGED <<rows, qty, boxes, shelf>>

deleteItem(i) ==
  /\ rows' = rows \ {i}
  /\ qty' = [qty EXCEPT ![i] = 0]
  /\ box' = [box EXCEPT ![i] = NoBox]
  /\ place' = [place EXCEPT ![i] = NoShelf]
  /\ UNCHANGED <<boxes, shelf>>

\* items."BoxID" REFERENCES boxes: a write that names a missing box throws.
\* Wrong variant: the reference is not enforced.
AnyBox(b) == TRUE
BoxExists(b) == b \in boxes \cup {NoBox}

PlaceItem(i, b, l) ==
  IF i \in rows
  THEN /\ box' = [box EXCEPT ![i] = b]
       /\ place' = [place EXCEPT ![i] = l]
       /\ UNCHANGED <<rows, qty, boxes, shelf>>
  ELSE UNCHANGED store

\* ON DELETE SET NULL takes the items out of the box and leaves their Location.
deleteBox(b) ==
  /\ boxes' = boxes \ {b}
  /\ shelf' = [shelf EXCEPT ![b] = NoShelf]
  /\ box' = [i \in Items |-> IF box[i] = b THEN NoBox ELSE box[i]]
  /\ UNCHANGED <<rows, qty, place>>

Book(i, n) == ledger' = [ledger EXCEPT ![i] = @ + n]

-----------------------------------------------------------------------------
(* Requests *)

Issue(h, op, r) == op \in Requests /\ req[h] = Idle /\ req' = [req EXCEPT ![h] = r]
Answer(h) == req' = [req EXCEPT ![h] = Idle]
WithinDrift(i) == qty[i] - ledger[i] < MaxDrift /\ ledger[i] - qty[i] <= MaxDrift
Booking(h) == req' = [req EXCEPT ![h].pc = "book"]

\* A batch re-reads an item, treats it and goes on to the next.
Reread(h, i) == req' = [req EXCEPT ![h].item = i, ![h].pc = "effect"]
NextOfBatch(h) ==
  IF req[h].todo = {req[h].item}
  THEN Answer(h)
  ELSE req' = [req EXCEPT ![h] = [Idle EXCEPT !.op = req[h].op, !.pc = "read", !.to = req[h].to,
                                              !.todo = req[h].todo \ {req[h].item}]]

At(h, op, pc) == req[h].op = op /\ req[h].pc = pc
Reads == UNCHANGED <<rows, qty, box, place, boxes, shelf, ledger, crashes, died>>
Writes == UNCHANGED <<ledger, crashes, died>>
Books == UNCHANGED <<rows, qty, box, place, boxes, shelf, crashes, died>>

\* remove-item: a bulk item needs stock.
ReadRemove(h) ==
  /\ \E i \in rows :
       /\ i \in bulk => qty[i] > 0
       /\ WithinDrift(i)
       /\ Issue(h, "remove", [Idle EXCEPT !.op = "remove", !.item = i, !.seen = qty[i]])
  /\ Reads

Remove(h) ==
  /\ At(h, "remove", "effect")
  /\ IF req[h].item \in bulk THEN decrementItemStock(req[h].item)
                             ELSE zeroItemStock(req[h].item)
  /\ Booking(h) /\ Writes

\* The event and the job are written whatever the update found.
BookRemoval(h) ==
  /\ At(h, "remove", "book")
  /\ Book(req[h].item, IF req[h].item \in bulk THEN -1 ELSE -req[h].seen)
  /\ Answer(h) /\ Books

\* add-item: one more piece, or a new instance beside the one that was read.
ReadAdd(h) ==
  /\ \E i \in rows :
       \/ /\ i \in bulk
          /\ qty[i] + Cardinality({g \in Handlers : req[g].op = "add"}) < MaxQty
          /\ Issue(h, "add", [Idle EXCEPT !.op = "add", !.item = i])
       \/ /\ i \notin bulk
          /\ \E j \in Items \ (bulk \cup rows) :
               /\ ledger[j] = 0 /\ \A g \in Handlers : req[g].item # j
               /\ Issue(h, "add", [Idle EXCEPT !.op = "add", !.item = j,
                                               !.to = box[i], !.loc = place[i]])
  /\ Reads

CreateInstance(h) ==
  /\ rows' = rows \cup {req[h].item}
  /\ qty' = [qty EXCEPT ![req[h].item] = 1]
  /\ box' = [box EXCEPT ![req[h].item] = req[h].to]
  /\ place' = [place EXCEPT ![req[h].item] = req[h].loc]
  /\ UNCHANGED <<boxes, shelf>>

Add(h) ==
  /\ At(h, "add", "effect")
  /\ \/ req[h].item \in bulk /\ incrementItemStock(req[h].item) /\ Booking(h)
     \/ req[h].item \notin bulk /\ BoxExists(req[h].to) /\ CreateInstance(h) /\ Booking(h)
     \/ req[h].item \notin bulk /\ ~BoxExists(req[h].to) /\ Answer(h) /\ UNCHANGED store
  /\ Writes

BookAddition(h) ==
  /\ At(h, "add", "book")
  /\ Book(req[h].item, 1)
  /\ Answer(h) /\ Books

\* move-item takes the location from the box it read.
ReadMove(h) ==
  /\ \E i \in rows, b \in boxes :
       Issue(h, "move", [Idle EXCEPT !.op = "move", !.item = i, !.to = b, !.loc = shelf[b]])
  /\ Reads

Move(h) ==
  /\ At(h, "move", "effect")
  /\ IF req[h].item \in rows /\ ~BoxExists(req[h].to)
     THEN UNCHANGED store
     ELSE PlaceItem(req[h].item, req[h].to, req[h].loc)
  /\ Answer(h) /\ Writes

\* bulk-move-items takes it from box.Location, a column boxes does not have.
ReadBulkMove(h) ==
  /\ \E S \in SUBSET rows \ {{}}, b \in boxes :
       Issue(h, "bulkMove", [Idle EXCEPT !.op = "bulkMove", !.pc = "read", !.todo = S, !.to = b])
  /\ Reads

\* An item that is gone, or a box that is, ends the batch half done.
RereadMoved(h) ==
  /\ At(h, "bulkMove", "read")
  /\ \E i \in req[h].todo :
       \/ i \in rows /\ Reread(h, i)
       \/ i \notin rows /\ Answer(h)
  /\ Reads

BulkMoveOne(h) ==
  /\ At(h, "bulkMove", "effect")
  /\ IF req[h].item \in rows /\ ~BoxExists(req[h].to)
     THEN UNCHANGED store /\ Answer(h)
     ELSE PlaceItem(req[h].item, req[h].to, NoShelf) /\ NextOfBatch(h)
  /\ Writes

ReadClear(h) ==
  /\ \E i \in rows : Issue(h, "clear", [Idle EXCEPT !.op = "clear", !.item = i])
  /\ Reads

Clear(h) ==
  /\ At(h, "clear", "effect")
  /\ clearItemLocation(req[h].item)
  /\ Answer(h) /\ Writes

ReadDelete(h) ==
  /\ \E i \in rows : Issue(h, "delete", [Idle EXCEPT !.op = "delete", !.item = i])
  /\ Reads

Delete(h) ==
  /\ At(h, "delete", "effect")
  /\ deleteItem(req[h].item)
  /\ Answer(h) /\ Writes

\* bulk-delete-items: every bulk item of the batch needs stock.
ReadBulkDelete(h) ==
  /\ \E S \in SUBSET rows \ {{}} :
       /\ \A i \in S \cap bulk : qty[i] > 0 /\ WithinDrift(i)
       /\ Issue(h, "bulkDelete", [Idle EXCEPT !.op = "bulkDelete", !.todo = S])
  /\ Reads

BulkDeleteInstance(h) ==
  /\ At(h, "bulkDelete", "effect")
  /\ \E i \in req[h].todo \ bulk :
       /\ deleteItem(i)
       /\ req' = [req EXCEPT ![h].todo = @ \ {i}]
  /\ Writes

\* bulkRemoveItemStock is called without await: the request is answered and its
\* batch goes on in the background.
AnswerBulkDelete(h) ==
  /\ At(h, "bulkDelete", "effect") /\ req[h].todo \subseteq bulk
  /\ IF req[h].todo = {}
     THEN Answer(h)
     ELSE req' = [req EXCEPT ![h].op = "background", ![h].pc = "read"]
  /\ Reads

\* The batch re-reads an item and throws when it is gone or out of stock ...
ProcessDies == req' = [h \in Handlers |-> Idle]

RejectBatch(h) ==
  /\ At(h, "background", "read")
  /\ \E i \in req[h].todo : i \notin rows \/ qty[i] = 0
  /\ ProcessDies /\ died' = TRUE
  /\ UNCHANGED <<rows, qty, box, place, boxes, shelf, ledger, crashes>>

\* ... and removes one piece otherwise.
RereadRemoved(h) ==
  /\ At(h, "background", "read")
  /\ \E i \in req[h].todo : i \in rows /\ qty[i] > 0 /\ Reread(h, i)
  /\ Reads

BulkRemoveOne(h) ==
  /\ At(h, "background", "effect")
  /\ decrementItemStock(req[h].item)
  /\ Booking(h) /\ Writes

BookBulkRemoval(h) ==
  /\ At(h, "background", "book")
  /\ Book(req[h].item, -1)
  /\ NextOfBatch(h) /\ Books

\* create-box makes a box without a location, or a shelf, which has one.
CreateBox ==
  /\ "createBox" \in Requests
  /\ \E b \in Boxes \ boxes, l \in Shelves \cup {NoShelf} :
       boxes' = boxes \cup {b} /\ shelf' = [shelf EXCEPT ![b] = l]
  /\ UNCHANGED <<rows, qty, box, place, ledger, req, crashes, died>>

\* move-box goes to the location given, or rewrites the one it read.
ReadMoveBox(h) ==
  /\ \E b \in boxes, l \in Shelves \cup {NoShelf} :
       LET target == IF l = NoShelf THEN shelf[b] ELSE l IN
       /\ target # NoShelf
       /\ Issue(h, "moveBox", [Idle EXCEPT !.op = "moveBox", !.to = b, !.loc = target])
  /\ Reads

\* The items in the box are not touched.
MoveBox(h) ==
  /\ At(h, "moveBox", "effect")
  /\ shelf' = IF req[h].to \in boxes THEN [shelf EXCEPT ![req[h].to] = req[h].loc] ELSE shelf
  /\ Answer(h) /\ UNCHANGED <<rows, qty, box, place, boxes>> /\ Writes

\* delete-entity deletes a box it saw empty.
ReadDeleteBox(h) ==
  /\ \E b \in boxes :
       /\ \A i \in rows : box[i] # b
       /\ Issue(h, "deleteBox", [Idle EXCEPT !.op = "deleteBox", !.to = b])
  /\ Reads

DeleteBox(h) ==
  /\ At(h, "deleteBox", "effect")
  /\ deleteBox(req[h].to)
  /\ Answer(h) /\ Writes

\* The process is restarted: requests in flight are lost.
Crash ==
  /\ crashes > 0 /\ crashes' = crashes - 1
  /\ ProcessDies
  /\ UNCHANGED <<rows, qty, box, place, boxes, shelf, ledger, died>>

-----------------------------------------------------------------------------
(* Specification *)

Init ==
  /\ rows \in Starts /\ bulk \in BulkKinds /\ boxes = StartBoxes
  /\ qty = [i \in Items |-> IF i \in rows THEN 1 ELSE 0]
  /\ box = [i \in Items |-> NoBox]
  /\ place = [i \in Items |-> NoShelf]
  /\ shelf = [b \in Boxes |-> NoShelf]
  /\ ledger = qty
  /\ req = [h \in Handlers |-> Idle]
  /\ crashes = MaxCrashes /\ died = FALSE

ReadStep(h) == ReadRemove(h) \/ ReadAdd(h) \/ ReadMove(h) \/ ReadBulkMove(h)
               \/ ReadClear(h) \/ ReadDelete(h) \/ ReadBulkDelete(h)
               \/ ReadMoveBox(h) \/ ReadDeleteBox(h) \/ RereadMoved(h) \/ RereadRemoved(h)

WriteStep(h) == Remove(h) \/ Add(h) \/ Move(h) \/ BulkMoveOne(h) \/ Clear(h)
                \/ Delete(h) \/ BulkDeleteInstance(h) \/ BulkRemoveOne(h)
                \/ MoveBox(h) \/ DeleteBox(h)

BookStep(h) == BookRemoval(h) \/ BookAddition(h) \/ BookBulkRemoval(h)

Next ==
  /\ \/ \E h \in Handlers :
          ReadStep(h) \/ WriteStep(h) \/ BookStep(h) \/ AnswerBulkDelete(h) \/ RejectBatch(h)
     \/ CreateBox
     \/ Crash
  /\ UNCHANGED bulk

Spec == Init /\ [][Next]_vars

-----------------------------------------------------------------------------
(* Invariants *)

\* Every variable has its type; the stock of an item is never negative, however
\* many removals read the same last piece.
TypeOK ==
  /\ bulk \subseteq Items /\ rows \subseteq Items
  /\ qty \in [Items -> Nat]
  /\ box \in [Items -> Boxes \cup {NoBox}]
  /\ place \in [Items -> Shelves \cup {NoShelf}]
  /\ boxes \subseteq Boxes
  /\ shelf \in [Boxes -> Shelves \cup {NoShelf}]
  /\ ledger \in [Items -> Int]
  /\ req \in [Handlers -> Request]
  /\ crashes \in 0..MaxCrashes /\ died \in BOOLEAN

\* No item lies in a box that does not exist, although every handler writes a box it
\* looked up before and boxes are deleted meanwhile.
BoxReferences == \A i \in Items : box[i] \in boxes \cup {NoBox}

\* A request has taken pieces of item i and not booked them yet.
Unbooked(i) == \E h \in Handlers : req[h].item = i /\ req[h].pc = "book"

\* A piece that left the stock of a surviving item is in the books: they may show
\* less than there is, never more, as long as the process has not been restarted.
NoUnbookedLoss ==
  crashes = MaxCrashes /\ ~died
    => \A i \in rows : Unbooked(i) \/ qty[i] >= ledger[i]

=============================================================================
