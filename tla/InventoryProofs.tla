---------------------------- MODULE InventoryProofs ----------------------------
(***************************************************************************)
(* What holds of Inventory for every set of items, boxes, shelves and      *)
(* requests: stock is never negative, no item lies in a missing box, and   *)
(* the books never show more of an item than there is.                     *)
(***************************************************************************)
EXTENDS Inventory, FiniteSetTheorems, TLAPS

-----------------------------------------------------------------------------
(* The parts of the state *)

\* The rows, and the requests under way, have their types.
StoreOK ==
  /\ rows \subseteq Items
  /\ qty \in [Items -> Nat]
  /\ box \in [Items -> Boxes \cup {NoBox}]
  /\ place \in [Items -> Shelves \cup {NoShelf}]
  /\ boxes \subseteq Boxes
  /\ shelf \in [Boxes -> Shelves \cup {NoShelf}]

RequestsOK == req \in [Handlers -> Request]

RestOK == ledger \in [Items -> Int] /\ crashes \in 0..MaxCrashes /\ died \in BOOLEAN

\* TypeOK is the conjunction of the three, and the kinds of items are constant.
LEMMA TypeSplit ==
  bulk \subseteq Items => (TypeOK <=> StoreOK /\ RequestsOK /\ RestOK)
BY DEF TypeOK, StoreOK, RequestsOK, RestOK

\* Types and references together.
Safe == StoreOK /\ BoxReferences

\* An addition names the item it creates or counts up.
AddsNamed == \A h \in Handlers : req[h].op = "add" => req[h].item \in Items

\* The inductive invariant.
Inv == Safe /\ RequestsOK /\ AddsNamed /\ RestOK

-----------------------------------------------------------------------------
(* Statements *)

\* The statements on one item keep the rows typed and the references valid; a
\* decrement takes a piece only where there is one.
LEMMA ItemStatements ==
  ASSUME Safe, NEW i \in Items \cup {NoItem}
  PROVE  /\ decrementItemStock(i) => Safe'
         /\ incrementItemStock(i) => Safe'
         /\ zeroItemStock(i) => Safe'
         /\ clearItemLocation(i) => Safe'
         /\ deleteItem(i) => Safe'
<1>. USE DEF Safe, StoreOK, BoxReferences
<1>0. [qty EXCEPT ![i] = 0] \in [Items -> Nat]
  OBVIOUS
<1>1. ASSUME decrementItemStock(i) PROVE Safe'
  <2>1. CASE i \in rows /\ qty[i] > 0
    <3>1. qty[i] - 1 \in Nat
      BY <2>1
    <3>. QED BY <1>1, <2>1, <3>1 DEF decrementItemStock
  <2>2. CASE ~(i \in rows /\ qty[i] > 0)
    BY <1>1, <2>2 DEF decrementItemStock, store
  <2>. QED BY <2>1, <2>2
<1>2. incrementItemStock(i) => Safe'
  BY DEF incrementItemStock
<1>3. zeroItemStock(i) => Safe'
  BY <1>0 DEF zeroItemStock
<1>4. clearItemLocation(i) => Safe'
  BY DEF clearItemLocation
<1>5. deleteItem(i) => Safe'
  BY <1>0 DEF deleteItem
<1>. QED BY <1>1, <1>2, <1>3, <1>4, <1>5

\* Placing an item needs the box to exist at that moment.
LEMMA PlaceSafe ==
  ASSUME Safe, NEW i \in Items \cup {NoItem}, NEW b \in Boxes \cup {NoBox},
         NEW l \in Shelves \cup {NoShelf}, i \in rows => BoxExists(b), PlaceItem(i, b, l)
  PROVE  Safe'
<1>. USE DEF Safe, StoreOK, BoxReferences
<1>1. CASE i \in rows
  BY <1>1 DEF PlaceItem, BoxExists
<1>2. CASE i \notin rows
  BY <1>2 DEF PlaceItem, store
<1>. QED BY <1>1, <1>2

\* Deleting a box empties it.
LEMMA DeleteBoxSafe == ASSUME Safe, NEW b, deleteBox(b) PROVE Safe'
BY DEF Safe, StoreOK, BoxReferences, deleteBox

\* A step that leaves the rows alone.
LEMMA StoreFrame == Safe /\ UNCHANGED store => Safe'
BY DEF Safe, StoreOK, BoxReferences, store

-----------------------------------------------------------------------------
(* Requests *)

\* A request that is under way about an item, a box or a batch names them rightly.
LEMMA RequestFields ==
  ASSUME RequestsOK, NEW h \in Handlers
  PROVE  /\ req[h].item \in Items \cup {NoItem}
         /\ req[h].todo \subseteq Items
         /\ req[h].seen \in Nat
         /\ req[h].to \in Boxes \cup {NoBox}
         /\ req[h].loc \in Shelves \cup {NoShelf}
BY DEF RequestsOK, Request

\* The blank request is one.
LEMMA IdleTyped == Idle \in Request
BY DEF Idle, Request

\* What a handler reads makes a typed request.
LEMMA ReadTyped ==
  ASSUME Safe, RequestsOK, AddsNamed, NEW h \in Handlers, ReadStep(h)
  PROVE  RequestsOK' /\ AddsNamed'
<1>1. \E r \in Request : /\ r.op = "add" => r.item \in Items
                         /\ req' = [req EXCEPT ![h] = r]
  <2>. USE DEF Issue, Idle, Request, Operations, Safe, StoreOK
  <2>1. CASE ReadRemove(h)
    BY <2>1 DEF ReadRemove
  <2>2. CASE ReadAdd(h)
    <3>1. CASE \E i \in rows : Issue(h, "add", [Idle EXCEPT !.op = "add", !.item = i])
      BY <3>1
    <3>2. CASE \E i \in rows, j \in Items :
                 Issue(h, "add", [Idle EXCEPT !.op = "add", !.item = j,
                                              !.to = box[i], !.loc = place[i]])
      BY <3>2
    <3>. QED BY <2>2, <3>1, <3>2 DEF ReadAdd
  <2>3. CASE ReadMove(h)
    BY <2>3 DEF ReadMove
  <2>4. CASE ReadBulkMove(h)
    BY <2>4 DEF ReadBulkMove
  <2>5. CASE ReadClear(h) \/ ReadDelete(h)
    BY <2>5 DEF ReadClear, ReadDelete
  <2>6. CASE ReadBulkDelete(h)
    BY <2>6 DEF ReadBulkDelete
  <2>7. CASE ReadMoveBox(h)
    BY <2>7 DEF ReadMoveBox
  <2>8. CASE ReadDeleteBox(h)
    BY <2>8 DEF ReadDeleteBox
  <2>9. ASSUME NEW i \in Items, Reread(h, i) \/ Answer(h),
               At(h, "bulkMove", "read") \/ At(h, "background", "read")
        PROVE  \E r \in Request : /\ r.op = "add" => r.item \in Items
                                 /\ req' = [req EXCEPT ![h] = r]
    <3>1. CASE Answer(h)
      BY <3>1, IdleTyped DEF Answer
    <3>2. CASE Reread(h, i)
      <4>. DEFINE r == [req[h] EXCEPT !.item = i, !.pc = "effect"]
      <4>1. r \in Request /\ r.op # "add"
        <5>1. req[h] \in Request /\ req[h].op # "add"
          BY ONLY <2>9, RequestsOK, h \in Handlers DEF RequestsOK, At
        <5>. QED BY ONLY <5>1, i \in Items DEF Request
      <4>2. req' = [req EXCEPT ![h] = r]
        BY <3>2 DEF Reread
      <4>. QED BY <4>1, <4>2
    <3>. QED BY <2>9, <3>1, <3>2
  <2>10. CASE RereadMoved(h)
    <3>1. PICK i \in req[h].todo : Reread(h, i) \/ Answer(h)
      BY <2>10 DEF RereadMoved
    <3>. QED BY <2>9, <2>10, <3>1, RequestFields DEF RereadMoved
  <2>11. CASE RereadRemoved(h)
    <3>1. PICK i \in req[h].todo : Reread(h, i)
      BY <2>11 DEF RereadRemoved
    <3>. QED BY <2>9, <2>11, <3>1, RequestFields DEF RereadRemoved
  <2>. QED BY <2>1, <2>2, <2>3, <2>4, <2>5, <2>6, <2>7, <2>8, <2>10, <2>11 DEF ReadStep
<1>. QED BY <1>1 DEF RequestsOK, AddsNamed

\* Answering, booking and the death of the process keep the requests typed.
LEMMA ProgressTyped ==
  ASSUME RequestsOK, AddsNamed, NEW h \in Handlers
  PROVE  /\ Answer(h) => RequestsOK' /\ AddsNamed'
         /\ Booking(h) => RequestsOK' /\ AddsNamed'
         /\ ProcessDies => RequestsOK' /\ AddsNamed'
<1>1. Idle \in Request /\ Idle.op # "add"
  BY IdleTyped DEF Idle
<1>2. ASSUME Answer(h) PROVE RequestsOK' /\ AddsNamed'
  BY <1>1, <1>2 DEF RequestsOK, AddsNamed, Answer
<1>3. ASSUME Booking(h) PROVE RequestsOK' /\ AddsNamed'
  BY <1>3 DEF RequestsOK, AddsNamed, Booking, Request
<1>4. ASSUME ProcessDies PROVE RequestsOK' /\ AddsNamed'
  BY <1>1, <1>4 DEF RequestsOK, AddsNamed, ProcessDies
<1>. QED BY <1>2, <1>3, <1>4

\* So does the bookkeeping of a batch.
LEMMA BatchTyped ==
  ASSUME RequestsOK, AddsNamed, NEW h \in Handlers, NEW i
  PROVE  /\ req' = [req EXCEPT ![h].todo = @ \ {i}] => RequestsOK' /\ AddsNamed'
         /\ NextOfBatch(h) /\ req[h].op # "add" => RequestsOK' /\ AddsNamed'
<1>1. ASSUME req' = [req EXCEPT ![h].todo = @ \ {i}] PROVE RequestsOK' /\ AddsNamed'
  BY <1>1 DEF RequestsOK, AddsNamed, Request
<1>2. ASSUME NextOfBatch(h), req[h].op # "add" PROVE RequestsOK' /\ AddsNamed'
  <2>. DEFINE r == [Idle EXCEPT !.op = req[h].op, !.pc = "read", !.to = req[h].to,
                                !.todo = req[h].todo \ {req[h].item}]
  <2>1. r \in Request /\ r.op # "add"
    BY <1>2 DEF Idle, Request, RequestsOK
  <2>2. CASE Answer(h)
    BY <2>2, ProgressTyped
  <2>3. CASE req' = [req EXCEPT ![h] = r]
    <3>. HIDE DEF r
    <3>. QED BY <2>1, <2>3 DEF RequestsOK, AddsNamed
  <2>. QED BY <1>2, <2>2, <2>3 DEF NextOfBatch
<1>. QED BY <1>1, <1>2

\* A statement keeps the books typed as it leaves them alone.
LEMMA RestFrame == RestOK /\ Writes => RestOK'
BY DEF RestOK, Writes

-----------------------------------------------------------------------------
(* Steps *)

\* Every statement of a request keeps the invariant.
LEMMA WriteSafe ==
  ASSUME Inv, NEW h \in Handlers, WriteStep(h)
  PROVE  Inv'
<1>0. Safe /\ RequestsOK /\ AddsNamed /\ RestOK
  BY DEF Inv
<1>f. /\ req[h].item \in Items \cup {NoItem} /\ req[h].todo \subseteq Items
      /\ req[h].to \in Boxes \cup {NoBox} /\ req[h].loc \in Shelves \cup {NoShelf}
  BY <1>0, RequestFields
<1>r. Writes
  BY DEF WriteStep, Remove, Add, Move, BulkMoveOne, Clear, Delete, BulkDeleteInstance,
         BulkRemoveOne, MoveBox, DeleteBox
<1>s. RestOK'
  BY <1>0, <1>r, RestFrame
<1>1. ASSUME Remove(h) PROVE Inv'
  <2>1. Safe'
    BY <1>0, <1>1, <1>f, ItemStatements DEF Remove
  <2>2. RequestsOK' /\ AddsNamed'
    BY <1>0, <1>1, ProgressTyped DEF Remove
  <2>. QED BY <2>1, <2>2, <1>s DEF Inv
<1>2. ASSUME Add(h) PROVE Inv'
  <2>0. req[h].item \in Items
    BY <1>0, <1>2 DEF Add, At, AddsNamed
  <2>1. ASSUME incrementItemStock(req[h].item) PROVE Safe'
    BY <2>1, <2>0, <1>0, ItemStatements
  <2>2. ASSUME BoxExists(req[h].to), CreateInstance(h) PROVE Safe'
    BY <2>2, <2>0, <1>0, <1>f DEF CreateInstance, BoxExists, Safe, StoreOK, BoxReferences
  <2>3. ASSUME UNCHANGED store PROVE Safe'
    BY <2>3, <1>0, StoreFrame
  <2>4. Safe'
    BY <1>2, <2>1, <2>2, <2>3 DEF Add
  <2>5. RequestsOK' /\ AddsNamed'
    BY <1>0, <1>2, ProgressTyped DEF Add
  <2>. QED BY <2>4, <2>5, <1>s DEF Inv
<1>3. ASSUME Move(h) PROVE Inv'
  <2>1. ASSUME req[h].item \in rows /\ ~BoxExists(req[h].to) PROVE Safe'
    BY <2>1, <1>3, <1>0, StoreFrame DEF Move
  <2>2. ASSUME ~(req[h].item \in rows /\ ~BoxExists(req[h].to)) PROVE Safe'
    BY <2>2, <1>3, <1>0, <1>f, PlaceSafe DEF Move
  <2>3. RequestsOK' /\ AddsNamed'
    BY <1>0, <1>3, ProgressTyped DEF Move
  <2>. QED BY <2>1, <2>2, <2>3, <1>s DEF Inv
<1>4. ASSUME BulkMoveOne(h) PROVE Inv'
  <2>1. Safe'
    <3>1. CASE req[h].item \in rows /\ ~BoxExists(req[h].to)
      BY <3>1, <1>4, <1>0, StoreFrame DEF BulkMoveOne
    <3>2. CASE ~(req[h].item \in rows /\ ~BoxExists(req[h].to))
      BY <3>2, <1>4, <1>0, <1>f, PlaceSafe DEF BulkMoveOne
    <3>. QED BY <3>1, <3>2
  <2>2. req[h].op # "add" /\ (Answer(h) \/ NextOfBatch(h))
    BY <1>4 DEF BulkMoveOne, At
  <2>3. RequestsOK' /\ AddsNamed'
    BY <2>2, <1>0, ProgressTyped, BatchTyped
  <2>. QED BY <2>1, <2>3, <1>s DEF Inv
<1>5. ASSUME Clear(h) \/ Delete(h) PROVE Inv'
  <2>1. Safe'
    BY <1>0, <1>5, <1>f, ItemStatements DEF Clear, Delete
  <2>2. RequestsOK' /\ AddsNamed'
    BY <1>0, <1>5, ProgressTyped DEF Clear, Delete
  <2>. QED BY <2>1, <2>2, <1>s DEF Inv
<1>6. ASSUME BulkDeleteInstance(h) PROVE Inv'
  <2>1. PICK j \in req[h].todo : deleteItem(j) /\ req' = [req EXCEPT ![h].todo = @ \ {j}]
    BY <1>6 DEF BulkDeleteInstance
  <2>2. j \in Items
    BY <1>f
  <2>. QED BY <2>1, <2>2, <1>0, <1>s, ItemStatements, BatchTyped DEF Inv
<1>7. ASSUME BulkRemoveOne(h) PROVE Inv'
  <2>1. Safe'
    BY <1>0, <1>7, <1>f, ItemStatements DEF BulkRemoveOne
  <2>2. RequestsOK' /\ AddsNamed'
    BY <1>0, <1>7, ProgressTyped DEF BulkRemoveOne
  <2>. QED BY <2>1, <2>2, <1>s DEF Inv
<1>8. ASSUME MoveBox(h) PROVE Inv'
  <2>1. Safe'
    BY <1>8, <1>0, <1>f DEF MoveBox, Safe, StoreOK, BoxReferences
  <2>2. RequestsOK' /\ AddsNamed'
    BY <1>0, <1>8, ProgressTyped DEF MoveBox
  <2>. QED BY <2>1, <2>2, <1>s DEF Inv
<1>9. ASSUME DeleteBox(h) PROVE Inv'
  <2>1. Safe'
    BY <1>9, <1>0, DeleteBoxSafe DEF DeleteBox
  <2>2. RequestsOK' /\ AddsNamed'
    BY <1>0, <1>9, ProgressTyped DEF DeleteBox
  <2>. QED BY <2>1, <2>2, <1>s DEF Inv
<1>. QED BY <1>1, <1>2, <1>3, <1>4, <1>5, <1>6, <1>7, <1>8, <1>9 DEF WriteStep

\* Every entry in the books does.
LEMMA BookSafe ==
  ASSUME Inv, NEW h \in Handlers, BookStep(h)
  PROVE  Inv'
<1>0. Safe /\ RequestsOK /\ AddsNamed /\ RestOK
  BY DEF Inv
<1>1. Books /\ \E n \in Int : Book(req[h].item, n)
  <2>. USE RequestFields, <1>0
  <2>1. CASE BookRemoval(h)
    BY <2>1 DEF BookRemoval
  <2>2. CASE BookAddition(h)
    BY <2>2 DEF BookAddition
  <2>3. CASE BookBulkRemoval(h)
    BY <2>3 DEF BookBulkRemoval
  <2>. QED BY <2>1, <2>2, <2>3 DEF BookStep
<1>2. Safe' /\ RestOK'
  <2>1. PICK n \in Int : Book(req[h].item, n)
    BY <1>1
  <2>2. ledger' \in [Items -> Int]
    <3>1. CASE req[h].item \in Items
      BY <1>0, <2>1, <3>1 DEF Book, RestOK
    <3>2. CASE req[h].item \notin Items
      BY <1>0, <2>1, <3>2 DEF Book, RestOK
    <3>. QED BY <3>1, <3>2
  <2>. QED BY <1>0, <1>1, <2>2, StoreFrame DEF Books, RestOK, store
<1>3. Answer(h) \/ (NextOfBatch(h) /\ req[h].op # "add")
  BY DEF BookStep, BookRemoval, BookAddition, BookBulkRemoval, At
<1>5. RequestsOK' /\ AddsNamed'
  BY <1>0, <1>3, ProgressTyped, BatchTyped
<1>. QED BY <1>2, <1>5 DEF Inv

\* The invariant is inductive.
LEMMA Inductive == Inv /\ [Next]_vars => Inv'
<1>1. SUFFICES ASSUME Inv, [Next]_vars PROVE Inv'
  OBVIOUS
<1>0. Safe /\ RequestsOK /\ AddsNamed /\ RestOK
  BY <1>1 DEF Inv
<1>2. ASSUME NEW h \in Handlers, ReadStep(h) PROVE Inv'
  <2>1. Reads
    BY <1>2 DEF ReadStep, ReadRemove, ReadAdd, ReadMove, ReadBulkMove, ReadClear, ReadDelete,
                ReadBulkDelete, ReadMoveBox, ReadDeleteBox, RereadMoved, RereadRemoved
  <2>2. RequestsOK' /\ AddsNamed'
    BY <1>0, <1>2, ReadTyped
  <2>. QED BY <1>0, <2>1, <2>2, StoreFrame DEF Inv, Reads, store, RestOK
<1>3. ASSUME NEW h \in Handlers, WriteStep(h) \/ BookStep(h) PROVE Inv'
  BY <1>1, <1>3, WriteSafe, BookSafe
<1>4. ASSUME NEW h \in Handlers, AnswerBulkDelete(h) PROVE Inv'
  <2>1. RequestsOK' /\ AddsNamed'
    BY <1>0, <1>4, IdleTyped
       DEF AnswerBulkDelete, RequestsOK, AddsNamed, Answer, Request, Idle, Operations
  <2>. QED BY <1>0, <1>4, <2>1, StoreFrame DEF Inv, AnswerBulkDelete, Reads, store, RestOK
<1>5. ASSUME NEW h \in Handlers, RejectBatch(h) PROVE Inv'
  <2>1. RequestsOK' /\ AddsNamed'
    BY <1>5, IdleTyped DEF RejectBatch, ProcessDies, RequestsOK, AddsNamed, Idle
  <2>. QED BY <1>0, <1>5, <2>1, StoreFrame DEF Inv, RejectBatch, store, RestOK
<1>6. ASSUME CreateBox PROVE Inv'
  BY <1>0, <1>6 DEF CreateBox, Inv, Safe, StoreOK, BoxReferences, RequestsOK, AddsNamed, RestOK
<1>7. ASSUME Crash PROVE Inv'
  <2>1. RequestsOK' /\ AddsNamed'
    BY <1>7, IdleTyped DEF Crash, ProcessDies, RequestsOK, AddsNamed, Idle
  <2>2. RestOK'
    BY <1>0, <1>7, BoundsAssumption DEF Crash, RestOK
  <2>. QED BY <1>0, <1>7, <2>1, <2>2, StoreFrame DEF Inv, Crash, store
<1>8. CASE UNCHANGED vars
  BY <1>0, <1>8, StoreFrame DEF vars, store, Inv, RequestsOK, AddsNamed, RestOK
<1>. QED BY <1>1, <1>2, <1>3, <1>4, <1>5, <1>6, <1>7, <1>8 DEF Next

\* It holds at the start.
LEMMA Initial == Init => Inv
<1>1. SUFFICES ASSUME Init PROVE Inv
  OBVIOUS
<1>2. Safe
  BY <1>1, ItemsAssumption, BoxesAssumption DEF Init, Safe, StoreOK, BoxReferences
<1>3. RequestsOK /\ AddsNamed
  BY <1>1, IdleTyped DEF Init, RequestsOK, AddsNamed, Idle
<1>4. RestOK
  <2>1. qty \in [Items -> Int]
    BY <1>1 DEF Init
  <2>2. ledger \in [Items -> Int]
    BY <1>1, <2>1 DEF Init
  <2>3. crashes \in 0..MaxCrashes
    BY <1>1, BoundsAssumption DEF Init
  <2>4. died \in BOOLEAN
    BY <1>1 DEF Init
  <2>. QED BY <2>2, <2>3, <2>4 DEF RestOK
<1>. QED BY <1>2, <1>3, <1>4 DEF Inv

\* No request changes what is counted by quantity.
LEMMA KindsFixed ==
  /\ Init => bulk \subseteq Items
  /\ bulk \subseteq Items /\ [Next]_vars => (bulk \subseteq Items)'
BY ItemsAssumption DEF Init, Next, vars

-----------------------------------------------------------------------------
(* Stock and books *)

\* The requests that took a piece of item i, or added one, and have not booked it.
Removals(i) == {h \in Handlers : /\ req[h].item = i /\ req[h].pc = "book"
                                 /\ req[h].op \in {"remove", "background"}}
Additions(i) == {h \in Handlers : req[h].item = i /\ req[h].pc = "book" /\ req[h].op = "add"}

\* What is counted by quantity: every piece that left is booked or about to be.
Counted(i) ==
  i \in rows \cap bulk
    => ledger[i] + Cardinality(Additions(i)) <= qty[i] + Cardinality(Removals(i))

\* A single piece: the books never expect two, and when it is gone they expect none,
\* or a request that saw the piece is about to book its removal.
Expected(i) == IF Additions(i) = {} THEN ledger[i] ELSE ledger[i] + 1
Single(i) ==
  i \in rows \ bulk
    => /\ qty[i] <= 1 /\ Expected(i) <= 1
       /\ qty[i] = 0 => Expected(i) <= 0 \/ \E h \in Removals(i) : req[h].seen = 1

\* What a request under way may rely on: a batch in the background treats bulk items
\* only, a removal saw at least what is there, and nobody else knows the item that an
\* addition creates before it is stored, nor adds it again.
BatchIsBulk(h) ==
  /\ req[h].op = "bulkDelete" => req[h].item = NoItem
  /\ req[h].op = "background" => req[h].todo \subseteq bulk /\ req[h].item \in bulk \cup {NoItem}
SawThePiece(h) ==
  req[h].op = "remove" /\ req[h].item \notin bulk
    => /\ req[h].seen <= 1
       /\ req[h].pc = "effect" /\ req[h].item \in rows => qty[req[h].item] <= req[h].seen
CreatesAlone(h) ==
  req[h].op = "add" /\ req[h].item \notin bulk
    => \A g \in Handlers \ {h} :
         req[g].item = req[h].item => req[h].pc = "book" /\ req[g].op # "add"
CreatesFresh(h) ==
  req[h].op = "add" /\ req[h].item \notin bulk /\ req[h].pc # "book"
    => req[h].item \notin rows /\ ledger[req[h].item] = 0
Pending(h) == BatchIsBulk(h) /\ SawThePiece(h) /\ CreatesAlone(h) /\ CreatesFresh(h)

Balanced ==
  /\ \A i \in Items : Counted(i) /\ Single(i)
  /\ \A h \in Handlers : Pending(h)

\* As long as the process has not been restarted, stock and books agree.
Booked == crashes = MaxCrashes /\ ~died => Balanced

\* A step of request h only.
Others(h) == \A g \in Handlers \ {h} : req'[g] = req[g]

\* Whether request h has written item i and not booked it yet.
AtBooks(h, i) == req[h].item = i /\ req[h].pc = "book"

\* What entering or leaving the books does to the requests that are about to book.
LEMMA BookSets ==
  ASSUME NEW h \in Handlers, Others(h), NEW i \in Items
  PROVE  /\ ~AtBooks(h, i) /\ ~AtBooks(h, i)'
              => Removals(i)' = Removals(i) /\ Additions(i)' = Additions(i)
         /\ ~AtBooks(h, i) /\ AtBooks(h, i)' /\ req'[h].op \in {"remove", "background"}
              => /\ h \notin Removals(i) /\ Removals(i)' = Removals(i) \cup {h}
                 /\ Additions(i)' = Additions(i)
         /\ ~AtBooks(h, i) /\ AtBooks(h, i)' /\ req'[h].op = "add"
              => /\ h \notin Additions(i) /\ Additions(i)' = Additions(i) \cup {h}
                 /\ Removals(i)' = Removals(i)
         /\ AtBooks(h, i) /\ ~AtBooks(h, i)' /\ req[h].op \in {"remove", "background"}
              => /\ h \in Removals(i) /\ Removals(i)' = Removals(i) \ {h}
                 /\ Additions(i)' = Additions(i)
         /\ AtBooks(h, i) /\ ~AtBooks(h, i)' /\ req[h].op = "add"
              => /\ h \in Additions(i) /\ Additions(i)' = Additions(i) \ {h}
                 /\ Removals(i)' = Removals(i)
BY DEF Others, AtBooks, Removals, Additions

\* Counting requests.
LEMMA CountOf ==
  ASSUME NEW S \in SUBSET Handlers, NEW h \in Handlers
  PROVE  /\ Cardinality(S) \in Nat
         /\ h \notin S => Cardinality(S \cup {h}) = Cardinality(S) + 1
         /\ h \in S => Cardinality(S \ {h}) = Cardinality(S) - 1
<1>1. IsFiniteSet(S)
  BY HandlersAssumption, FS_Subset
<1>. QED BY <1>1, FS_CardinalityType, FS_AddElement, FS_RemoveElement

LEMMA BooksAreHandlers ==
  ASSUME NEW i
  PROVE  /\ Removals(i) \in SUBSET Handlers /\ Additions(i) \in SUBSET Handlers
         /\ Removals(i)' \in SUBSET Handlers /\ Additions(i)' \in SUBSET Handlers
BY DEF Removals, Additions

\* A request that neither booked item i nor will, and that leaves its stock alone or
\* deletes it.
LEMMA ItemFrame ==
  ASSUME NEW h \in Handlers, Others(h), NEW i \in Items, Counted(i), Single(i),
         ~AtBooks(h, i), ~AtBooks(h, i)', UNCHANGED bulk, ledger'[i] = ledger[i],
         i \in rows' => i \in rows /\ qty'[i] = qty[i]
  PROVE  Counted(i)' /\ Single(i)'
<1>1. Removals(i)' = Removals(i) /\ Additions(i)' = Additions(i)
  BY BookSets
<1>2. Counted(i)'
  BY <1>1 DEF Counted
<1>3. \A g \in Removals(i) : req'[g] = req[g]
  BY DEF Removals, AtBooks, Others
<1>4. Single(i)'
  BY <1>1, <1>3 DEF Single, Expected
<1>. QED BY <1>2, <1>4

\* A request never disturbs what another one relies on, unless it creates an item: it
\* leaves the stock of single items alone or takes it away, books its own item only,
\* and turns to an item that is stored, or to one that nobody knows.
LEMMA PendingOfOthers ==
  ASSUME Inv, NEW h \in Handlers, NEW g \in Handlers \ {h}, Others(h), UNCHANGED bulk, Pending(g),
         rows' \subseteq Items, qty' \in [Items -> Nat],
         \A k \in Items \ bulk : k \in rows' => k \in rows /\ qty'[k] <= qty[k],
         \A k \in Items : k # req[h].item => ledger'[k] = ledger[k],
         \/ req'[h].item = req[h].item /\ (req'[h].op = "add" => req[h].op = "add")
         \/ /\ req'[h].item \in rows \cup bulk \cup {NoItem}
            /\ req'[h].op = "add" => req'[h].item \in bulk
         \/ req'[h].item # req[g].item
  PROVE  Pending(g)'
<1>1. req'[g] = req[g] /\ g # h
  BY DEF Others
<1>2. /\ req[g].seen \in Nat /\ req[g].item \in Items \cup {NoItem}
      /\ req[g].op = "add" => req[g].item \in Items
      /\ qty \in [Items -> Nat]
  BY RequestFields DEF Inv, AddsNamed, Safe, StoreOK
<1>3. BatchIsBulk(g)'
  BY <1>1 DEF Pending, BatchIsBulk
<1>4. SawThePiece(g)'
  <2>1. SUFFICES ASSUME req[g].op = "remove", req[g].item \notin bulk, req[g].pc = "effect",
                        req[g].item \in rows'
                 PROVE  qty'[req[g].item] <= req[g].seen
    BY <1>1 DEF Pending, SawThePiece
  <2>. DEFINE k == req[g].item
  <2>2. k \in Items \ bulk
    BY <2>1
  <2>3. k \in rows /\ qty'[k] <= qty[k]
    BY <2>1, <2>2
  <2>4. qty[k] <= req[g].seen
    BY <2>1, <2>3 DEF Pending, SawThePiece
  <2>5. qty[k] \in Nat
    BY <1>2, <2>2
  <2>6. qty'[k] \in Nat
    BY <2>2
  <2>. QED BY <1>2, <2>3, <2>4, <2>5, <2>6
<1>5. CreatesAlone(g)'
  <2>1. SUFFICES ASSUME req[g].op = "add", req[g].item \notin bulk,
                        NEW f \in Handlers \ {g}, req'[f].item = req[g].item
                 PROVE  req[g].pc = "book" /\ req'[f].op # "add"
    BY <1>1 DEF CreatesAlone
  <2>2. CASE f # h
    BY <2>1, <2>2 DEF Others, Pending, CreatesAlone
  <2>3. CASE f = h
    <3>1. req[h].item = req[g].item => req[g].pc = "book" /\ req[h].op # "add"
      BY <2>1, <2>3 DEF Pending, CreatesAlone
    <3>2. req[g].item \in rows => req[g].pc = "book"
      BY <2>1 DEF Pending, CreatesFresh
    <3>3. req[g].item # NoItem
      BY <1>2, <2>1, ItemsAssumption
    <3>. QED BY <2>1, <2>3, <3>1, <3>2, <3>3
  <2>. QED BY <2>2, <2>3
<1>6. CreatesFresh(g)'
  BY <1>1, <1>2 DEF Pending, CreatesFresh, CreatesAlone
<1>. QED BY <1>3, <1>4, <1>5, <1>6 DEF Pending

\* A step of request h that touches neither the books nor the stock of an item that
\* survives.
Quiet(h) ==
  /\ Others(h) /\ UNCHANGED bulk /\ UNCHANGED ledger
  /\ \A i \in Items : ~AtBooks(h, i) /\ ~AtBooks(h, i)'
  /\ \A i \in Items : i \in rows' => i \in rows /\ qty'[i] = qty[i]

\* The request goes on about its item, turns to one that is stored, or to a fresh one.
Turns(h) ==
  \/ req'[h].item = req[h].item /\ (req'[h].op = "add" => req[h].op = "add")
  \/ /\ req'[h].item \in rows \cup bulk \cup {NoItem}
     /\ req'[h].op = "add" => req'[h].item \in bulk
  \/ \A g \in Handlers \ {h} : req'[h].item # req[g].item

\* The other requests are left with what they rely on, so the items decide.
LEMMA OthersRely ==
  ASSUME Inv, Inv', Balanced, NEW h \in Handlers, Others(h), UNCHANGED bulk, Turns(h), Pending(h)',
         \A k \in Items \ bulk : k \in rows' => k \in rows /\ qty'[k] <= qty[k],
         \A k \in Items : k # req[h].item => ledger'[k] = ledger[k],
         \A k \in Items : Counted(k)' /\ Single(k)'
  PROVE  Balanced'
<1>1. rows' \subseteq Items /\ qty' \in [Items -> Nat]
  BY DEF Inv, Safe, StoreOK
<1>2. ASSUME NEW g \in Handlers \ {h} PROVE Pending(g)'
  BY <1>1, <1>2, PendingOfOthers DEF Turns, Balanced
<1>. QED BY <1>2 DEF Balanced

\* A quiet step keeps the balance.
LEMMA QuietStep ==
  ASSUME Inv, Inv', Balanced, NEW h \in Handlers, Quiet(h), Turns(h), Pending(h)'
  PROVE  Balanced'
<1>1. ASSUME NEW i \in Items PROVE Counted(i)' /\ Single(i)'
  BY <1>1, ItemFrame DEF Quiet, Balanced
<1>2. qty \in [Items -> Nat]
  BY DEF Inv, Safe, StoreOK
<1>3. \A k \in Items \ bulk : k \in rows' => k \in rows /\ qty'[k] <= qty[k]
  BY <1>2 DEF Quiet
<1>. QED BY <1>1, <1>3, OthersRely DEF Quiet

\* Only removals, additions and batches in the background rely on anything.
LEMMA NothingPending ==
  ASSUME NEW h \in Handlers, req'[h].op \notin {"remove", "add", "background"},
         req'[h].op = "bulkDelete" => req'[h].item = NoItem
  PROVE  Pending(h)'
BY DEF Pending, BatchIsBulk, SawThePiece, CreatesAlone, CreatesFresh

\* A blank request is about no item.
LEMMA AnswerQuiet ==
  ASSUME Inv, NEW h \in Handlers, Answer(h)
  PROVE  /\ Others(h) /\ Turns(h) /\ Pending(h)'
         /\ req'[h].item = NoItem
         /\ \A i \in Items : ~AtBooks(h, i)'
<1>1. req'[h] = Idle /\ Others(h)
  BY DEF Answer, Others, Inv, RequestsOK
<1>2. Idle.op = "none" /\ Idle.item = NoItem /\ Idle.pc = "effect"
  BY DEF Idle
<1>3. Pending(h)'
  BY <1>1, <1>2, NothingPending
<1>. QED BY <1>1, <1>2, <1>3 DEF Turns, AtBooks

\* A request that is read starts from the blank one.
LEMMA IssueQuiet ==
  ASSUME Inv, NEW h \in Handlers, NEW op, NEW r, Issue(h, op, r), r.pc # "book"
  PROVE  /\ Others(h) /\ req'[h] = r /\ req[h] = Idle
         /\ \A i \in Items : ~AtBooks(h, i) /\ ~AtBooks(h, i)'
BY DEF Issue, Others, AtBooks, Inv, RequestsOK, Idle

\* Reading leaves books and stock in balance.
LEMMA ReadBalanced ==
  ASSUME Inv, Inv', Balanced, bulk \subseteq Items, UNCHANGED bulk,
         NEW h \in Handlers, ReadStep(h)
  PROVE  Balanced'
<1>1. Reads
  BY DEF ReadStep, ReadRemove, ReadAdd, ReadMove, ReadBulkMove, ReadClear, ReadDelete,
         ReadBulkDelete, ReadMoveBox, ReadDeleteBox, RereadMoved, RereadRemoved
<1>2. rows' = rows /\ qty' = qty /\ ledger' = ledger
  BY <1>1 DEF Reads
<1>3. ASSUME Others(h), \A i \in Items : ~AtBooks(h, i) /\ ~AtBooks(h, i)'
      PROVE  Quiet(h)
  BY <1>2, <1>3 DEF Quiet
<1>t. rows \subseteq Items /\ qty \in [Items -> Nat]
  BY DEF Inv, Safe, StoreOK
<1>4. ASSUME NEW i \in rows \cup {NoItem}, NEW op, NEW r, Issue(h, op, r), r.item = i,
             r.pc # "book", r.op \notin {"remove", "add", "background"},
             r.op = "bulkDelete" => i = NoItem
      PROVE  Balanced'
  <2>1. Quiet(h) /\ req'[h] = r
    BY <1>3, <1>4, IssueQuiet
  <2>2. Pending(h)' /\ Turns(h)
    BY <1>4, <2>1, NothingPending DEF Turns
  <2>. QED BY <2>1, <2>2, QuietStep
<1>5. CASE ReadRemove(h)
  <2>1. PICK i \in rows :
          Issue(h, "remove", [Idle EXCEPT !.op = "remove", !.item = i, !.seen = qty[i]])
    BY <1>5 DEF ReadRemove
  <2>. DEFINE r == [Idle EXCEPT !.op = "remove", !.item = i, !.seen = qty[i]]
  <2>2. r.op = "remove" /\ r.item = i /\ r.seen = qty[i] /\ r.pc = "effect"
    BY DEF Idle
  <2>3. Issue(h, "remove", r)
    BY <2>1
  <2>. HIDE DEF r
  <2>4. Quiet(h) /\ req'[h] = r
    BY <1>3, <2>2, <2>3, IssueQuiet
  <2>5. i \notin bulk => qty[i] <= 1
    BY <1>t DEF Balanced, Single
  <2>6. Pending(h)'
    <3>1. SawThePiece(h)'
      BY <1>2, <1>t, <2>2, <2>4, <2>5 DEF SawThePiece
    <3>. QED BY <3>1, <2>2, <2>4 DEF Pending, BatchIsBulk, CreatesAlone, CreatesFresh
  <2>7. Turns(h)
    BY <2>2, <2>4 DEF Turns
  <2>. QED BY <2>4, <2>6, <2>7, QuietStep
<1>6. CASE ReadAdd(h)
  <2>1. PICK i \in rows :
          \/ /\ i \in bulk
             /\ Issue(h, "add", [Idle EXCEPT !.op = "add", !.item = i])
          \/ \E j \in Items \ (bulk \cup rows) :
               /\ ledger[j] = 0 /\ \A g \in Handlers : req[g].item # j
               /\ Issue(h, "add", [Idle EXCEPT !.op = "add", !.item = j,
                                               !.to = box[i], !.loc = place[i]])
    BY <1>6 DEF ReadAdd
  <2>2. CASE i \in bulk /\ Issue(h, "add", [Idle EXCEPT !.op = "add", !.item = i])
    <3>. DEFINE r == [Idle EXCEPT !.op = "add", !.item = i]
    <3>1. r.op = "add" /\ r.item = i /\ r.pc = "effect"
      BY DEF Idle
    <3>2. Issue(h, "add", r)
      BY <2>2
    <3>. HIDE DEF r
    <3>3. Quiet(h) /\ req'[h] = r
      BY <1>3, <3>1, <3>2, IssueQuiet
    <3>4. Pending(h)' /\ Turns(h)
      BY <2>2, <3>1, <3>3
         DEF Turns, Quiet, Pending, BatchIsBulk, SawThePiece, CreatesAlone, CreatesFresh
    <3>. QED BY <3>3, <3>4, QuietStep
  <2>3. ASSUME NEW j \in Items \ (bulk \cup rows), ledger[j] = 0,
               \A g \in Handlers : req[g].item # j,
               Issue(h, "add", [Idle EXCEPT !.op = "add", !.item = j,
                                            !.to = box[i], !.loc = place[i]])
        PROVE  Balanced'
    <3>. DEFINE r == [Idle EXCEPT !.op = "add", !.item = j, !.to = box[i], !.loc = place[i]]
    <3>1. r.op = "add" /\ r.item = j /\ r.pc = "effect"
      BY DEF Idle
    <3>2. Issue(h, "add", r)
      BY <2>3
    <3>. HIDE DEF r
    <3>3. Quiet(h) /\ req'[h] = r
      BY <1>3, <3>1, <3>2, IssueQuiet
    <3>4. CreatesAlone(h)' /\ CreatesFresh(h)'
      BY <1>2, <2>3, <3>1, <3>3 DEF CreatesAlone, CreatesFresh, Quiet, Others
    <3>5. Pending(h)' /\ Turns(h)
      BY <2>3, <3>1, <3>3, <3>4 DEF Turns, Pending, BatchIsBulk, SawThePiece
    <3>. QED BY <3>3, <3>5, QuietStep
  <2>. QED BY <2>1, <2>2, <2>3
<1>7. CASE ReadMove(h)
  <2>1. PICK i \in rows, b \in boxes :
          Issue(h, "move", [Idle EXCEPT !.op = "move", !.item = i, !.to = b, !.loc = shelf[b]])
    BY <1>7 DEF ReadMove
  <2>. DEFINE r == [Idle EXCEPT !.op = "move", !.item = i, !.to = b, !.loc = shelf[b]]
  <2>2. r.item = i /\ r.op = "move" /\ r.pc = "effect"
    BY DEF Idle
  <2>3. Issue(h, "move", r)
    BY <2>1
  <2>. HIDE DEF r
  <2>. QED BY <1>4, <2>2, <2>3
<1>8. ASSUME NEW i \in rows, NEW op \in {"clear", "delete"},
             Issue(h, op, [Idle EXCEPT !.op = op, !.item = i])
      PROVE  Balanced'
  <2>. DEFINE r == [Idle EXCEPT !.op = op, !.item = i]
  <2>1. r.item = i /\ r.op = op /\ r.pc = "effect"
    BY DEF Idle
  <2>2. Issue(h, op, r)
    BY <1>8
  <2>. HIDE DEF r
  <2>. QED BY <1>4, <1>8, <2>1, <2>2
<1>b. CASE ReadBulkMove(h)
  <2>1. PICK S \in SUBSET rows, b \in boxes :
          Issue(h, "bulkMove", [Idle EXCEPT !.op = "bulkMove", !.pc = "read", !.todo = S, !.to = b])
    BY <1>b DEF ReadBulkMove
  <2>. DEFINE r == [Idle EXCEPT !.op = "bulkMove", !.pc = "read", !.todo = S, !.to = b]
  <2>2. r.item = NoItem /\ r.op = "bulkMove" /\ r.pc = "read"
    BY DEF Idle
  <2>3. Issue(h, "bulkMove", r)
    BY <2>1
  <2>. HIDE DEF r
  <2>. QED BY <1>4, <2>2, <2>3
<1>c. CASE ReadBulkDelete(h)
  <2>1. PICK S \in SUBSET rows :
          Issue(h, "bulkDelete", [Idle EXCEPT !.op = "bulkDelete", !.todo = S])
    BY <1>c DEF ReadBulkDelete
  <2>. DEFINE r == [Idle EXCEPT !.op = "bulkDelete", !.todo = S]
  <2>2. r.item = NoItem /\ r.op = "bulkDelete" /\ r.pc = "effect"
    BY DEF Idle
  <2>3. Issue(h, "bulkDelete", r)
    BY <2>1
  <2>. HIDE DEF r
  <2>. QED BY <1>4, <2>2, <2>3
<1>d. CASE ReadMoveBox(h)
  <2>1. PICK b \in boxes, l \in Shelves \cup {NoShelf} :
          Issue(h, "moveBox", [Idle EXCEPT !.op = "moveBox", !.to = b,
                                           !.loc = IF l = NoShelf THEN shelf[b] ELSE l])
    BY <1>d DEF ReadMoveBox
  <2>. DEFINE r == [Idle EXCEPT !.op = "moveBox", !.to = b,
                                !.loc = IF l = NoShelf THEN shelf[b] ELSE l]
  <2>2. r.item = NoItem /\ r.op = "moveBox" /\ r.pc = "effect"
    BY DEF Idle
  <2>3. Issue(h, "moveBox", r)
    BY <2>1
  <2>. HIDE DEF r
  <2>. QED BY <1>4, <2>2, <2>3
<1>f. CASE ReadDeleteBox(h)
  <2>1. PICK b \in boxes :
          Issue(h, "deleteBox", [Idle EXCEPT !.op = "deleteBox", !.to = b])
    BY <1>f DEF ReadDeleteBox
  <2>. DEFINE r == [Idle EXCEPT !.op = "deleteBox", !.to = b]
  <2>2. r.item = NoItem /\ r.op = "deleteBox" /\ r.pc = "effect"
    BY DEF Idle
  <2>3. Issue(h, "deleteBox", r)
    BY <2>1
  <2>. HIDE DEF r
  <2>. QED BY <1>4, <2>2, <2>3
<1>e. CASE ReadClear(h) \/ ReadDelete(h)
  BY <1>8, <1>e DEF ReadClear, ReadDelete
<1>9. ASSUME NEW i \in Items \cap (rows \cup bulk), Reread(h, i),
             req[h].op \in {"bulkMove", "background"}, req[h].pc = "read",
             req[h].op = "background" => i \in bulk
      PROVE  Balanced'
  <2>1. /\ Others(h) /\ req'[h].item = i /\ req'[h].pc = "effect"
        /\ req'[h].op = req[h].op /\ req'[h].todo = req[h].todo
    BY <1>9 DEF Reread, Others, Inv, RequestsOK, Request
  <2>2. Quiet(h)
    BY <1>3, <1>9, <2>1 DEF AtBooks
  <2>3. Pending(h)
    BY DEF Balanced
  <2>4. Pending(h)' /\ Turns(h)
    BY <1>9, <2>1, <2>3
       DEF Pending, BatchIsBulk, SawThePiece, CreatesAlone, CreatesFresh, Turns
  <2>. QED BY <2>2, <2>4, QuietStep
<1>10. CASE RereadMoved(h)
  <2>1. PICK i \in req[h].todo : (i \in rows /\ Reread(h, i)) \/ Answer(h)
    BY <1>10 DEF RereadMoved
  <2>2. CASE Answer(h)
    <3>1. Quiet(h)
      BY <1>3, <1>10, <2>2, AnswerQuiet DEF RereadMoved, At, AtBooks
    <3>. QED BY <2>2, <3>1, AnswerQuiet, QuietStep
  <2>3. CASE i \in rows /\ Reread(h, i)
    BY <1>9, <1>10, <1>t, <2>3 DEF RereadMoved, At
  <2>. QED BY <2>1, <2>2, <2>3
<1>11. CASE RereadRemoved(h)
  <2>1. PICK i \in req[h].todo : i \in rows /\ Reread(h, i)
    BY <1>11 DEF RereadRemoved
  <2>2. i \in bulk
    BY <1>11 DEF RereadRemoved, At, Balanced, Pending, BatchIsBulk
  <2>. QED BY <1>9, <1>11, <1>t, <2>1, <2>2 DEF RereadRemoved, At
<1>. QED BY <1>5, <1>6, <1>7, <1>b, <1>c, <1>d, <1>e, <1>f, <1>10, <1>11 DEF ReadStep

\* A request that goes from its statement to the books keeps what it relies on.
LEMMA BookingPending ==
  ASSUME Inv, NEW h \in Handlers, Pending(h), Booking(h), UNCHANGED bulk
  PROVE  /\ Others(h) /\ Turns(h) /\ Pending(h)'
         /\ req'[h].item = req[h].item /\ req'[h].op = req[h].op /\ req'[h].pc = "book"
         /\ req'[h].seen = req[h].seen
         /\ \A k \in Items : k # req[h].item => ~AtBooks(h, k) /\ ~AtBooks(h, k)'
<1>1. /\ Others(h) /\ req'[h].todo = req[h].todo /\ req'[h].seen = req[h].seen
      /\ req'[h].item = req[h].item /\ req'[h].op = req[h].op /\ req'[h].pc = "book"
  BY DEF Booking, Others, Inv, RequestsOK, Request
<1>2. CreatesAlone(h)'
  BY <1>1 DEF Others, Pending, CreatesAlone
<1>3. Pending(h)'
  BY <1>1, <1>2 DEF Pending, BatchIsBulk, SawThePiece, CreatesFresh
<1>. QED BY <1>1, <1>3 DEF Turns, AtBooks

\* A removal of what is counted takes at most one piece and is about to book one.
LEMMA TakeBulk ==
  ASSUME Inv, Inv', Balanced, UNCHANGED bulk, NEW h \in Handlers,
         req[h].op \in {"remove", "background"}, req[h].pc = "effect",
         req[h].item \in bulk \cup {NoItem}, decrementItemStock(req[h].item),
         Booking(h), Writes
  PROVE  Balanced'
<1>1. /\ qty \in [Items -> Nat] /\ qty' \in [Items -> Nat] /\ rows \subseteq Items
      /\ ledger \in [Items -> Int] /\ ledger' = ledger
  BY DEF Inv, Safe, StoreOK, RestOK, Writes
<1>2. Pending(h)
  BY DEF Balanced
<1>3. rows' = rows /\ \A k \in Items : qty'[k] <= qty[k] /\ (k # req[h].item => qty'[k] = qty[k])
  BY <1>1 DEF decrementItemStock, store
<1>4. ASSUME NEW k \in Items, k # req[h].item PROVE Counted(k)' /\ Single(k)'
  BY <1>1, <1>2, <1>3, <1>4, BookingPending, ItemFrame DEF Balanced
<1>5. ASSUME NEW i \in Items, i = req[h].item PROVE Counted(i)' /\ Single(i)'
  <2>1. /\ Cardinality(Removals(i)') = Cardinality(Removals(i)) + 1
        /\ Cardinality(Removals(i)) \in Nat
        /\ Additions(i)' = Additions(i) /\ Cardinality(Additions(i)) \in Nat
    <3>1. ~AtBooks(h, i) /\ AtBooks(h, i)' /\ Others(h) /\ req'[h].op \in {"remove", "background"}
      BY <1>2, <1>5, BookingPending DEF AtBooks
    <3>2. /\ h \notin Removals(i) /\ Removals(i)' = Removals(i) \cup {h}
          /\ Additions(i)' = Additions(i)
      BY <1>5, <3>1, BookSets
    <3>3. /\ Cardinality(Removals(i) \cup {h}) = Cardinality(Removals(i)) + 1
          /\ Cardinality(Removals(i)) \in Nat /\ Cardinality(Additions(i)) \in Nat
      BY <3>2, CountOf, BooksAreHandlers
    <3>. QED BY <3>2, <3>3
  <2>2. i \in rows => qty'[i] >= qty[i] - 1
    BY <1>1, <1>5 DEF decrementItemStock, store
  <2>3. qty[i] \in Nat /\ qty'[i] \in Nat /\ ledger[i] \in Int
    BY <1>1, <1>5
  <2>4. Counted(i)
    BY <1>5 DEF Balanced
  <2>5. Counted(i)'
    BY <1>1, <1>3, <2>1, <2>2, <2>3, <2>4 DEF Counted
  <2>6. Single(i)'
    BY <1>1, <1>5, ItemsAssumption DEF Single
  <2>. QED BY <2>5, <2>6
<1>. QED BY <1>1, <1>2, <1>3, <1>4, <1>5, BookingPending, OthersRely

\* A removal of a single item takes the piece and is about to book what it saw.
LEMMA TakeSingle ==
  ASSUME Inv, Inv', Balanced, UNCHANGED bulk, NEW h \in Handlers,
         req[h].op = "remove", req[h].pc = "effect", req[h].item \notin bulk,
         zeroItemStock(req[h].item), Booking(h), Writes
  PROVE  Balanced'
<1>1. /\ qty \in [Items -> Nat] /\ qty' \in [Items -> Nat] /\ rows \subseteq Items
      /\ ledger \in [Items -> Int] /\ ledger' = ledger
  BY DEF Inv, Safe, StoreOK, RestOK, Writes
<1>2. Pending(h) /\ req[h].seen \in Nat
  BY RequestFields DEF Balanced, Inv
<1>3. rows' = rows /\ \A k \in Items : qty'[k] <= qty[k] /\ (k # req[h].item => qty'[k] = qty[k])
  BY <1>1 DEF zeroItemStock
<1>4. ASSUME NEW k \in Items, k # req[h].item PROVE Counted(k)' /\ Single(k)'
  BY <1>1, <1>2, <1>3, <1>4, BookingPending, ItemFrame DEF Balanced
<1>5. ASSUME NEW i \in Items, i = req[h].item PROVE Counted(i)' /\ Single(i)'
  <2>1. Counted(i)'
    BY <1>5 DEF Counted
  <2>2. /\ Removals(i)' = Removals(i) \cup {h} /\ h \notin Removals(i) /\ Additions(i)' = Additions(i)
    <3>1. ~AtBooks(h, i) /\ AtBooks(h, i)' /\ Others(h) /\ req'[h].op \in {"remove", "background"}
      BY <1>2, <1>5, BookingPending DEF AtBooks
    <3>. QED BY <1>5, <3>1, BookSets
  <2>3. \A g \in Removals(i) : req'[g].seen = req[g].seen
    BY <1>2, <2>2, BookingPending DEF Others, Removals
  <2>4. req'[h].seen = req[h].seen /\ req[h].seen <= 1 /\ (i \in rows => qty[i] <= req[h].seen)
    BY <1>2, <1>5, BookingPending DEF Pending, SawThePiece
  <2>5. qty'[i] = 0 /\ qty[i] \in Nat
    BY <1>1, <1>5 DEF zeroItemStock
  <2>6. Single(i)
    BY <1>5 DEF Balanced
  <2>7. Expected(i)' = Expected(i)
    BY <1>1, <2>2 DEF Expected
  <2>8. CASE i \in rows /\ qty[i] = 0
    BY <1>3, <2>1, <2>2, <2>3, <2>5, <2>6, <2>7, <2>8 DEF Single
  <2>9. CASE i \in rows /\ qty[i] # 0
    <3>1. req'[h].seen = 1
      BY <1>2, <2>4, <2>5, <2>9
    <3>. QED BY <1>3, <2>1, <2>2, <3>1, <2>5, <2>6, <2>7, <2>9 DEF Single
  <2>10. CASE i \notin rows
    BY <1>3, <2>1, <2>10 DEF Single
  <2>. QED BY <2>1, <2>8, <2>9, <2>10
<1>. QED BY <1>1, <1>2, <1>3, <1>4, <1>5, BookingPending, OthersRely

\* One more piece of what is counted is about to be booked.
LEMMA AddBulk ==
  ASSUME Inv, Inv', Balanced, UNCHANGED bulk, NEW h \in Handlers, At(h, "add", "effect"),
         req[h].item \in bulk, incrementItemStock(req[h].item), Booking(h), Writes
  PROVE  Balanced'
<1>1. /\ qty \in [Items -> Nat] /\ qty' \in [Items -> Nat] /\ rows \subseteq Items
      /\ ledger \in [Items -> Int] /\ ledger' = ledger
  BY DEF Inv, Safe, StoreOK, RestOK, Writes
<1>2. Pending(h)
  BY DEF Balanced
<1>3. rows' = rows /\ \A k \in Items : k # req[h].item => qty'[k] = qty[k]
  BY <1>1 DEF incrementItemStock
<1>4. ASSUME NEW k \in Items, k # req[h].item PROVE Counted(k)' /\ Single(k)'
  BY <1>1, <1>2, <1>3, <1>4, BookingPending, ItemFrame DEF Balanced
<1>5. ASSUME NEW i \in Items, i = req[h].item PROVE Counted(i)' /\ Single(i)'
  <2>1. /\ h \notin Additions(i) /\ Additions(i)' = Additions(i) \cup {h}
        /\ Removals(i)' = Removals(i)
    <3>1. ~AtBooks(h, i) /\ AtBooks(h, i)' /\ Others(h) /\ req'[h].op = "add"
      BY <1>2, <1>5, BookingPending DEF AtBooks, At
    <3>. QED BY <1>5, <3>1, BookSets
  <2>2. /\ Cardinality(Additions(i) \cup {h}) = Cardinality(Additions(i)) + 1
        /\ Cardinality(Removals(i)) \in Nat /\ Cardinality(Additions(i)) \in Nat
    BY <2>1, CountOf, BooksAreHandlers
  <2>3. i \in rows => qty'[i] = qty[i] + 1
    BY <1>1, <1>5 DEF incrementItemStock
  <2>4. Counted(i) /\ qty[i] \in Nat /\ qty'[i] \in Nat /\ ledger[i] \in Int
    BY <1>1, <1>5 DEF Balanced
  <2>5. Counted(i)'
    BY <1>1, <1>3, <2>1, <2>2, <2>3, <2>4 DEF Counted
  <2>6. Single(i)'
    BY <1>5 DEF Single
  <2>. QED BY <2>5, <2>6
<1>6. \A k \in Items \ bulk : k \in rows' => k \in rows /\ qty'[k] <= qty[k]
  BY <1>1, <1>3
<1>. QED BY <1>1, <1>2, <1>4, <1>5, <1>6, BookingPending, OthersRely

\* A new instance is stored, and the books expect it.
LEMMA AddSingle ==
  ASSUME Inv, Inv', Balanced, UNCHANGED bulk, NEW h \in Handlers, At(h, "add", "effect"),
         req[h].item \notin bulk, CreateInstance(h), Booking(h), Writes
  PROVE  Balanced'
<1>1. /\ qty \in [Items -> Nat] /\ rows \subseteq Items /\ ledger \in [Items -> Int]
      /\ ledger' = ledger
  BY DEF Inv, Safe, StoreOK, RestOK, Writes
<1>2. Pending(h) /\ req[h].item \in Items
  BY DEF Balanced, Inv, AddsNamed, At
<1>3. /\ rows' = rows \cup {req[h].item} /\ qty'[req[h].item] = 1
      /\ \A k \in Items : k # req[h].item => qty'[k] = qty[k]
  BY <1>1, <1>2 DEF CreateInstance
<1>n. \A g \in Handlers \ {h} : req[g].item # req[h].item
  BY <1>2 DEF Pending, CreatesAlone, At
<1>4. ASSUME NEW k \in Items, k # req[h].item PROVE Counted(k)' /\ Single(k)'
  BY <1>1, <1>2, <1>3, <1>4, BookingPending, ItemFrame DEF Balanced
<1>5. ASSUME NEW i \in Items, i = req[h].item PROVE Counted(i)' /\ Single(i)'
  <2>1. Counted(i)'
    BY <1>5 DEF Counted
  <2>2. Additions(i)' # {}
    <3>1. h \in Additions(i)'
      BY <1>2, <1>5, BookingPending DEF Additions, At
    <3>. QED BY <3>1
  <2>3. ledger'[i] = 0
    BY <1>1, <1>2, <1>5 DEF Pending, CreatesFresh, At
  <2>4. qty'[i] = 1
    BY <1>3, <1>5
  <2>5. Single(i)'
    BY <2>2, <2>3, <2>4 DEF Single, Expected
  <2>. QED BY <2>1, <2>5
<1>6. ASSUME NEW g \in Handlers, g # h PROVE Pending(g)'
  <2>1. Pending(g) /\ req'[g] = req[g] /\ req[g].item # req[h].item
    BY <1>2, <1>n, <1>6, BookingPending DEF Balanced, Others
  <2>2. BatchIsBulk(g)'
    BY <2>1 DEF Pending, BatchIsBulk
  <2>3. SawThePiece(g)'
    BY <1>1, <1>3, <2>1 DEF Pending, SawThePiece
  <2>4. CreatesAlone(g)'
    BY <1>2, <2>1, BookingPending DEF Pending, CreatesAlone, Others
  <2>5. CreatesFresh(g)'
    BY <1>1, <1>3, <2>1 DEF Pending, CreatesFresh
  <2>. QED BY <2>2, <2>3, <2>4, <2>5 DEF Pending
<1>. QED BY <1>2, <1>4, <1>5, <1>6, BookingPending DEF Balanced

\* A request that leaves its item, answered or at the next of its batch.
Leaves(h) == Others(h) /\ Turns(h) /\ Pending(h)' /\ req'[h].item = NoItem

LEMMA LeavesBooks ==
  ASSUME NEW h \in Handlers, Leaves(h), NEW i \in Items
  PROVE  ~AtBooks(h, i)'
BY ItemsAssumption DEF Leaves, AtBooks

LEMMA NextLeaves ==
  ASSUME Inv, NEW h \in Handlers, Pending(h), UNCHANGED bulk,
         req[h].op \in {"bulkMove", "background"}, NextOfBatch(h)
  PROVE  Leaves(h)
<1>1. CASE Answer(h)
  BY <1>1, AnswerQuiet DEF Leaves
<1>2. CASE ~Answer(h)
  <2>. DEFINE r == [Idle EXCEPT !.op = req[h].op, !.pc = "read", !.to = req[h].to,
                                !.todo = req[h].todo \ {req[h].item}]
  <2>1. /\ r.op = req[h].op /\ r.item = NoItem /\ r.todo = req[h].todo \ {req[h].item}
    BY DEF Idle
  <2>2. req' = [req EXCEPT ![h] = r]
    BY <1>2 DEF NextOfBatch
  <2>. HIDE DEF r
  <2>3. Others(h) /\ req'[h] = r
    BY <2>2 DEF Others, Inv, RequestsOK
  <2>4. Turns(h)
    BY <2>1, <2>3 DEF Turns
  <2>5. Pending(h)'
    BY <2>1, <2>3 DEF Pending, BatchIsBulk, SawThePiece, CreatesAlone, CreatesFresh
  <2>. QED BY <2>1, <2>3, <2>4, <2>5 DEF Leaves
<1>. QED BY <1>1, <1>2

\* A request that books a change of its item and leaves it, seen from the items.
LEMMA BooksOne ==
  ASSUME Inv, Inv', Balanced, UNCHANGED bulk, NEW h \in Handlers, Leaves(h), Books,
         NEW n \in Int, Book(req[h].item, n),
         \A i \in Items : i = req[h].item => Counted(i)' /\ Single(i)'
  PROVE  Balanced'
<1>1. /\ qty \in [Items -> Nat] /\ qty' = qty /\ rows' = rows /\ ledger \in [Items -> Int]
  BY DEF Inv, Safe, StoreOK, RestOK, Books
<1>2. \A k \in Items : k # req[h].item => ledger'[k] = ledger[k]
  BY <1>1 DEF Book
<1>3. ASSUME NEW k \in Items, k # req[h].item PROVE Counted(k)' /\ Single(k)'
  <2>1. ~AtBooks(h, k) /\ ~AtBooks(h, k)'
    BY <1>3, LeavesBooks DEF AtBooks
  <2>. QED BY <1>1, <1>2, <1>3, <2>1, ItemFrame DEF Balanced, Leaves
<1>4. \A k \in Items \ bulk : k \in rows' => k \in rows /\ qty'[k] <= qty[k]
  BY <1>1
<1>. QED BY <1>2, <1>3, <1>4, OthersRely DEF Leaves

\* Booking the removal of a counted piece.
LEMMA BookBulk ==
  ASSUME Inv, Inv', Balanced, UNCHANGED bulk, NEW h \in Handlers, Leaves(h), Books,
         req[h].op \in {"remove", "background"}, req[h].pc = "book",
         req[h].item \in bulk \cup {NoItem}, Book(req[h].item, -1)
  PROVE  Balanced'
<1>1. /\ qty \in [Items -> Nat] /\ qty' = qty /\ rows' = rows /\ ledger \in [Items -> Int]
  BY DEF Inv, Safe, StoreOK, RestOK, Books
<1>2. ASSUME NEW i \in Items, i = req[h].item PROVE Counted(i)' /\ Single(i)'
  <2>1. /\ h \in Removals(i) /\ Removals(i)' = Removals(i) \ {h} /\ Additions(i)' = Additions(i)
    <3>1. AtBooks(h, i) /\ ~AtBooks(h, i)' /\ Others(h)
      BY <1>2, LeavesBooks DEF AtBooks, Leaves
    <3>. QED BY <1>2, <3>1, BookSets
  <2>2. /\ Cardinality(Removals(i) \ {h}) = Cardinality(Removals(i)) - 1
        /\ Cardinality(Removals(i)) \in Nat /\ Cardinality(Additions(i)) \in Nat
    BY <2>1, CountOf, BooksAreHandlers
  <2>3. ledger'[i] = ledger[i] - 1
    BY <1>1, <1>2 DEF Book
  <2>4. Counted(i) /\ qty[i] \in Nat /\ ledger[i] \in Int
    BY <1>1, <1>2 DEF Balanced
  <2>5. Counted(i)'
    BY <1>1, <2>1, <2>2, <2>3, <2>4 DEF Counted
  <2>6. Single(i)'
    BY <1>2, ItemsAssumption DEF Single
  <2>. QED BY <2>5, <2>6
<1>. QED BY <1>2, BooksOne

\* Booking the removal of a single item.
LEMMA BookSingle ==
  ASSUME Inv, Inv', Balanced, UNCHANGED bulk, NEW h \in Handlers, Leaves(h), Books,
         req[h].op = "remove", req[h].pc = "book", req[h].item \notin bulk,
         Book(req[h].item, -req[h].seen)
  PROVE  Balanced'
<1>1. /\ qty \in [Items -> Nat] /\ qty' = qty /\ rows' = rows /\ ledger \in [Items -> Int]
      /\ req[h].seen \in Nat
  BY RequestFields DEF Inv, Safe, StoreOK, RestOK, Books
<1>2. ASSUME NEW i \in Items, i = req[h].item PROVE Counted(i)' /\ Single(i)'
  <2>1. /\ h \in Removals(i) /\ Removals(i)' = Removals(i) \ {h} /\ Additions(i)' = Additions(i)
    <3>1. AtBooks(h, i) /\ ~AtBooks(h, i)' /\ Others(h)
      BY <1>2, LeavesBooks DEF AtBooks, Leaves
    <3>. QED BY <1>2, <3>1, BookSets
  <2>2. ledger'[i] = ledger[i] - req[h].seen /\ ledger[i] \in Int /\ qty[i] \in Nat
    BY <1>1, <1>2 DEF Book
  <2>3. Expected(i) \in Int /\ Expected(i)' = Expected(i) - req[h].seen
    BY <1>1, <2>1, <2>2 DEF Expected
  <2>4. Single(i) /\ req[h].seen <= 1
    BY <1>2 DEF Balanced, Pending, SawThePiece
  <2>5. \A g \in Removals(i) \ {h} : req'[g].seen = req[g].seen
    BY DEF Removals, Leaves, Others
  <2>6. Counted(i)'
    BY <1>2 DEF Counted
  <2>7. Single(i)'
    <3>1. SUFFICES ASSUME i \in rows \ bulk
                   PROVE  /\ qty[i] <= 1 /\ Expected(i)' <= 1
                          /\ qty[i] = 0 => Expected(i)' <= 0
                                           \/ \E g \in Removals(i)' : req'[g].seen = 1
      BY <1>1 DEF Single
    <3>2. qty[i] <= 1 /\ Expected(i) <= 1
      BY <2>4, <3>1 DEF Single
    <3>3. Expected(i)' <= 1
      BY <1>1, <2>3, <3>2
    <3>4. ASSUME qty[i] = 0
          PROVE  Expected(i)' <= 0 \/ \E g \in Removals(i)' : req'[g].seen = 1
      <4>1. CASE Expected(i) <= 0
        BY <1>1, <2>3, <4>1
      <4>2. CASE \E g \in Removals(i) : req[g].seen = 1
        <5>1. PICK g \in Removals(i) : req[g].seen = 1
          BY <4>2
        <5>2. CASE g = h
          BY <1>1, <2>3, <3>2, <5>1, <5>2
        <5>3. CASE g # h
          BY <2>1, <2>5, <5>1, <5>3
        <5>. QED BY <5>2, <5>3
      <4>. QED BY <2>4, <3>1, <3>4, <4>1, <4>2 DEF Single
    <3>. QED BY <3>2, <3>3, <3>4
  <2>. QED BY <2>6, <2>7
<1>3. -req[h].seen \in Int
  BY <1>1
<1>. QED BY <1>2, <1>3, BooksOne

\* Booking an addition.
LEMMA BookAdded ==
  ASSUME Inv, Inv', Balanced, UNCHANGED bulk, NEW h \in Handlers, Leaves(h), Books,
         At(h, "add", "book"), Book(req[h].item, 1)
  PROVE  Balanced'
<1>1. /\ qty \in [Items -> Nat] /\ qty' = qty /\ rows' = rows /\ ledger \in [Items -> Int]
  BY DEF Inv, Safe, StoreOK, RestOK, Books
<1>2. ASSUME NEW i \in Items, i = req[h].item PROVE Counted(i)' /\ Single(i)'
  <2>1. /\ h \in Additions(i) /\ Additions(i)' = Additions(i) \ {h} /\ Removals(i)' = Removals(i)
    <3>1. AtBooks(h, i) /\ ~AtBooks(h, i)' /\ Others(h)
      BY <1>2, LeavesBooks DEF AtBooks, Leaves, At
    <3>. QED BY <1>2, <3>1, BookSets DEF At
  <2>2. /\ Cardinality(Additions(i) \ {h}) = Cardinality(Additions(i)) - 1
        /\ Cardinality(Removals(i)) \in Nat /\ Cardinality(Additions(i)) \in Nat
    BY <2>1, CountOf, BooksAreHandlers
  <2>3. ledger'[i] = ledger[i] + 1 /\ ledger[i] \in Int /\ qty[i] \in Nat
    BY <1>1, <1>2 DEF Book
  <2>4. Counted(i) /\ Single(i) /\ Pending(h)
    BY <1>2 DEF Balanced
  <2>5. Counted(i)'
    BY <1>1, <2>1, <2>2, <2>3, <2>4 DEF Counted
  <2>6. ASSUME i \notin bulk PROVE Expected(i)' = Expected(i)
    <3>1. Additions(i) = {h}
      BY <1>2, <2>1, <2>4, <2>6 DEF Pending, CreatesAlone, Additions, At
    <3>. QED BY <2>1, <2>3, <3>1 DEF Expected
  <2>7. \A g \in Removals(i) : req'[g].seen = req[g].seen
    BY DEF Removals, Leaves, Others, At
  <2>8. Single(i)'
    BY <1>1, <2>1, <2>4, <2>6, <2>7 DEF Single
  <2>. QED BY <2>5, <2>8
<1>. QED BY <1>2, BooksOne

\* Every entry in the books keeps the balance.
LEMMA BookBalanced ==
  ASSUME Inv, Inv', Balanced, UNCHANGED bulk, NEW h \in Handlers, BookStep(h)
  PROVE  Balanced'
<1>1. Pending(h)
  BY DEF Balanced
<1>2. ASSUME Answer(h) PROVE Leaves(h)
  BY <1>2, AnswerQuiet DEF Leaves
<1>3. CASE BookRemoval(h)
  <2>1. Leaves(h) /\ Books /\ req[h].op = "remove" /\ req[h].pc = "book"
    BY <1>2, <1>3 DEF BookRemoval, At
  <2>2. CASE req[h].item \in bulk
    BY <1>3, <2>1, <2>2, BookBulk DEF BookRemoval
  <2>3. CASE req[h].item \notin bulk
    BY <1>3, <2>1, <2>3, BookSingle DEF BookRemoval
  <2>. QED BY <2>2, <2>3
<1>4. CASE BookAddition(h)
  BY <1>2, <1>4, BookAdded DEF BookAddition
<1>5. CASE BookBulkRemoval(h)
  <2>1. req[h].op = "background" /\ req[h].pc = "book" /\ req[h].item \in bulk \cup {NoItem}
    BY <1>1, <1>5 DEF BookBulkRemoval, At, Pending, BatchIsBulk
  <2>2. Leaves(h)
    BY <1>1, <1>5, <2>1, NextLeaves DEF BookBulkRemoval
  <2>. QED BY <1>5, <2>1, <2>2, BookBulk DEF BookBulkRemoval
<1>. QED BY <1>3, <1>4, <1>5 DEF BookStep

\* A statement after which the request leaves its item, and that takes nothing from an
\* item that stays.
LEMMA LeavingStatement ==
  ASSUME Inv, Inv', Balanced, UNCHANGED bulk, NEW h \in Handlers, Leaves(h), Writes,
         req[h].pc = "effect",
         \A i \in Items : i \in rows' => i \in rows /\ qty'[i] = qty[i]
  PROVE  Balanced'
<1>1. ASSUME NEW i \in Items PROVE ~AtBooks(h, i) /\ ~AtBooks(h, i)'
  BY <1>1, LeavesBooks DEF AtBooks
<1>2. Quiet(h)
  BY <1>1 DEF Quiet, Leaves, Writes
<1>. QED BY <1>2, QuietStep DEF Leaves

\* Every statement keeps the balance.
LEMMA WriteBalanced ==
  ASSUME Inv, Inv', Balanced, UNCHANGED bulk, NEW h \in Handlers, WriteStep(h)
  PROVE  Balanced'
<1>1. Pending(h) /\ qty \in [Items -> Nat]
  BY DEF Balanced, Inv, Safe, StoreOK
<1>2. ASSUME Answer(h) PROVE Leaves(h)
  BY <1>2, AnswerQuiet DEF Leaves
<1>3. CASE Remove(h)
  <2>1. CASE req[h].item \in bulk
    BY <1>3, <2>1, TakeBulk DEF Remove, At
  <2>2. CASE req[h].item \notin bulk
    BY <1>3, <2>2, TakeSingle DEF Remove, At
  <2>. QED BY <2>1, <2>2
<1>4. CASE Add(h)
  <2>1. At(h, "add", "effect") /\ Writes
    BY <1>4 DEF Add
  <2>2. CASE req[h].item \in bulk /\ incrementItemStock(req[h].item) /\ Booking(h)
    BY <2>1, <2>2, AddBulk
  <2>3. CASE req[h].item \notin bulk /\ CreateInstance(h) /\ Booking(h)
    BY <2>1, <2>3, AddSingle
  <2>4. CASE Answer(h) /\ UNCHANGED store
    BY <1>2, <2>1, <2>4, LeavingStatement DEF At, store
  <2>. QED BY <1>4, <2>2, <2>3, <2>4 DEF Add
<1>5. CASE Move(h)
  <2>1. rows' = rows /\ qty' = qty
    BY <1>5 DEF Move, PlaceItem, store
  <2>. QED BY <1>2, <1>5, <2>1, LeavingStatement DEF Move, At
<1>6. CASE BulkMoveOne(h)
  <2>1. rows' = rows /\ qty' = qty
    BY <1>6 DEF BulkMoveOne, PlaceItem, store
  <2>2. Leaves(h)
    BY <1>1, <1>2, <1>6, NextLeaves DEF BulkMoveOne, At
  <2>. QED BY <1>6, <2>1, <2>2, LeavingStatement DEF BulkMoveOne, At
<1>7. CASE Clear(h)
  BY <1>2, <1>7, LeavingStatement DEF Clear, At, clearItemLocation
<1>8. CASE Delete(h)
  <2>1. \A i \in Items : i \in rows' => i \in rows /\ qty'[i] = qty[i]
    BY <1>1, <1>8 DEF Delete, deleteItem
  <2>. QED BY <1>2, <1>8, <2>1, LeavingStatement DEF Delete, At
<1>9. CASE BulkDeleteInstance(h)
  <2>1. PICK j \in req[h].todo : deleteItem(j) /\ req' = [req EXCEPT ![h].todo = @ \ {j}]
    BY <1>9 DEF BulkDeleteInstance
  <2>2. /\ Others(h) /\ req'[h].op = "bulkDelete" /\ req[h].op = "bulkDelete"
        /\ req'[h].pc = "effect" /\ req[h].pc = "effect" /\ req'[h].item = req[h].item
    BY <1>9, <2>1 DEF BulkDeleteInstance, At, Others, Inv, RequestsOK, Request
  <2>3. \A i \in Items : i \in rows' => i \in rows /\ qty'[i] = qty[i]
    BY <1>1, <2>1 DEF deleteItem
  <2>4. Quiet(h)
    BY <1>9, <2>2, <2>3 DEF Quiet, AtBooks, BulkDeleteInstance, Writes
  <2>5. Pending(h)' /\ Turns(h)
    BY <1>1, <2>2, NothingPending DEF Turns, Pending, BatchIsBulk
  <2>. QED BY <2>4, <2>5, QuietStep
<1>10. CASE BulkRemoveOne(h)
  <2>1. req[h].op = "background" /\ req[h].pc = "effect" /\ req[h].item \in bulk \cup {NoItem}
    BY <1>1, <1>10 DEF BulkRemoveOne, At, Pending, BatchIsBulk
  <2>. QED BY <1>10, <2>1, TakeBulk DEF BulkRemoveOne
<1>11. CASE MoveBox(h)
  BY <1>2, <1>11, LeavingStatement DEF MoveBox, At
<1>12. CASE DeleteBox(h)
  BY <1>2, <1>12, LeavingStatement DEF DeleteBox, At, deleteBox
<1>. QED BY <1>3, <1>4, <1>5, <1>6, <1>7, <1>8, <1>9, <1>10, <1>11, <1>12 DEF WriteStep

\* Handing the bulk items of a batch to the background keeps it.
LEMMA BackgroundBalanced ==
  ASSUME Inv, Inv', Balanced, UNCHANGED bulk, NEW h \in Handlers, AnswerBulkDelete(h)
  PROVE  Balanced'
<1>1. /\ At(h, "bulkDelete", "effect") /\ req[h].todo \subseteq bulk
      /\ rows' = rows /\ qty' = qty /\ ledger' = ledger
  BY DEF AnswerBulkDelete, Reads
<1>n. req[h].item = NoItem
  BY <1>1 DEF Balanced, Pending, BatchIsBulk, At
<1>2. CASE Answer(h)
  <2>1. Quiet(h)
    BY <1>1, <1>2, AnswerQuiet DEF Quiet, AtBooks, At
  <2>. QED BY <1>2, <2>1, AnswerQuiet, QuietStep
<1>3. CASE req' = [req EXCEPT ![h].op = "background", ![h].pc = "read"]
  <2>1. /\ Others(h) /\ req'[h].item = NoItem /\ req'[h].todo = req[h].todo
        /\ req'[h].op = "background" /\ req'[h].pc = "read"
    BY <1>n, <1>3 DEF Others, Inv, RequestsOK, Request
  <2>2. Quiet(h) /\ Turns(h)
    BY <1>1, <1>n, <2>1 DEF Quiet, Turns, AtBooks, At
  <2>3. Pending(h)'
    BY <1>1, <2>1 DEF Pending, BatchIsBulk, SawThePiece, CreatesAlone, CreatesFresh
  <2>. QED BY <2>2, <2>3, QuietStep
<1>. QED BY <1>2, <1>3 DEF AnswerBulkDelete

\* Stock and books are kept in balance until the process is restarted.
LEMMA BookedKept == Inv /\ Inv' /\ bulk \subseteq Items /\ Booked /\ [Next]_vars => Booked'
<1>. SUFFICES ASSUME Inv, Inv', bulk \subseteq Items, Booked, [Next]_vars,
                     crashes' = MaxCrashes /\ ~died'
              PROVE  Balanced'
  BY DEF Booked
<1>1. crashes \in 0..MaxCrashes /\ MaxCrashes \in Nat
  BY BoundsAssumption DEF Inv, RestOK
<1>2. ASSUME NEW h \in Handlers, ReadStep(h) \/ AnswerBulkDelete(h), UNCHANGED bulk PROVE Balanced'
  <2>1. Reads
    BY <1>2 DEF ReadStep, ReadRemove, ReadAdd, ReadMove, ReadBulkMove, ReadClear, ReadDelete,
                ReadBulkDelete, ReadMoveBox, ReadDeleteBox, RereadMoved, RereadRemoved,
                AnswerBulkDelete
  <2>2. Balanced
    BY <2>1 DEF Booked, Reads
  <2>. QED BY <1>2, <2>2, ReadBalanced, BackgroundBalanced
<1>3. ASSUME NEW h \in Handlers, WriteStep(h), UNCHANGED bulk PROVE Balanced'
  <2>1. Writes
    BY <1>3 DEF WriteStep, Remove, Add, Move, BulkMoveOne, Clear, Delete, BulkDeleteInstance,
                BulkRemoveOne, MoveBox, DeleteBox
  <2>. QED BY <1>3, <2>1, WriteBalanced DEF Booked, Writes
<1>4. ASSUME NEW h \in Handlers, BookStep(h), UNCHANGED bulk PROVE Balanced'
  <2>1. Books
    BY <1>4 DEF BookStep, BookRemoval, BookAddition, BookBulkRemoval
  <2>. QED BY <1>4, <2>1, BookBalanced DEF Booked, Books
<1>5. ASSUME NEW h \in Handlers PROVE ~RejectBatch(h)
  BY DEF RejectBatch
<1>6. ~Crash
  BY <1>1 DEF Crash
<1>7. CASE UNCHANGED <<bulk, rows, qty, ledger, req, crashes, died>>
  <2>1. Balanced
    BY <1>7 DEF Booked
  <2>2. ASSUME NEW i \in Items PROVE Counted(i)' /\ Single(i)'
    <3>1. Removals(i)' = Removals(i) /\ Additions(i)' = Additions(i)
      BY <1>7 DEF Removals, Additions
    <3>. QED BY <1>7, <2>1, <3>1 DEF Balanced, Counted, Single, Expected
  <2>3. ASSUME NEW h \in Handlers PROVE Pending(h)'
    BY <1>7, <2>1 DEF Balanced, Pending, BatchIsBulk, SawThePiece, CreatesAlone, CreatesFresh
  <2>. QED BY <2>2, <2>3 DEF Balanced
<1>. QED BY <1>2, <1>3, <1>4, <1>5, <1>6, <1>7 DEF Next, CreateBox, vars

\* They are in balance at the start: one piece of every item in stock.
LEMMA BookedFirst == Init => Booked
<1>. SUFFICES ASSUME Init PROVE Balanced
  BY DEF Booked
<1>1. \A h \in Handlers : req[h].op = "none" /\ req[h].pc = "effect"
  BY DEF Init, Idle
<1>2. ASSUME NEW h \in Handlers PROVE Pending(h)
  BY <1>1 DEF Pending, BatchIsBulk, SawThePiece, CreatesAlone, CreatesFresh
<1>3. ASSUME NEW i \in Items PROVE Counted(i) /\ Single(i)
  <2>1. Removals(i) = {} /\ Additions(i) = {}
    BY <1>1 DEF Removals, Additions
  <2>2. Cardinality({}) = 0
    BY FS_EmptySet
  <2>3. ledger[i] = qty[i] /\ qty[i] \in {0, 1}
    BY DEF Init
  <2>. QED BY <2>1, <2>2, <2>3 DEF Counted, Single, Expected
<1>. QED BY <1>2, <1>3 DEF Balanced

-----------------------------------------------------------------------------
(* Theorems *)

\* Every variable keeps its type; above all, no interleaving of removals, additions
\* and deletions of the action handlers makes the stock of an item negative.
THEOREM StockNeverNegative == Spec => []TypeOK
<1>1. Inv /\ bulk \subseteq Items => TypeOK
  BY TypeSplit DEF Inv, Safe
<1>. QED BY <1>1, Initial, Inductive, KindsFixed, PTL DEF Spec

\* No item lies in a box that does not exist, whichever box the handler looked up
\* before another request deleted it.
THEOREM BoxesExist == Spec => []BoxReferences
<1>1. Inv => BoxReferences
  BY DEF Inv, Safe
<1>. QED BY <1>1, Initial, Inductive, PTL DEF Spec

\* The books never show more of a stored item than there is, unless a request is just
\* about to book what it took: whatever removals, additions, moves and deletions
\* interleave, and however many read the same last piece, as long as no restart comes
\* between a statement and its event.
THEOREM LossesAreBooked == Spec => []NoUnbookedLoss
<1>1. Inv /\ Booked => NoUnbookedLoss
  <2>. SUFFICES ASSUME Inv, Balanced, NEW i \in rows, ~Unbooked(i)
                PROVE  qty[i] >= ledger[i]
    BY DEF Booked, NoUnbookedLoss
  <2>1. i \in Items /\ qty[i] \in Nat /\ ledger[i] \in Int
    BY DEF Inv, Safe, StoreOK, RestOK
  <2>2. Removals(i) = {} /\ Additions(i) = {}
    BY DEF Unbooked, Removals, Additions
  <2>3. Cardinality({}) = 0
    BY FS_EmptySet
  <2>4. CASE i \in bulk
    BY <2>1, <2>2, <2>3, <2>4 DEF Balanced, Counted
  <2>5. CASE i \notin bulk
    BY <2>1, <2>2, <2>5 DEF Balanced, Single, Expected
  <2>. QED BY <2>4, <2>5
<1>. QED BY <1>1, Initial, Inductive, KindsFixed, BookedFirst, BookedKept, PTL DEF Spec

=============================================================================
