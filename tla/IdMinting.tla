------------------------------- MODULE IdMinting -------------------------------
(***************************************************************************)
(* How mediator-service mints ids: box ids B-DDMMYY-####, numbered across  *)
(* days, box ids taken from a scanned label, and item ids                  *)
(* I-<Artikelnummer>-####.  Each minting reads the highest number, looks   *)
(* the candidate up, and upserts it, in three statements on the pool, so   *)
(* requests interleave between them.  A number keeps its four digits up to *)
(* MaxSeq (9999) and is longer beyond.                                     *)
(***************************************************************************)
EXTENDS MintedIds, FiniteSets

VARIABLES
  taken,   \* the ids that have a row
  today,   \* the day
  req,     \* the requests
  since,   \* history: boxes (items) that existed when a request for one came, and still do
  faults,  \* failing statements left
  deletes  \* deletions left

vars == <<taken, today, req, since, faults, deletes>>

Idle == [op |-> "none", pc |-> "read", id |-> NoId, tries |-> 0]

\* A request in flight has an attempt left.
Limit == [none |-> 1, scan |-> 1, box |-> BoxAttempts, item |-> ItemAttempts]
Request == [op : {"none", "box", "scan", "item"}, pc : {"read", "check", "write"},
            id : Ids \cup {NoId}, tries : Nat]
WellFormed(r) == r.tries < Limit[r.op] /\ (r.pc # "read" => r.id \in Ids)

-----------------------------------------------------------------------------
(* The highest number *)

\* getMaxBoxId matches four letters or digits after the date part ...
VisibleBoxes == {b \in taken : b.kind \in {"coded", "text"}
                               \/ (b.kind = "auto" /\ b.num <= MaxSeq)}

\* ... and orders them by CAST(... AS INTEGER), which throws on letters.
CastFails == \E b \in VisibleBoxes : b.kind = "text"

Highest(S) == {b \in S : \A c \in S : c.num <= b.num}

\* create-box restarts at 0 when the date part of the highest id has letters.
BoxNumbers == IF VisibleBoxes = {} THEN {0}
              ELSE {IF b.kind = "auto" THEN b.num ELSE 0 : b \in Highest(VisibleBoxes)}

\* getMaxItemId casts the first four digits of the number; five digits do not parse.
Leading(n) == IF n <= MaxSeq THEN n ELSE n \div 10
ItemNumbers ==
  LET S == {i \in taken : i.kind = "item"}
      Top == {i \in S : \A j \in S : Leading(j.num) <= Leading(i.num)}
  IN IF S = {} THEN {0} ELSE {IF i.num <= MaxSeq THEN i.num ELSE 0 : i \in Top}

-----------------------------------------------------------------------------
(* Requests *)

Arrive(h, op, id, pc) ==
  /\ req[h] = Idle
  /\ req' = [req EXCEPT ![h] = [op |-> op, pc |-> pc, id |-> id, tries |-> 0]]
  /\ since' = [since EXCEPT ![h] = {i \in taken : i.kind = "item" <=> op = "item"}]
  /\ UNCHANGED <<taken, today, faults, deletes>>

CreateBox(h) == Arrive(h, "box", NoId, "read")
CreateScanned(h) == \E id \in ScanIds : Arrive(h, "scan", id, "check")
AddItem(h) == Arrive(h, "item", NoId, "read")

Answer(h) == req' = [req EXCEPT ![h] = Idle] /\ since' = [since EXCEPT ![h] = {}]
Continue(h, r) == req' = [req EXCEPT ![h] = r] /\ UNCHANGED since
Unchanged == UNCHANGED <<taken, today, faults, deletes>>

\* A candidate is proposed, looked up, and written or counted as an attempt.
Propose(h, id) == Continue(h, [req[h] EXCEPT !.pc = "check", !.id = id])
Proceed(h) == Continue(h, [req[h] EXCEPT !.pc = "write"])
Attempt(h, max, next) ==
  IF next.tries + 1 = max THEN Answer(h)
  ELSE Continue(h, [next EXCEPT !.tries = @ + 1])
Found(h) == req[h].pc = "check" /\ req[h].id \in taken

\* A failing cast answers 500.
ReadMaxBox(h) ==
  /\ req[h].op = "box" /\ req[h].pc = "read"
  /\ \/ CastFails /\ Answer(h)
     \/ /\ ~CastFails
        /\ \E n \in BoxNumbers : n < Last /\ Propose(h, Id("auto", today, n + 1))
  /\ Unchanged

ReadMaxItem(h) ==
  /\ req[h].op = "item" /\ req[h].pc = "read"
  /\ \E n \in ItemNumbers : n < Last /\ Propose(h, Id("item", 0, n + 1))
  /\ Unchanged

\* generateItemUUID logs a failing read and counts from 0.
ReadMaxItemFails(h) ==
  /\ req[h].op = "item" /\ req[h].pc = "read" /\ faults > 0
  /\ faults' = faults - 1
  /\ Propose(h, Id("item", 0, 1))
  /\ UNCHANGED <<taken, today, deletes>>

\* Wrong variants: the candidate is not looked up; the attempts are not counted right.
TakeBlindly(h) == req[h].pc = "check" /\ Proceed(h) /\ Unchanged
RetryOnceMore(h) ==
  /\ Found(h) /\ req[h].op = "item"
  /\ Attempt(h, ItemAttempts + 1, [req[h] EXCEPT !.pc = "read", !.id = NoId])
  /\ Unchanged

CheckFree(h) ==
  /\ req[h].pc = "check" /\ req[h].id \notin taken
  /\ Proceed(h) /\ Unchanged

\* create-box counts on from the candidate, 25 times.
RetryBox(h) ==
  /\ Found(h) /\ req[h].op = "box" /\ req[h].id.num < Last
  /\ Attempt(h, BoxAttempts, [req[h] EXCEPT !.id.num = @ + 1])
  /\ Unchanged

\* add-item reads the highest number again, 5 times.
RetryItem(h) ==
  /\ Found(h) /\ req[h].op = "item"
  /\ Attempt(h, ItemAttempts, [req[h] EXCEPT !.pc = "read", !.id = NoId])
  /\ Unchanged

\* A scanned id that exists is answered 409.
RefuseScanned(h) == Found(h) /\ req[h].op = "scan" /\ Answer(h) /\ Unchanged

\* INSERT ... ON CONFLICT DO UPDATE: a row that came in between is no error.
Write(h) ==
  /\ req[h].pc = "write"
  /\ taken' = taken \cup {req[h].id}
  /\ Answer(h)
  /\ UNCHANGED <<today, faults, deletes>>

\* The upsert throws.  runUpsertBox logs that and returns false, which create-box
\* does not look at: the box is answered as created.  add-item answers 500.
WriteFails(h) ==
  /\ req[h].pc = "write" /\ faults > 0 /\ faults' = faults - 1
  /\ Answer(h)
  /\ UNCHANGED <<taken, today, deletes>>

\* delete-entity: the id is free again.
Delete ==
  /\ deletes > 0 /\ deletes' = deletes - 1
  /\ \E id \in taken :
       /\ taken' = taken \ {id}
       /\ since' = [h \in Handlers |-> since[h] \ {id}]
  /\ UNCHANGED <<today, req, faults>>

NextDay ==
  /\ today < Days /\ today' = today + 1
  /\ UNCHANGED <<taken, req, since, faults, deletes>>

-----------------------------------------------------------------------------
(* Specification *)

Init ==
  /\ taken = Start /\ today = 1
  /\ req = [h \in Handlers |-> Idle]
  /\ since = [h \in Handlers |-> {}]
  /\ faults = MaxFaults /\ deletes = MaxDeletes

MintStep(h) == ReadMaxBox(h) \/ ReadMaxItem(h) \/ ReadMaxItemFails(h) \/ CheckFree(h)
               \/ RetryBox(h) \/ RetryItem(h) \/ RefuseScanned(h)

Next ==
  \/ \E h \in Handlers : \/ CreateBox(h) \/ CreateScanned(h) \/ AddItem(h)
                         \/ MintStep(h) \/ Write(h) \/ WriteFails(h)
  \/ Delete \/ NextDay

Spec == Init /\ [][Next]_vars

-----------------------------------------------------------------------------
(* Properties *)

\* Every variable has its type: a request that goes on has an attempt left.
TypeOK ==
  /\ taken \subseteq Ids
  /\ today \in 1..Days
  /\ req \in [Handlers -> Request] /\ \A h \in Handlers : WellFormed(req[h])
  /\ since \in [Handlers -> SUBSET Ids]
  /\ faults \in 0..MaxFaults
  /\ deletes \in 0..MaxDeletes

\* Minting never writes over a box or an item that was there when the request came
\* and still is, whatever the highest id looks like: an id with letters that hides
\* the true maximum, a number beyond four digits, a read that failed, a day gone by.
KnownIdsSafe == \A h \in Handlers : req[h].pc = "write" => req[h].id \notin since[h]

=============================================================================
