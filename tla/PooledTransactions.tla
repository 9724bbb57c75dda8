--------------------------- MODULE PooledTransactions ---------------------------
(***************************************************************************)
(* withTransaction and the connection pool of mediator-service.            *)
(*                                                                         *)
(* A transaction's callback is given a client, but almost every helper it  *)
(* calls (the exports of db.ts) checks out a connection of its own from    *)
(* the pool and commits there, and some of them catch their own errors.  A *)
(* request is therefore a script of statements, each sent through the      *)
(* transaction's client or through the pool, and each either needed by the *)
(* request or only tried.                                                  *)
(***************************************************************************)
EXTENDS Naturals, Sequences, FiniteSets

CONSTANTS
  Requests,      \* requests in flight
  Connections,   \* the connections of the pool (max: 10)
  Rows,          \* the rows the requests write
  Work,          \* the kind of each request
  Target,        \* the row each request writes
  Part,          \* the row of a part that a removal deletes
  Nobody, NoRow, NoConnection

Kinds == {"pooled", "created", "mixed", "removal", "reset", "client"}

ASSUME WorkAssumption == Work \in [Requests -> Kinds]
ASSUME TargetAssumption ==
  Target \in [Requests -> Rows] /\ Part \in [Requests -> Rows]
ASSUME NamesAssumption ==
  NoRow \notin Rows /\ Nobody \notin Requests /\ NoConnection \notin Connections

\* An error that is caught is swallowed by the helper or by the handler around its call.
ByClient(row) == [via |-> "client", row |-> row, error |-> "thrown"]
ByPool(row)   == [via |-> "pool", row |-> row, error |-> "thrown"]
Tried(row)    == [via |-> "pool", row |-> row, error |-> "caught"]

\* What waits for no row: reading again what was written, and, sent last, logEvent and
\* the job for the shop.
Read == ByPool(NoRow)
Log  == Tried(NoRow)

\* What a callback sends: helpers of db.ts only, a new box, a box or an item moved,
\* a device removed with its parts, a run reset, a part graduated or catalogued.  Other
\* reads fail like the statement after them.
Script(r) ==
  CASE Work[r] = "pooled"  -> <<ByPool(Target[r]), Read, Log>>
    [] Work[r] = "created" -> <<Tried(Target[r]), Log>>
    [] Work[r] = "mixed"   -> <<ByClient(Target[r]), Log>>
    [] Work[r] = "removal" -> <<ByPool(Target[r]), ByClient(Part[r]), Log>>
    [] Work[r] = "reset"   -> <<ByClient(Target[r]), ByPool(Target[r]), Log>>
    [] Work[r] = "client"  -> <<ByClient(Target[r]), ByClient(NoRow)>>

VARIABLES
  phase,     \* what each request is doing
  step,      \* statements of its script behind it
  client,    \* the transaction's connection
  side,      \* the connection of the pooled statement under way
  idle,      \* connections in the pool
  lock,      \* the open transaction that wrote each row
  buffered,  \* statements executed in the open transaction
  saved      \* statements of the request that are in the database for good

vars == <<phase, step, client, side, idle, lock, buffered, saved>>

Phases == {"none", "connecting", "running", "executing", "aborting", "ok", "error"}
Answered == {"none", "ok", "error"}

Statement(r) == Script(r)[step[r] + 1]
Finished(r) == step[r] = Len(Script(r))
Goto(r, p) == phase' = [phase EXCEPT ![r] = p]

-----------------------------------------------------------------------------
(* withTransaction *)

\* A request comes in and asks the pool for its client.
Arrive(r) ==
  /\ phase[r] \in Answered
  /\ Goto(r, "connecting")
  /\ step' = [step EXCEPT ![r] = 0]
  /\ saved' = [saved EXCEPT ![r] = {}]
  /\ UNCHANGED <<client, side, idle, lock, buffered>>

\* getPool().connect() and BEGIN, which may fail.
Begin(r) ==
  /\ phase[r] = "connecting"
  /\ \E c \in idle :
       /\ client' = [client EXCEPT ![r] = c]
       /\ idle' = idle \ {c}
  /\ \E p \in {"running", "aborting"} : Goto(r, p)
  /\ UNCHANGED <<step, side, lock, buffered, saved>>

\* connectionTimeoutMillis pass: connect() throws before the try.
ConnectTimeout(r) ==
  /\ phase[r] = "connecting" /\ idle = {}
  /\ Goto(r, "error")
  /\ UNCHANGED <<step, client, side, idle, lock, buffered, saved>>

FreeFor(r, row) == \A w \in Rows : w = row => lock[w] \in {Nobody, r}

\* client.query(...): waits for the row, then keeps it until the transaction ends.
ClientStatement(r) ==
  /\ phase[r] = "running" /\ ~Finished(r) /\ Statement(r).via = "client"
  /\ FreeFor(r, Statement(r).row)
  /\ lock' = [w \in Rows |-> IF w = Statement(r).row THEN r ELSE lock[w]]
  /\ step' = [step EXCEPT ![r] = @ + 1]
  /\ buffered' = [buffered EXCEPT ![r] = @ \cup {step[r] + 1}]
  /\ UNCHANGED <<phase, client, side, idle, saved>>

\* A helper of db.ts: getPool().query(...) takes a second connection ...
Checkout(r) ==
  /\ phase[r] = "running" /\ ~Finished(r) /\ Statement(r).via = "pool"
  /\ \E c \in idle :
       /\ side' = [side EXCEPT ![r] = c]
       /\ idle' = idle \ {c}
  /\ Goto(r, "executing")
  /\ UNCHANGED <<step, client, lock, buffered, saved>>

\* Wrong variant: an error of any statement is caught.
CatchAll(r) == Goto(r, "running") /\ step' = [step EXCEPT ![r] = @ + 1]

\* The catch around the statement, or else the catch of withTransaction.
Throws(r) ==
  \/ /\ Statement(r).error = "caught"
     /\ Goto(r, "running") /\ step' = [step EXCEPT ![r] = @ + 1]
  \/ /\ Statement(r).error = "thrown"
     /\ Goto(r, "aborting") /\ UNCHANGED step

\* Wrong variant: connections are awaited for ever.
NeverTimesOut(r) == FALSE /\ UNCHANGED vars

\* ... or gives up after connectionTimeoutMillis.
CheckoutTimeout(r) ==
  /\ phase[r] = "running" /\ ~Finished(r) /\ Statement(r).via = "pool"
  /\ idle = {}
  /\ Throws(r)
  /\ UNCHANGED <<client, side, idle, lock, buffered, saved>>

\* A row an open transaction has written blocks every other connection, the
\* request's own pooled one too.
Unblocked(row) == \A w \in Rows : w = row => lock[w] = Nobody

ReturnSide(r) ==
  /\ idle' = idle \cup {side[r]}
  /\ side' = [side EXCEPT ![r] = NoConnection]

\* ... and commits there, whatever becomes of the transaction.
Execute(r) ==
  /\ phase[r] = "executing" /\ Unblocked(Statement(r).row)
  /\ ReturnSide(r)
  /\ Goto(r, "running")
  /\ step' = [step EXCEPT ![r] = @ + 1]
  /\ saved' = [saved EXCEPT ![r] = @ \cup {step[r] + 1}]
  /\ UNCHANGED <<client, lock, buffered>>

\* A statement throws: a constraint, a vanished row, a check in the callback, or a
\* lost answer, when a pooled statement may have been stored.
StatementFails(r) ==
  /\ \/ /\ phase[r] = "running" /\ ~Finished(r) /\ Statement(r).via = "client"
        /\ FreeFor(r, Statement(r).row)
        /\ UNCHANGED <<side, idle, saved>>
     \/ /\ phase[r] = "executing" /\ Unblocked(Statement(r).row)
        /\ ReturnSide(r)
        /\ saved' \in {saved, [saved EXCEPT ![r] = @ \cup {step[r] + 1}]}
  /\ Throws(r)
  /\ UNCHANGED <<client, lock, buffered>>

\* finally: client.release().
ReleaseClient(r) ==
  /\ idle' = idle \cup {client[r]}
  /\ client' = [client EXCEPT ![r] = NoConnection]

FreeLocks(r) == lock' = [w \in Rows |-> IF lock[w] = r THEN Nobody ELSE lock[w]]

Commit(r) ==
  /\ phase[r] = "running" /\ Finished(r)
  /\ ReleaseClient(r) /\ FreeLocks(r)
  /\ Goto(r, "ok")
  /\ saved' = [saved EXCEPT ![r] = @ \cup buffered[r]]
  /\ buffered' = [buffered EXCEPT ![r] = {}]
  /\ UNCHANGED <<step, side>>

\* COMMIT throws: it was not executed, or it was and its answer is lost.
CommitFails(r) ==
  /\ phase[r] = "running" /\ Finished(r)
  /\ Goto(r, "aborting")
  /\ \/ UNCHANGED <<lock, buffered, saved>>
     \/ /\ FreeLocks(r)
        /\ saved' = [saved EXCEPT ![r] = @ \cup buffered[r]]
        /\ buffered' = [buffered EXCEPT ![r] = {}]
  /\ UNCHANGED <<step, client, side, idle>>

\* Wrong variants: the client is released without ending its transaction; a failed
\* transaction is not released at all.
ReleaseWithoutRollback(r) ==
  /\ phase[r] = "aborting"
  /\ ReleaseClient(r)
  /\ Goto(r, "error")
  /\ buffered' = [buffered EXCEPT ![r] = {}]
  /\ UNCHANGED <<step, side, saved, lock>>

RollbackWithoutRelease(r) ==
  /\ phase[r] = "aborting"
  /\ client' = [client EXCEPT ![r] = NoConnection]
  /\ FreeLocks(r)
  /\ Goto(r, "error")
  /\ buffered' = [buffered EXCEPT ![r] = {}]
  /\ UNCHANGED <<step, side, saved, idle>>

Rollback(r) ==
  /\ phase[r] = "aborting"
  /\ ReleaseClient(r) /\ FreeLocks(r)
  /\ Goto(r, "error")
  /\ buffered' = [buffered EXCEPT ![r] = {}]
  /\ UNCHANGED <<step, side, saved>>

-----------------------------------------------------------------------------
(* Specification *)

Init ==
  /\ phase = [r \in Requests |-> "none"]
  /\ step = [r \in Requests |-> 0]
  /\ client = [r \in Requests |-> NoConnection]
  /\ side = [r \in Requests |-> NoConnection]
  /\ idle = Connections
  /\ lock = [w \in Rows |-> Nobody]
  /\ buffered = [r \in Requests |-> {}]
  /\ saved = [r \in Requests |-> {}]

GetConnection(r) == Begin(r) \/ ConnectTimeout(r) \/ Checkout(r) \/ CheckoutTimeout(r)
RunStatement(r) == ClientStatement(r) \/ Execute(r)
Finish(r) == Commit(r) \/ Rollback(r)

Next == \E r \in Requests :
          \/ Arrive(r) \/ GetConnection(r) \/ RunStatement(r) \/ Finish(r)
          \/ StatementFails(r) \/ CommitFails(r)

Spec == Init /\ [][Next]_vars

\* A connection is granted or its wait times out; Postgres serves the waiters of a
\* row in turn; COMMIT and ROLLBACK return.
Fairness ==
  \A r \in Requests : /\ WF_vars(GetConnection(r))
                      /\ SF_vars(RunStatement(r))
                      /\ WF_vars(Finish(r))

FairSpec == Spec /\ Fairness

-----------------------------------------------------------------------------
(* Invariants *)

\* Every variable has its type.
TypeOK ==
  /\ phase \in [Requests -> Phases]
  /\ step \in [Requests -> 0..3]
  /\ client \in [Requests -> Connections \cup {NoConnection}]
  /\ side \in [Requests -> Connections \cup {NoConnection}]
  /\ idle \subseteq Connections
  /\ lock \in [Rows -> Requests \cup {Nobody}]
  /\ buffered \in [Requests -> SUBSET (1..3)]
  /\ saved \in [Requests -> SUBSET (1..3)]

Holds(r, c) == client[r] = c \/ side[r] = c

\* A connection is never lent twice and never lost: it is in the pool, or exactly
\* one request holds it, as its client or for one pooled statement.
PoolPartitioned ==
  \A c \in Connections :
    /\ c \in idle <=> \A r \in Requests : ~Holds(r, c)
    /\ \A r, q \in Requests : Holds(r, c) /\ Holds(q, c) => r = q
    /\ \A r \in Requests : ~(client[r] = c /\ side[r] = c)

\* No row stays locked by a transaction whose connection went back to the pool, so
\* one failed transaction cannot block a row for the next.
LocksEnd == \A w \in Rows, r \in Requests : lock[w] = r => client[r] # NoConnection

\* The statements a request needs, and those that ROLLBACK undoes.
Needed(r)   == {k \in 1..Len(Script(r)) : Script(r)[k].error = "thrown"}
Undoable(r) == {k \in 1..Len(Script(r)) : Script(r)[k].via = "client"}

\* What the client of a request was told, against what the database holds for good.
\* Told ok, every statement the request needs is stored (the log, the job for the shop
\* and a new box may be missing).  Told error, either nothing of the transaction is
\* stored, only what helpers wrote through the pool, or COMMIT was sent and everything
\* needed is.  The last statement, mostly a log no ROLLBACK takes back, is stored only
\* when nothing but COMMIT can fail, and after every needed helper's change.
OutcomeFaithful ==
  \A r \in Requests :
    /\ phase[r] = "ok" => Needed(r) \subseteq saved[r]
    /\ phase[r] = "error" => \/ Undoable(r) \cap saved[r] = {}
                             \/ Finished(r) /\ Needed(r) \subseteq saved[r]
    /\ Len(Script(r)) \in saved[r] =>
         Finished(r) /\ Needed(r) \ Undoable(r) \subseteq saved[r]

-----------------------------------------------------------------------------
(* Liveness *)

\* Every request is answered, although transactions hold one connection while they
\* wait for a second and may take all of them.
AllAnswered ==
  \A r \in Requests : phase[r] = "connecting" ~> phase[r] \in {"ok", "error"}

-----------------------------------------------------------------------------
(* Promises of the documentation the code does not keep *)

\* Resetting a run brings it to notStarted or fails: the request ends.
ResetEnds ==
  \A r \in Requests :
    Work[r] = "reset" /\ phase[r] = "connecting" ~> phase[r] \in {"ok", "error"}

=============================================================================
