------------------------------ MODULE AgenticRuns ------------------------------
(***************************************************************************)
(* The agentic run orchestration of mediator-service: the agentic_runs     *)
(* table, the dispatcher tick that moves rows from queued to running, the  *)
(* background invocations it starts, the startup resume, and the operator  *)
(* requests that write the same rows.                                      *)
(*                                                                         *)
(* Every SQL statement is one step.  What a caller read before an await is *)
(* local state of that caller (task, req, held) and may be stale when it   *)
(* is written back.  Updates the code starts without awaiting them sit in  *)
(* late until the connection pool gets to them, in any order.              *)
(***************************************************************************)
EXTENDS Integers, FiniteSets

CONSTANTS
  Items,            \* Artikel_Nummer values, the key of agentic_runs
  Tasks,            \* bound: background invocations alive at once
  Handlers,         \* bound: operator requests in flight at once
  MaxRunning,       \* MAX_CONCURRENT_RUNNING_RUNS
  MaxWaiting,       \* MAX_WAITING_RUNS
  Limit,            \* agenticQueueDispatchLimit
  Requests,         \* the operator requests this instance issues
  Outcomes,         \* the statuses a result may be stored with
  AutoDispatch,     \* the agentic_auto_dispatch_enabled setting
  AutoRework,       \* AUTO_REWORK: idle ticks rework runs of an older spec contract
  InitialStatuses,  \* statuses the rows may have when the server first starts
  MaxLate,          \* bound: un-awaited updates in flight at once
  MaxFaults,        \* bound: failing database statements or notifications
  MaxCrashes,       \* bound: process crashes
  NoItem

-----------------------------------------------------------------------------
(* Types *)

RowStatuses == {"notStarted", "queued", "running", "review", "approved",
                "auto_approved", "rejected", "failed", "cancelled"}
Statuses == RowStatuses \cup {"absent"}

\* LastAttemptAt: NULL, within STALE_RUN_TIMEOUT_MINUTES, or older than that.
Attempts == {"none", "fresh", "old"}

Operations == {"seed", "start", "restart", "queueAll", "queueMissing",
               "restartFailed", "cancel", "review", "close", "triggerFailed",
               "unlink"}

LateUpdates == [item : Items, to : {"cancelled", "failed", "keep"}, att : Attempts]

HeldRows == [item : Items, att : Attempts, query : BOOLEAN]

TaskStates == [pc : {"idle"}, item : {NoItem}] \cup
              [pc : {"scheduled", "promoting", "invoking", "recorded", "failing"},
               item : Items]

NoRequest == [op |-> "none", item |-> NoItem, seen |-> "absent", att |-> "none"]
RequestStates == {NoRequest} \cup
                 [op : Operations \cup {"clear"}, item : Items,
                  seen : Statuses, att : Attempts]

IdleTask == [pc |-> "idle", item |-> NoItem]

ASSUME ItemsAssumption == IsFiniteSet(Items) /\ NoItem \notin Items
ASSUME CapAssumption == MaxRunning \in Nat /\ MaxWaiting \in Nat /\ Limit \in Nat
ASSUME RequestsAssumption == Requests \subseteq Operations
ASSUME OutcomesAssumption == Outcomes \subseteq RowStatuses \ {"running"}
ASSUME InitialAssumption == InitialStatuses \subseteq Statuses \ {"running"}
ASSUME BoundsAssumption == MaxLate \in Nat /\ MaxFaults \in Nat /\ MaxCrashes \in Nat
ASSUME AutoDispatchAssumption == AutoDispatch \in BOOLEAN /\ AutoRework \in BOOLEAN

VARIABLES
  status,    \* agentic_runs."Status", or "absent" when there is no row
  attempt,   \* agentic_runs."LastAttemptAt"
  query,     \* whether agentic_runs."SearchQuery" is a non-empty string
  late,      \* queue updates started without await and not yet executed
  task,      \* runInBackground closures
  req,       \* operator requests between their read and their write
  disp,      \* where the dispatcher tick is
  held,      \* rows the tick has read (or claimed) and still has to process
  resuming,  \* rows the startup resume has listed and still has to schedule
  booted,    \* whether the startup resume has listed its rows
  faults,    \* failing statements or notifications left
  crashes,   \* crashes left
  revived    \* history: rows made running by a write other than the claim

rows == <<status, attempt, query, revived>>
vars == <<status, attempt, query, late, task, req, disp, held, resuming, booted,
          faults, crashes, revived>>

RowsWith(s) == {i \in Items : status[i] = s}
Running == RowsWith("running")
Queued == RowsWith("queued")

-----------------------------------------------------------------------------
(* Statements on agentic_runs *)

\* The effect of any statement that leaves row i with status s, attempt a.
SetRow(i, s, a) ==
  /\ status' = [status EXCEPT ![i] = s]
  /\ attempt' = [attempt EXCEPT ![i] = a]
  /\ revived' = IF s = "running" THEN revived \cup ({i} \ Running) ELSE revived \ {i}

\* INSERT ... ON CONFLICT DO UPDATE: unconditional; queueing clears LastAttemptAt.
upsertAgenticRun(i, s, q) ==
  /\ SetRow(i, s, IF s = "queued" THEN "none" ELSE attempt[i])
  /\ query' = [query EXCEPT ![i] = @ \/ q]

\* UPDATE by Artikel_Nummer.  Status is NOT NULL: an update without one ("null")
\* fails, and a missing row is zero rows.
updateAgenticRunStatus(i, s, a) ==
  IF status[i] = "absent" \/ s = "null"
  THEN UNCHANGED <<status, attempt, revived>>
  ELSE SetRow(i, s, a)

updateAgenticReview(i, s) == SetRow(i, s, attempt[i])

\* UPDATE by Artikel_Nummer with COALESCE on Status ("keep" is a NULL parameter).
updateQueuedAgenticRunQueueState(u) ==
  IF status[u.item] = "absent"
  THEN UNCHANGED <<status, attempt, revived>>
  ELSE SetRow(u.item, IF u.to = "keep" THEN status[u.item] ELSE u.to, u.att)

\* The counts come back from the driver as strings, so Number.isFinite rejects
\* them and both helpers answer 0.
fetchRunningCount == 0
fetchStatusCount(s) == 0

Minimum(a, b) == IF a < b THEN a ELSE b
AtLeastZero(a) == IF a < 0 THEN 0 ELSE a

\* Wrong variants of the claim's limit: without the in-statement clamp, and one
\* slot short.
UnclampedSlots(limit) == limit
ShortSlots(limit) == Minimum(limit, AtLeastZero(MaxRunning - 1 - Cardinality(Running)))

\* The claim's LIMIT: computed in the statement that promotes.
FreeSlots(limit) == Minimum(limit, AtLeastZero(MaxRunning - Cardinality(Running)))

LateAttempt(a) == IF a = "none" THEN "fresh" ELSE a   \* x.LastAttemptAt ?? nowIso

-----------------------------------------------------------------------------
(* The dispatcher tick: dispatchQueuedAgenticRuns, one at a time *)

HeldRow(i) == [item |-> i, att |-> attempt[i], query |-> query[i]]

\* Running rows whose LastAttemptAt is NULL or older than the timeout.
StaleRows == {i \in Running : attempt[i] # "fresh"}

\* The interval fires, and the tick selects the stale running rows.
Tick ==
  /\ disp = "idle"
  /\ disp' = "recover"
  /\ held' = {HeldRow(i) : i \in StaleRows}
  /\ UNCHANGED <<rows, late, task, req, resuming, booted, faults, crashes>>

\* One update of the stale recovery; the row is not re-read.
RecoverStale ==
  /\ disp = "recover"
  /\ \E r \in held :
       /\ updateQueuedAgenticRunQueueState(
            [item |-> r.item, to |-> "failed", att |-> LateAttempt(r.att)])
       /\ held' = held \ {r}
  /\ UNCHANGED <<query, late, task, req, disp, resuming, booted, faults, crashes>>

AttemptRank(i) == CASE attempt[i] = "old" -> 0
                    [] attempt[i] = "fresh" -> 1
                    [] OTHER -> 2                     \* NULLs sort last

\* ORDER BY LastAttemptAt ASC OFFSET MaxRunning.
IsOverCap(E) ==
  /\ Cardinality(E) = AtLeastZero(Cardinality(Running) - MaxRunning)
  /\ \A i \in E, k \in Running \ E : AttemptRank(k) <= AttemptRank(i)

SelectOverCap ==
  /\ disp = "recover" /\ held = {}
  /\ disp' = "requeue"
  /\ \E E \in SUBSET Running : IsOverCap(E) /\ held' = {HeldRow(i) : i \in E}
  /\ UNCHANGED <<rows, late, task, req, resuming, booted, faults, crashes>>

\* One update of the over-cap requeue; the row is not re-read.
RequeueOverCap ==
  /\ disp = "requeue"
  /\ \E r \in held :
       /\ updateQueuedAgenticRunQueueState(
            [item |-> r.item, to |-> "queued", att |-> LateAttempt(r.att)])
       /\ held' = held \ {r}
  /\ UNCHANGED <<query, late, task, req, disp, resuming, booted, faults, crashes>>

\* claimQueuedAgenticRuns.  The order (LastModified) is left open.
Claim(n) ==
  \E S \in SUBSET Queued :
    /\ Cardinality(S) <= FreeSlots(n)
    /\ S = Queued \/ Cardinality(S) = FreeSlots(n)
    /\ status' = [i \in Items |-> IF i \in S THEN "running" ELSE status[i]]
    /\ attempt' = [i \in Items |-> IF i \in S THEN "fresh" ELSE attempt[i]]
    /\ held' = {[item |-> i, att |-> "fresh", query |-> query[i]] : i \in S}

ClaimQueued ==
  /\ disp = "requeue" /\ held = {}
  /\ disp' = "schedule"
  /\ LET availableSlots == AtLeastZero(MaxRunning - fetchRunningCount)
     IN  IF availableSlots > 0
         THEN Claim(Minimum(Limit, availableSlots))
         ELSE UNCHANGED <<status, attempt, held>>
  /\ UNCHANGED <<query, late, task, req, resuming, booted, faults, crashes, revived>>

Spawn(i) == \E t \in Tasks :
  /\ task[t] = IdleTask
  /\ task' = [task EXCEPT ![t] = [pc |-> "scheduled", item |-> i]]

\* The tick schedules what it claimed; it remembers whether it scheduled any.
Scheduling == {"schedule", "scheduled"}

\* A claimed row without SearchQuery is failed by an update nobody awaits.
ScheduleClaimed ==
  /\ disp \in Scheduling
  /\ \E r \in held :
       /\ held' = held \ {r}
       /\ disp' = IF r.query THEN "scheduled" ELSE disp
       /\ IF r.query
          THEN Spawn(r.item) /\ UNCHANGED late
          ELSE /\ Cardinality(late) < MaxLate
               /\ late' = late \cup {[item |-> r.item, to |-> "failed",
                                      att |-> LateAttempt(r.att)]}
               /\ UNCHANGED task
  /\ UNCHANGED <<rows, req, resuming, booted, faults, crashes>>

\* Wrong variant: the feeder as it was, picking up failed and cancelled runs too.
ClaimIdle(n) ==
  LET C == {i \in Items : status[i] \in {"notStarted", "failed", "cancelled"} /\ query[i]} IN
  \E S \in SUBSET C :
    /\ Cardinality(S) = Minimum(n, Cardinality(C))
    /\ status' = [i \in Items |-> IF i \in S THEN "queued" ELSE status[i]]

\* claimNotStartedAgenticRuns.
ClaimNotStarted(n) ==
  LET C == {i \in RowsWith("notStarted") : query[i]} IN
  \E S \in SUBSET C :
    /\ Cardinality(S) = Minimum(n, Cardinality(C))
    /\ status' = [i \in Items |-> IF i \in S THEN "queued" ELSE status[i]]

\* The sweep follows only a tick that had nothing to do.
SweepIsDue == AutoRework /\ AutoDispatch /\ disp = "schedule"

\* The auto-feeder tops up the waiting queue.
FeedWaiting ==
  /\ disp \in Scheduling /\ held = {}
  /\ IF AutoDispatch /\ fetchStatusCount("queued") < MaxWaiting
     THEN ClaimNotStarted(MaxWaiting - fetchStatusCount("queued"))
     ELSE UNCHANGED status
  /\ disp' = IF SweepIsDue /\ status' = status THEN "audit" ELSE "idle"
  /\ UNCHANGED <<attempt, query, revived, late, task, req, held, resuming, booted,
                 faults, crashes>>

\* listContractAuditCandidates; which contracts are outdated is left open.
ListAuditCandidates ==
  /\ disp = "audit" /\ held = {}
  /\ disp' = "sweep"
  /\ \E C \in SUBSET (RowsWith("approved") \cup RowsWith("auto_approved")) :
       held' = {HeldRow(i) : i \in C}
  /\ UNCHANGED <<rows, late, task, req, resuming, booted, faults, crashes>>

\* sweepContractRework: the first candidate that now lacks a field is queued, whatever
\* its status is by now; nothing later is looked at in this tick.
ReworkCandidate ==
  /\ disp = "sweep"
  /\ \E r \in held :
       /\ updateAgenticRunStatus(r.item, "queued", "none")
       /\ query' = [query EXCEPT ![r.item] = @ \/ status[r.item] # "absent"]
  /\ held' = {} /\ disp' = "idle"
  /\ UNCHANGED <<late, task, req, resuming, booted, faults, crashes>>

\* Every candidate is still complete: the rows keep their status.
StampCandidates ==
  /\ disp = "sweep"
  /\ held' = {} /\ disp' = "idle"
  /\ UNCHANGED <<rows, late, task, req, resuming, booted, faults, crashes>>

\* A statement of the tick fails: a row's update is dropped (allSettled), a failed
\* select or claim yields nothing, a failed count ends the tick.
DispatchFault ==
  /\ faults > 0 /\ faults' = faults - 1
  /\ \/ /\ disp \in {"recover", "requeue"}
        /\ \E r \in held : held' = held \ {r}
        /\ UNCHANGED disp
     \/ /\ held = {} /\ UNCHANGED held
        /\ \/ disp = "idle" /\ disp' = "recover"
           \/ disp = "recover" /\ disp' = "requeue"
           \/ disp = "requeue" /\ disp' \in {"schedule", "idle"}
           \/ disp \in Scheduling /\ disp' = IF SweepIsDue THEN "audit" ELSE "idle"
           \/ disp = "audit" /\ disp' = "idle"
     \/ disp = "sweep" /\ held' = {} /\ disp' = "idle"
  /\ UNCHANGED <<rows, late, task, req, resuming, booted, crashes>>

-----------------------------------------------------------------------------
(* The background invocation: scheduleAgenticModelInvocation *)

Advance(t, pc) == task' = [task EXCEPT ![t] = [pc |-> pc, item |-> task[t].item]]

Finish(t) == task' = [task EXCEPT ![t] = IdleTask]

\* The promotion guard re-reads the row: anything but running abandons the task.
PromotionRead(t) ==
  /\ task[t].pc = "scheduled"
  /\ IF status[task[t].item] = "running" THEN Advance(t, "promoting") ELSE Finish(t)
  /\ UNCHANGED <<rows, late, req, disp, held, resuming, booted, faults, crashes>>

\* The promotion update does not repeat the guard in its WHERE.
PromotionWrite(t) ==
  /\ task[t].pc = "promoting"
  /\ updateAgenticRunStatus(task[t].item, "running", "fresh")
  /\ IF status[task[t].item] = "absent" THEN Finish(t) ELSE Advance(t, "invoking")
  /\ UNCHANGED <<query, late, req, disp, held, resuming, booted, faults, crashes>>

\* handleAgenticResult stores the outcome with an unconditional upsert.
RecordResult(t) ==
  /\ task[t].pc = "invoking"
  /\ \E o \in Outcomes : upsertAgenticRun(task[t].item, o, TRUE)
  /\ Advance(t, "recorded")
  /\ UNCHANGED <<late, req, disp, held, resuming, booted, faults, crashes>>

\* markNotificationSuccess succeeds and the invocation is over.
NotificationSucceeds(t) ==
  /\ task[t].pc = "recorded"
  /\ Finish(t)
  /\ UNCHANGED <<rows, late, req, disp, held, resuming, booted, faults, crashes>>

\* persistAgenticRunError is called without await: LastAttemptAt only.
PersistLastError(i) ==
  /\ Cardinality(late) < MaxLate
  /\ late' = late \cup {[item |-> i, to |-> "keep", att |-> "fresh"]}

\* The model call fails, or storing the result does, before anything is stored.
\* An error outside the item flow (no usable target) leaves no LastError update.
InvocationFails(t) ==
  /\ task[t].pc = "invoking"
  /\ Advance(t, "failing")
  /\ PersistLastError(task[t].item) \/ UNCHANGED late
  /\ UNCHANGED <<rows, req, disp, held, resuming, booted, faults, crashes>>

\* The result is stored but marking the request log as notified throws.
NotificationFails(t) ==
  /\ task[t].pc = "recorded"
  /\ faults > 0 /\ faults' = faults - 1
  /\ Advance(t, "failing")
  /\ PersistLastError(task[t].item)
  /\ UNCHANGED <<rows, req, disp, held, resuming, booted, crashes>>

\* The failed run is written FAILED whatever its status is by now.
AutoCancelAfterFailure(t) ==
  /\ task[t].pc = "failing"
  /\ updateAgenticRunStatus(task[t].item, "failed", LateAttempt(attempt[task[t].item]))
  /\ Finish(t)
  /\ UNCHANGED <<query, late, req, disp, held, resuming, booted, faults, crashes>>

\* The promotion transaction or the auto-cancel update throws: logged, row untouched.
TaskFault(t) ==
  /\ task[t].pc \in {"scheduled", "promoting", "failing"}
  /\ faults > 0 /\ faults' = faults - 1
  /\ Finish(t)
  /\ UNCHANGED <<rows, late, req, disp, held, resuming, booted, crashes>>

\* An un-awaited update reaches the database.
LandLateUpdate ==
  /\ \E u \in late :
       /\ updateQueuedAgenticRunQueueState(u)
       /\ late' = late \ {u}
  /\ UNCHANGED <<query, task, req, disp, held, resuming, booted, faults, crashes>>

-----------------------------------------------------------------------------
(* Operator requests: each reads the row, awaits, then writes *)

\* The early returns of the handlers, on the row as they read it.
Admits(op, i) ==
  CASE op \in {"seed", "start", "queueMissing"} -> status[i] = "absent"
    [] op \in {"cancel", "review", "triggerFailed", "unlink"} -> status[i] # "absent"
    [] op = "restartFailed" -> status[i] = "failed"
    [] op \in {"restart", "queueAll", "close"} -> TRUE

\* cancelAgenticRun also starts a queue update it does not await.
ReadRow(h) ==
  /\ req[h].op = "none"
  /\ \E op \in Requests, i \in Items :
       /\ Admits(op, i)
       /\ req' = [req EXCEPT ![h] =
                    [op |-> op, item |-> i,
                     seen |-> IF op = "unlink" THEN status[i] ELSE "absent",
                     att |-> IF op \in {"cancel", "triggerFailed"}
                             THEN attempt[i] ELSE "none"]]
       /\ IF op = "cancel"
          THEN /\ Cardinality(late) < MaxLate
               /\ late' = late \cup {[item |-> i, to |-> "cancelled",
                                      att |-> LateAttempt(attempt[i])]}
          ELSE UNCHANGED late
  /\ UNCHANGED <<rows, task, disp, held, resuming, booted, faults, crashes>>

Answer(h) == req' = [req EXCEPT ![h] = NoRequest]

\* The frame of a request's write.
RequestFrame == UNCHANGED <<late, task, disp, held, resuming, booted, faults, crashes>>

\* Import seeds a run for a new article with the status the client sent: the
\* creation form sends running, others queued or notStarted.
SeedRun(h) ==
  /\ req[h].op = "seed"
  /\ \E s \in {"notStarted", "queued", "running"}, q \in BOOLEAN :
       upsertAgenticRun(req[h].item, s, q)
  /\ Answer(h) /\ RequestFrame

startAgenticRun(h) ==
  /\ req[h].op = "start"
  /\ upsertAgenticRun(req[h].item, "queued", TRUE)
  /\ Answer(h) /\ RequestFrame

restartAgenticRun(h) ==
  /\ req[h].op = "restart"
  /\ upsertAgenticRun(req[h].item, "queued", TRUE)
  /\ Answer(h) /\ RequestFrame

\* Both bulk actions queue the row as it is, with the SearchQuery it has.
BulkQueue(h) ==
  /\ req[h].op \in {"queueAll", "queueMissing"}
  /\ upsertAgenticRun(req[h].item, "queued", FALSE)
  /\ Answer(h) /\ RequestFrame

BulkRestartFailed(h) ==
  /\ req[h].op = "restartFailed"
  /\ upsertAgenticRun(req[h].item, "queued", FALSE)
  /\ Answer(h) /\ RequestFrame

cancelAgenticRun(h) ==
  /\ req[h].op = "cancel"
  /\ updateAgenticRunStatus(req[h].item, "cancelled", LateAttempt(req[h].att))
  /\ Answer(h) /\ UNCHANGED query /\ RequestFrame

\* Review and close decide approved or rejected; a rejection goes on to clear.
Review(h) ==
  /\ req[h].op \in {"review", "close"}
  /\ \E decision \in {"approved", "rejected"} :
       /\ updateAgenticReview(req[h].item, decision)
       /\ IF decision = "rejected"
          THEN req' = [req EXCEPT ![h].op = "clear"]
          ELSE Answer(h)
  /\ UNCHANGED query /\ RequestFrame

\* The clearing update names no Status.
ClearAfterRejection(h) ==
  /\ req[h].op = "clear"
  /\ updateAgenticRunStatus(req[h].item, "null", "none")
  /\ Answer(h) /\ UNCHANGED query /\ RequestFrame

TriggerFailed(h) ==
  /\ req[h].op = "triggerFailed"
  /\ updateAgenticRunStatus(req[h].item, "failed", req[h].att)
  /\ Answer(h) /\ UNCHANGED query /\ RequestFrame

\* The status read earlier is echoed back.
removeAgenticSearchLink(h) ==
  /\ req[h].op = "unlink"
  /\ updateAgenticRunStatus(req[h].item, req[h].seen, attempt[req[h].item])
  /\ Answer(h) /\ UNCHANGED query /\ RequestFrame

\* The write throws; the request answers with an error.
RequestFault(h) ==
  /\ req[h].op # "none"
  /\ faults > 0 /\ faults' = faults - 1
  /\ Answer(h)
  /\ UNCHANGED <<rows, late, task, disp, held, resuming, booted, crashes>>

-----------------------------------------------------------------------------
(* Startup resume, crashes, time *)

\* Wrong variant: the resume lists the waiting rows only.
ListQueuedOnly ==
  /\ ~booted /\ booted' = TRUE
  /\ LET slots == AtLeastZero(MaxRunning - fetchRunningCount)
         Q == {i \in Queued : query[i]}
     IN \E S \in SUBSET Q :
          /\ Cardinality(S) = Minimum(slots, Cardinality(Q))
          /\ resuming' = S
  /\ UNCHANGED <<rows, late, task, req, disp, held, faults, crashes>>

\* resumeStaleAgenticRuns lists running rows, and queued ones up to the slots.
ListStale ==
  /\ ~booted /\ booted' = TRUE
  /\ LET slots == AtLeastZero(MaxRunning - fetchRunningCount)
         Q == {i \in Queued : query[i]}
     IN \E S \in SUBSET Q :
          /\ Cardinality(S) = Minimum(slots, Cardinality(Q))
          /\ resuming' = S \cup {i \in Running : query[i]}
  /\ UNCHANGED <<rows, late, task, req, disp, held, faults, crashes>>

ResumeOne ==
  /\ \E i \in resuming : Spawn(i) /\ resuming' = resuming \ {i}
  /\ UNCHANGED <<rows, late, req, disp, held, booted, faults, crashes>>

\* Only the rows survive; the next process starts with its resume.
Crash ==
  /\ crashes > 0 /\ crashes' = crashes - 1
  /\ late' = {} /\ held' = {} /\ resuming' = {}
  /\ task' = [t \in Tasks |-> IdleTask]
  /\ req' = [h \in Handlers |-> NoRequest]
  /\ disp' = "idle" /\ booted' = FALSE
  /\ UNCHANGED <<rows, faults>>

\* STALE_RUN_TIMEOUT_MINUTES pass since the attempt of a running row.
Age(i) ==
  /\ status[i] = "running" /\ attempt[i] = "fresh"
  /\ attempt' = [attempt EXCEPT ![i] = "old"]
  /\ UNCHANGED <<status, query, revived, late, task, req, disp, held, resuming,
                 booted, faults, crashes>>

-----------------------------------------------------------------------------
(* Specification *)

Init ==
  /\ status \in [Items -> InitialStatuses]
  /\ attempt = [i \in Items |-> "none"]
  /\ query \in [Items -> BOOLEAN]
  /\ \A i \in Items : status[i] = "absent" => ~query[i]
  /\ late = {} /\ held = {} /\ resuming = {} /\ revived = {}
  /\ task = [t \in Tasks |-> IdleTask]
  /\ req = [h \in Handlers |-> NoRequest]
  /\ disp = "idle" /\ booted = FALSE
  /\ faults = MaxFaults /\ crashes = MaxCrashes

DispatchStep == Tick \/ RecoverStale \/ SelectOverCap \/ RequeueOverCap
                \/ ClaimQueued \/ ScheduleClaimed \/ FeedWaiting
                \/ ListAuditCandidates \/ ReworkCandidate \/ StampCandidates

TaskStep(t) == PromotionRead(t) \/ PromotionWrite(t) \/ RecordResult(t)
               \/ NotificationSucceeds(t) \/ InvocationFails(t)
               \/ AutoCancelAfterFailure(t)

RequestWrite(h) == SeedRun(h) \/ startAgenticRun(h) \/ restartAgenticRun(h)
                   \/ BulkQueue(h) \/ BulkRestartFailed(h) \/ cancelAgenticRun(h)
                   \/ Review(h) \/ ClearAfterRejection(h) \/ TriggerFailed(h)
                   \/ removeAgenticSearchLink(h)

ResumeStep == ListStale \/ ResumeOne

Next ==
  \/ DispatchStep \/ DispatchFault
  \/ \E t \in Tasks : TaskStep(t) \/ NotificationFails(t) \/ TaskFault(t)
  \/ LandLateUpdate
  \/ \E h \in Handlers : ReadRow(h) \/ RequestWrite(h) \/ RequestFault(h)
  \/ ResumeStep
  \/ Crash
  \/ \E i \in Items : Age(i)

Spec == Init /\ [][Next]_vars

\* The interval keeps firing, awaited work returns, time passes, and the process
\* lists its stale rows at startup.  Requests, faults and crashes owe nothing.
Fairness ==
  /\ WF_vars(DispatchStep)
  /\ \A t \in Tasks : WF_vars(TaskStep(t))
  /\ WF_vars(LandLateUpdate)
  /\ WF_vars(ResumeStep)
  /\ \A i \in Items : WF_vars(Age(i))

FairSpec == Spec /\ Fairness

-----------------------------------------------------------------------------
(* Invariants *)

\* Every variable has its type.
TypeOK ==
  /\ status \in [Items -> Statuses]
  /\ attempt \in [Items -> Attempts]
  /\ query \in [Items -> BOOLEAN]
  /\ late \subseteq LateUpdates
  /\ task \in [Tasks -> TaskStates]
  /\ req \in [Handlers -> RequestStates]
  /\ disp \in {"idle", "recover", "requeue", "audit", "sweep"} \cup Scheduling
  /\ held \subseteq HeldRows
  /\ resuming \subseteq Items
  /\ booted \in BOOLEAN
  /\ faults \in 0..MaxFaults /\ crashes \in 0..MaxCrashes
  /\ revived \subseteq Items

\* The claim alone never over-fills the running slots: whatever the promotion
\* writes, the stale echoes and the requeue do in between, the running rows that
\* no other write has put back stay within MaxRunning.
CapAccounted == Cardinality(Running \ revived) <= MaxRunning

\* Somebody in the process is going to move this running row on: a task, the
\* dispatcher with the claim in its hands, or the startup resume.
HasOwner(i) ==
  \/ \E t \in Tasks : task[t].item = i
  \/ \E r \in held : r.item = i
  \/ i \in resuming
  \/ ~booted

\* As long as no statement has failed, a running row that was attempted and can be
\* resumed has an owner: neither a restart or requeue racing a task, nor two tasks on
\* one row, nor a crash leave a row running for nobody.  (A row seeded as running was
\* never attempted; only the stale recovery ends it, as if it had timed out.  Removing a
\* search link writes back the status it read, so an instance that issues "unlink" can
\* put a run that was failed meanwhile back to running, for nobody.)
RunningIsOwned ==
  faults = MaxFaults =>
    \A i \in Running : query[i] /\ attempt[i] # "none" => HasOwner(i)

-----------------------------------------------------------------------------
(* Action properties *)

Settled == {"absent", "review", "approved", "auto_approved", "rejected", "failed",
            "cancelled"}

\* Nothing the process started earlier can still write row i.  A task that has
\* not passed the promotion guard may exist.
NothingPending(i) ==
  /\ \A t \in Tasks : task[t].item = i => task[t].pc = "scheduled"
  /\ \A r \in held : r.item # i
  /\ \A u \in late : u.item # i

OperatorWrites(i) == \E h \in Handlers : req[h].item = i /\ req[h].op # req'[h].op

\* A settled run stays as it is until an operator writes it: neither the feeder,
\* the claim, the startup resume, nor a task that starts late revives a failed or
\* cancelled run or repeats an approved one; only the contract sweep reworks an
\* approved run, once it has listed it.
SettledDurable ==
  [][\A i \in Items :
       status[i] \in Settled /\ NothingPending(i) /\ status'[i] # status[i]
         => OperatorWrites(i)]_vars

-----------------------------------------------------------------------------
(* Liveness *)

\* Once operators leave the queue alone, every run that can be searched settles:
\* the feeder, the capped claim and the stale recovery together empty the backlog,
\* although statements fail and invocations die.
BacklogSettles ==
  <>[](\A h \in Handlers : req[h] = NoRequest) =>
    <>[](\A i \in Items :
            status[i] \in Settled \/ (status[i] = "notStarted" /\ ~query[i]))

=============================================================================
