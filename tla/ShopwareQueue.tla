------------------------------ MODULE ShopwareQueue ------------------------------
(***************************************************************************)
(* The queue of jobs for the shop: rows that other actions enqueue, and    *)
(* processShopwareQueue, which claims a batch, dispatches one job after    *)
(* the other and starts the update of its row without awaiting it.  No     *)
(* statement recovers a row whose worker is gone.  The server does not     *)
(* start the worker at this commit; runs of it may overlap.                *)
(***************************************************************************)
EXTENDS Integers, FiniteSets

CONSTANTS
  Jobs,       \* rows, in the order of CreatedAt and Id
  Batch,      \* batchSize
  Runs,       \* bound: overlapping runs of the worker
  MaxRetries, \* bound: retries of a job
  MaxCrashes  \* bound: ends of the process

VARIABLES
  status,  \* "Status"
  retries, \* "RetryCount"
  due,     \* whether "NextAttemptAt" is null or past
  batch,   \* the jobs a run has claimed and not dispatched, with what it read
  writes,  \* updates that are started and not awaited
  crashes

queue == <<status, retries, due>>
vars == <<queue, batch, writes, crashes>>

Ended == {"succeeded", "failed"}
Update(j, to, n) == [job |-> j, to |-> to, retries |-> n]

-----------------------------------------------------------------------------

enqueueShopwareSyncJob(j) ==
  /\ status[j] = "none"
  /\ status' = [status EXCEPT ![j] = "queued"]
  /\ UNCHANGED <<retries, due, batch, writes, crashes>>

\* Wrong variant: a row that is being processed is claimed again.
ClaimedTwice == {j \in Jobs : status[j] \in {"queued", "processing"} /\ due[j]}

\* The first Batch rows that are queued and due, returned in any order.
Claimable == {j \in Jobs : status[j] = "queued" /\ due[j]}
Claimed == {j \in Claimable : Cardinality({k \in Claimable : k < j}) < Batch}

claimShopwareSyncJobs(r) ==
  /\ batch[r] = {} /\ Claimed # {}
  /\ status' = [j \in Jobs |-> IF j \in Claimed THEN "processing" ELSE status[j]]
  /\ batch' = [batch EXCEPT ![r] = {Update(j, "processing", retries[j]) : j \in Claimed}]
  /\ UNCHANGED <<retries, due, writes, crashes>>

\* handleSuccess, handleRetry and handlePermanentFailure: an error of the client is
\* retried unless it says otherwise, whatever the number of retries.
Outcomes(job) ==
  {Update(job.job, "succeeded", 0), Update(job.job, "failed", job.retries)}
  \cup IF job.retries < MaxRetries THEN {Update(job.job, "queued", job.retries + 1)} ELSE {}

processShopwareQueue(r) ==
  /\ \E j \in batch[r] :
       /\ \E w \in Outcomes(j) : writes' = writes \cup {w}
       /\ batch' = [batch EXCEPT ![r] = @ \ {j}]
  /\ UNCHANGED <<queue, crashes>>

\* markShopwareSyncJobSucceeded, rescheduleShopwareSyncJob, markShopwareSyncJobFailed.
WriteOutcome(w) ==
  /\ w \in writes /\ writes' = writes \ {w}
  /\ status' = [status EXCEPT ![w.job] = w.to]
  /\ retries' = [retries EXCEPT ![w.job] = w.retries]
  /\ due' = [due EXCEPT ![w.job] = w.to # "queued"]
  /\ UNCHANGED <<batch, crashes>>

\* computeRetryDelayMs has gone by.
RetryIsDue(j) ==
  /\ ~due[j] /\ due' = [due EXCEPT ![j] = TRUE]
  /\ UNCHANGED <<status, retries, batch, writes, crashes>>

\* A kill, or a rejected update nobody handles: claimed rows stay as they are.
Crash ==
  /\ crashes < MaxCrashes /\ crashes' = crashes + 1
  /\ batch' = [r \in Runs |-> {}] /\ writes' = {}
  /\ UNCHANGED queue

-----------------------------------------------------------------------------

Init ==
  /\ status = [j \in Jobs |-> "none"] /\ retries = [j \in Jobs |-> 0]
  /\ due = [j \in Jobs |-> TRUE]
  /\ batch = [r \in Runs |-> {}] /\ writes = {} /\ crashes = 0

Next ==
  \/ \E j \in Jobs : enqueueShopwareSyncJob(j) \/ RetryIsDue(j)
  \/ \E r \in Runs : claimShopwareSyncJobs(r) \/ processShopwareQueue(r)
  \/ \E w \in writes : WriteOutcome(w)
  \/ Crash

Spec == Init /\ [][Next]_vars

-----------------------------------------------------------------------------
(* Properties *)

Outcome == [job : Jobs, to : {"queued", "processing"} \cup Ended, retries : 0..MaxRetries]

\* The variables stay in their sets; the retries counted are those made.
TypeOK ==
  /\ status \in [Jobs -> {"none", "queued", "processing"} \cup Ended]
  /\ retries \in [Jobs -> 0..MaxRetries] /\ due \in [Jobs -> BOOLEAN]
  /\ \A r \in Runs : batch[r] \subseteq Outcome
  /\ writes \subseteq Outcome /\ crashes \in 0..MaxCrashes

\* A job is in one hand at a time: a row that is being processed is in one batch or has
\* one outcome under way, unless the process ended and stranded it.
Hands(j) ==
  Cardinality({r \in Runs : \E w \in batch[r] : w.job = j})
  + Cardinality({w \in writes : w.job = j})
InOneHand ==
  \A j \in Jobs : /\ Hands(j) <= IF status[j] = "processing" THEN 1 ELSE 0
                  /\ status[j] = "processing" /\ Hands(j) = 0 => crashes > 0

\* A row as a job of a queue table.
job == [j \in Jobs |->
  CASE status[j] = "none"       -> "none"
    [] status[j] = "queued"     -> "waiting"
    [] status[j] = "processing" -> "held"
    [] status[j] \in Ended      -> "ended"]

\* The queue keeps the contract of a queue table, as the label queue does: an update
\* that comes late, after a retry or another run, never brings an ended job back.
Contract == INSTANCE JobContract
SyncKeepsContract == Contract!Safe
=============================================================================
