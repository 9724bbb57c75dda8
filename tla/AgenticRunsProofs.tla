--------------------------- MODULE AgenticRunsProofs ---------------------------
(***************************************************************************)
(* What holds of AgenticRuns for every set of rows, tasks and handlers and *)
(* every cap: the variables keep their types, the claim never over-fills    *)
(* the running slots, and a settled run that nothing pending is about       *)
(* stays settled.                                                          *)
(***************************************************************************)
EXTENDS AgenticRuns, FiniteSetTheorems, TLAPS

-----------------------------------------------------------------------------
(* The statements on agentic_runs *)

\* The part of TypeOK the statements touch.
RowsOK ==
  /\ status \in [Items -> Statuses]
  /\ attempt \in [Items -> Attempts]
  /\ revived \subseteq Items

\* A single-row write keeps the rows typed.
LEMMA SetRowTyped ==
  ASSUME RowsOK, NEW i \in Items, NEW s \in Statuses, NEW a \in Attempts, SetRow(i, s, a)
  PROVE  RowsOK'
BY DEF RowsOK, SetRow, Running, RowsWith

\* ... and so do the four statements built from it.
LEMMA UpsertTyped ==
  ASSUME RowsOK, query \in [Items -> BOOLEAN],
         NEW i \in Items, NEW s \in Statuses, NEW q \in BOOLEAN,
         upsertAgenticRun(i, s, q)
  PROVE  RowsOK' /\ query' \in [Items -> BOOLEAN]
<1>1. (IF s = "queued" THEN "none" ELSE attempt[i]) \in Attempts
  BY DEF RowsOK, Attempts
<1>2. RowsOK'
  BY <1>1, SetRowTyped DEF upsertAgenticRun
<1>3. query' \in [Items -> BOOLEAN]
  BY DEF upsertAgenticRun
<1>. QED BY <1>2, <1>3

\* The operators' status update keeps the rows typed.
LEMMA StatusUpdateTyped ==
  ASSUME RowsOK, NEW i \in Items, NEW s \in Statuses \cup {"null"}, NEW a \in Attempts,
         updateAgenticRunStatus(i, s, a)
  PROVE  RowsOK'
<1>1. CASE status[i] = "absent" \/ s = "null"
  BY <1>1 DEF updateAgenticRunStatus, RowsOK
<1>2. CASE ~(status[i] = "absent" \/ s = "null")
  BY <1>2, SetRowTyped DEF updateAgenticRunStatus
<1>. QED BY <1>1, <1>2

\* A queue-state update keeps the rows typed.
LEMMA QueueUpdateTyped ==
  ASSUME RowsOK, NEW u, u.item \in Items, u.to \in Statuses \cup {"keep"},
         u.att \in Attempts, updateQueuedAgenticRunQueueState(u)
  PROVE  RowsOK'
<1>1. CASE status[u.item] = "absent"
  BY <1>1 DEF updateQueuedAgenticRunQueueState, RowsOK
<1>2. CASE status[u.item] # "absent"
  <2>1. (IF u.to = "keep" THEN status[u.item] ELSE u.to) \in Statuses
    BY DEF RowsOK
  <2>. QED BY <1>2, <2>1, SetRowTyped DEF updateQueuedAgenticRunQueueState
<1>. QED BY <1>1, <1>2

\* An attempt written late has the age of an attempt.
LEMMA LateAttemptTyped == ASSUME NEW a \in Attempts PROVE LateAttempt(a) \in Attempts
BY DEF LateAttempt, Attempts

\* A row the tick holds and a closure a task holds are typed records.
LEMMA HeldRowTyped ==
  ASSUME RowsOK, query \in [Items -> BOOLEAN], NEW i \in Items
  PROVE  HeldRow(i) \in HeldRows
BY DEF RowsOK, HeldRow, HeldRows

\* A scheduled invocation is a typed task.
LEMMA SpawnTyped ==
  ASSUME task \in [Tasks -> TaskStates], NEW i \in Items, Spawn(i)
  PROVE  task' \in [Tasks -> TaskStates]
BY DEF Spawn, TaskStates

\* A task at work is about a row.
LEMMA BusyTask ==
  ASSUME task \in [Tasks -> TaskStates], NEW t \in Tasks, task[t].pc # "idle"
  PROVE  task[t].item \in Items
BY DEF TaskStates

\* A task that moves on stays typed.
LEMMA AdvanceTyped ==
  ASSUME task \in [Tasks -> TaskStates], NEW t \in Tasks, task[t].pc # "idle",
         NEW pc \in {"scheduled", "promoting", "invoking", "recorded", "failing"},
         Advance(t, pc)
  PROVE  task' \in [Tasks -> TaskStates]
BY DEF Advance, TaskStates

\* A task that ends leaves an idle slot.
LEMMA FinishTyped ==
  ASSUME task \in [Tasks -> TaskStates], NEW t \in Tasks, Finish(t)
  PROVE  task' \in [Tasks -> TaskStates]
BY DEF Finish, TaskStates, IdleTask

\* A request under way has read a typed row.
LEMMA BusyRequest ==
  ASSUME req \in [Handlers -> RequestStates], NEW h \in Handlers, req[h].op # "none"
  PROVE  req[h].item \in Items /\ req[h].seen \in Statuses /\ req[h].att \in Attempts
BY DEF RequestStates, NoRequest

\* An answered request leaves a free handler.
LEMMA AnswerTyped ==
  ASSUME req \in [Handlers -> RequestStates], NEW h \in Handlers, Answer(h)
  PROVE  req' \in [Handlers -> RequestStates]
BY DEF Answer, RequestStates

-----------------------------------------------------------------------------
(* Type correctness *)

\* The rows found at startup are typed.
LEMMA TypeInit == Init => TypeOK
<1>. SUFFICES ASSUME Init PROVE TypeOK
  OBVIOUS
<1>1. status \in [Items -> Statuses] /\ attempt \in [Items -> Attempts]
  BY InitialAssumption DEF Init, Attempts
<1>2. task \in [Tasks -> TaskStates]
  BY DEF Init, IdleTask, TaskStates
<1>3. req \in [Handlers -> RequestStates]
  BY DEF Init, RequestStates
<1>4. faults \in 0..MaxFaults /\ crashes \in 0..MaxCrashes
  BY BoundsAssumption DEF Init
<1>. QED BY <1>1, <1>2, <1>3, <1>4 DEF Init, TypeOK

\* Every step of the dispatcher's tick keeps the types.
LEMMA DispatchTyped == TypeOK /\ DispatchStep => TypeOK'
<1>. SUFFICES ASSUME TypeOK, DispatchStep PROVE TypeOK'
  OBVIOUS
<1>. USE DEF TypeOK, Scheduling
<1>0. RowsOK /\ Running \subseteq Items
  BY DEF RowsOK, Running, RowsWith
<1>1. CASE Tick
  BY <1>0, <1>1, HeldRowTyped DEF Tick, StaleRows, rows
<1>2. CASE RecoverStale
  <2>1. PICK r \in held :
          /\ updateQueuedAgenticRunQueueState(
               [item |-> r.item, to |-> "failed", att |-> LateAttempt(r.att)])
          /\ held' = held \ {r}
    BY <1>2 DEF RecoverStale
  <2>2. r.item \in Items /\ LateAttempt(r.att) \in Attempts
    BY LateAttemptTyped DEF HeldRows
  <2>3. RowsOK'
    BY <1>0, <2>1, <2>2, QueueUpdateTyped DEF Statuses, RowStatuses
  <2>. QED BY <1>2, <2>1, <2>3 DEF RecoverStale, RowsOK
<1>3. CASE SelectOverCap
  BY <1>0, <1>3, HeldRowTyped DEF SelectOverCap, rows
<1>4. CASE RequeueOverCap
  <2>1. PICK r \in held :
          /\ updateQueuedAgenticRunQueueState(
               [item |-> r.item, to |-> "queued", att |-> LateAttempt(r.att)])
          /\ held' = held \ {r}
    BY <1>4 DEF RequeueOverCap
  <2>2. r.item \in Items /\ LateAttempt(r.att) \in Attempts
    BY LateAttemptTyped DEF HeldRows
  <2>3. RowsOK'
    BY <1>0, <2>1, <2>2, QueueUpdateTyped DEF Statuses, RowStatuses
  <2>. QED BY <1>4, <2>1, <2>3 DEF RequeueOverCap, RowsOK
<1>5. CASE ClaimQueued
  <2>1. CASE \E n : Claim(n)
    <3>1. PICK S \in SUBSET Queued :
            /\ status' = [i \in Items |-> IF i \in S THEN "running" ELSE status[i]]
            /\ attempt' = [i \in Items |-> IF i \in S THEN "fresh" ELSE attempt[i]]
            /\ held' = {[item |-> i, att |-> "fresh", query |-> query[i]] : i \in S}
      BY <2>1 DEF Claim
    <3>2. S \subseteq Items
      BY DEF Queued, RowsWith
    <3>3. status' \in [Items -> Statuses] /\ attempt' \in [Items -> Attempts]
      BY <3>1 DEF Statuses, RowStatuses, Attempts
    <3>4. held' \subseteq HeldRows
      BY <3>1, <3>2 DEF HeldRows, Attempts
    <3>. QED BY <1>5, <3>3, <3>4 DEF ClaimQueued
  <2>2. CASE UNCHANGED <<status, attempt, held>>
    BY <1>5, <2>2 DEF ClaimQueued
  <2>. QED BY <1>5, <2>1, <2>2 DEF ClaimQueued
<1>6. CASE ScheduleClaimed
  <2>1. PICK r \in held :
          /\ held' = held \ {r}
          /\ IF r.query
             THEN Spawn(r.item) /\ UNCHANGED late
             ELSE /\ late' = late \cup {[item |-> r.item, to |-> "failed",
                                         att |-> LateAttempt(r.att)]}
                  /\ UNCHANGED task
    BY <1>6 DEF ScheduleClaimed
  <2>2. r.item \in Items /\ LateAttempt(r.att) \in Attempts
    BY LateAttemptTyped DEF HeldRows
  <2>3. late' \subseteq LateUpdates /\ task' \in [Tasks -> TaskStates]
    BY <2>1, <2>2, SpawnTyped DEF LateUpdates
  <2>4. disp' \in {"idle", "recover", "requeue", "audit", "sweep"} \cup Scheduling
    BY <1>6 DEF ScheduleClaimed, Scheduling
  <2>. QED BY <1>6, <2>1, <2>3, <2>4 DEF ScheduleClaimed, rows
<1>7. CASE FeedWaiting
  <2>1. CASE \E n : ClaimNotStarted(n)
    BY <1>7, <2>1 DEF FeedWaiting, ClaimNotStarted, Statuses, RowStatuses
  <2>2. CASE UNCHANGED status
    BY <1>7, <2>2 DEF FeedWaiting
  <2>. QED BY <1>7, <2>1, <2>2 DEF FeedWaiting
<1>8. CASE ListAuditCandidates
  BY <1>0, <1>8, HeldRowTyped DEF ListAuditCandidates, rows, RowsWith
<1>9. CASE ReworkCandidate
  <2>1. PICK r \in held :
          /\ updateAgenticRunStatus(r.item, "queued", "none")
          /\ query' = [query EXCEPT ![r.item] = @ \/ status[r.item] # "absent"]
    BY <1>9 DEF ReworkCandidate
  <2>2. RowsOK'
    BY <1>0, <2>1, StatusUpdateTyped DEF HeldRows, Statuses, RowStatuses, Attempts
  <2>. QED BY <1>9, <2>2 DEF ReworkCandidate, RowsOK
<1>10. CASE StampCandidates
  BY <1>10 DEF StampCandidates, rows
<1>. QED BY <1>1, <1>2, <1>3, <1>4, <1>5, <1>6, <1>7, <1>8, <1>9, <1>10 DEF DispatchStep

\* Every step of a background invocation keeps the types.
LEMMA TaskTyped ==
  ASSUME TypeOK, NEW t \in Tasks, TaskStep(t) \/ NotificationFails(t) \/ TaskFault(t)
  PROVE  TypeOK'
<1>. USE DEF TypeOK, Scheduling
<1>0. RowsOK
  BY DEF RowsOK
<1>1. ASSUME task[t].pc # "idle" PROVE task[t].item \in Items
  BY <1>1, BusyTask
<1>2. CASE PromotionRead(t)
  <2>1. task' \in [Tasks -> TaskStates]
    BY <1>2, AdvanceTyped, FinishTyped DEF PromotionRead
  <2>. QED BY <1>2, <2>1 DEF PromotionRead, rows
<1>3. CASE PromotionWrite(t)
  <2>1. task' \in [Tasks -> TaskStates]
    BY <1>3, AdvanceTyped, FinishTyped DEF PromotionWrite
  <2>2. RowsOK'
    BY <1>0, <1>1, <1>3, StatusUpdateTyped DEF PromotionWrite, Statuses, RowStatuses, Attempts
  <2>. QED BY <1>3, <2>1, <2>2 DEF PromotionWrite, RowsOK
<1>4. CASE RecordResult(t)
  <2>1. task' \in [Tasks -> TaskStates]
    BY <1>4, AdvanceTyped DEF RecordResult
  <2>2. PICK o \in Outcomes : upsertAgenticRun(task[t].item, o, TRUE)
    BY <1>4 DEF RecordResult
  <2>3. RowsOK' /\ query' \in [Items -> BOOLEAN]
    BY <1>0, <1>1, <1>4, <2>2, UpsertTyped, OutcomesAssumption DEF RecordResult, Statuses
  <2>. QED BY <1>4, <2>1, <2>3 DEF RecordResult, RowsOK
<1>5. CASE NotificationSucceeds(t)
  BY <1>5, FinishTyped DEF NotificationSucceeds, rows
<1>6. CASE InvocationFails(t)
  <2>1. task' \in [Tasks -> TaskStates]
    BY <1>6, AdvanceTyped DEF InvocationFails
  <2>2. late' \subseteq LateUpdates
    BY <1>1, <1>6 DEF InvocationFails, PersistLastError, LateUpdates, Attempts
  <2>. QED BY <1>6, <2>1, <2>2 DEF InvocationFails, rows
<1>7. CASE AutoCancelAfterFailure(t)
  <2>1. task' \in [Tasks -> TaskStates]
    BY <1>7, FinishTyped DEF AutoCancelAfterFailure
  <2>2. LateAttempt(attempt[task[t].item]) \in Attempts
    BY <1>1, <1>7, LateAttemptTyped DEF AutoCancelAfterFailure
  <2>3. RowsOK'
    BY <1>0, <1>1, <1>7, <2>2, StatusUpdateTyped
       DEF AutoCancelAfterFailure, Statuses, RowStatuses
  <2>. QED BY <1>7, <2>1, <2>3 DEF AutoCancelAfterFailure, RowsOK
<1>8. CASE NotificationFails(t)
  <2>1. task' \in [Tasks -> TaskStates]
    BY <1>8, AdvanceTyped DEF NotificationFails
  <2>2. late' \subseteq LateUpdates
    BY <1>1, <1>8 DEF NotificationFails, PersistLastError, LateUpdates, Attempts
  <2>3. faults' \in 0..MaxFaults
    BY <1>8, BoundsAssumption DEF NotificationFails
  <2>. QED BY <1>8, <2>1, <2>2, <2>3 DEF NotificationFails, rows
<1>9. CASE TaskFault(t)
  <2>1. task' \in [Tasks -> TaskStates]
    BY <1>9, FinishTyped DEF TaskFault
  <2>2. faults' \in 0..MaxFaults
    BY <1>9, BoundsAssumption DEF TaskFault
  <2>. QED BY <1>9, <2>1, <2>2 DEF TaskFault, rows
<1>. QED BY <1>2, <1>3, <1>4, <1>5, <1>6, <1>7, <1>8, <1>9 DEF TaskStep

\* A handler that read its row keeps the types.
LEMMA AdmittedRequest ==
  ASSUME TypeOK, NEW h \in Handlers, ReadRow(h)
  PROVE  TypeOK'
<1>1. PICK op \in Requests, i \in Items :
        /\ req' = [req EXCEPT ![h] =
                     [op |-> op, item |-> i,
                      seen |-> IF op = "unlink" THEN status[i] ELSE "absent",
                      att |-> IF op \in {"cancel", "triggerFailed"}
                              THEN attempt[i] ELSE "none"]]
        /\ IF op = "cancel"
           THEN late' = late \cup {[item |-> i, to |-> "cancelled",
                                    att |-> LateAttempt(attempt[i])]}
           ELSE UNCHANGED late
  BY DEF ReadRow
<1>2. op \in Operations
  BY RequestsAssumption
<1>3. status[i] \in Statuses /\ attempt[i] \in Attempts /\ LateAttempt(attempt[i]) \in Attempts
  BY LateAttemptTyped DEF TypeOK
<1>4. req' \in [Handlers -> RequestStates]
  BY <1>1, <1>2, <1>3 DEF TypeOK, RequestStates, Statuses, Attempts
<1>5. late' \subseteq LateUpdates
  BY <1>1, <1>3 DEF TypeOK, LateUpdates
<1>. QED BY <1>4, <1>5 DEF ReadRow, TypeOK, rows

\* Every write of an operator's request keeps the types.
LEMMA RequestTyped ==
  ASSUME TypeOK, NEW h \in Handlers, RequestWrite(h) \/ RequestFault(h)
  PROVE  TypeOK'
<1>. USE DEF TypeOK, Scheduling
<1>0. RowsOK
  BY DEF RowsOK
<1>i. ASSUME req[h].op # "none"
      PROVE  req[h].item \in Items /\ req[h].seen \in Statuses /\ req[h].att \in Attempts
  BY <1>i, BusyRequest
<1>s. {"notStarted", "queued", "running", "cancelled", "failed", "approved", "rejected"}
        \subseteq Statuses
  BY DEF Statuses, RowStatuses
<1>1. ASSUME NEW s \in Statuses, NEW q \in BOOLEAN, req[h].op # "none",
             upsertAgenticRun(req[h].item, s, q), Answer(h), RequestFrame
      PROVE  TypeOK'
  <2>1. RowsOK' /\ query' \in [Items -> BOOLEAN]
    BY <1>0, <1>1, <1>i, UpsertTyped
  <2>2. req' \in [Handlers -> RequestStates]
    BY <1>1, AnswerTyped
  <2>. QED BY <1>1, <2>1, <2>2 DEF RowsOK, RequestFrame
<1>2. ASSUME NEW s \in Statuses \cup {"null"}, NEW a \in Attempts, req[h].op # "none",
             updateAgenticRunStatus(req[h].item, s, a), Answer(h), UNCHANGED query,
             RequestFrame
      PROVE  TypeOK'
  <2>1. RowsOK'
    BY <1>0, <1>2, <1>i, StatusUpdateTyped
  <2>2. req' \in [Handlers -> RequestStates]
    BY <1>2, AnswerTyped
  <2>. QED BY <1>2, <2>1, <2>2 DEF RowsOK, RequestFrame
<1>3. CASE SeedRun(h)
  BY <1>1, <1>3, <1>s DEF SeedRun
<1>4. CASE startAgenticRun(h)
  BY <1>1, <1>4, <1>s DEF startAgenticRun
<1>5. CASE restartAgenticRun(h)
  BY <1>1, <1>5, <1>s DEF restartAgenticRun
<1>6. CASE BulkQueue(h)
  BY <1>1, <1>6, <1>s DEF BulkQueue
<1>7. CASE BulkRestartFailed(h)
  BY <1>1, <1>7, <1>s DEF BulkRestartFailed
<1>8. CASE cancelAgenticRun(h)
  BY <1>2, <1>8, <1>s, <1>i, LateAttemptTyped DEF cancelAgenticRun
<1>9. CASE Review(h)
  <2>1. PICK decision \in {"approved", "rejected"} :
          /\ SetRow(req[h].item, decision, attempt[req[h].item])
          /\ IF decision = "rejected"
             THEN req' = [req EXCEPT ![h].op = "clear"]
             ELSE Answer(h)
    BY <1>9 DEF Review, updateAgenticReview
  <2>2. req[h].op # "none"
    BY <1>9 DEF Review
  <2>3. RowsOK'
    BY <1>0, <1>i, <1>s, <2>1, <2>2, SetRowTyped
  <2>4. req[h] \in [op : Operations \cup {"clear"}, item : Items,
                    seen : Statuses, att : Attempts]
    BY <2>2 DEF RequestStates, NoRequest
  <2>5. [req[h] EXCEPT !.op = "clear"] \in RequestStates
    BY <2>4 DEF RequestStates
  <2>6. req' \in [Handlers -> RequestStates]
    BY <2>1, <2>5, AnswerTyped
  <2>. QED BY <1>9, <2>3, <2>6 DEF Review, RowsOK, RequestFrame
<1>10. CASE ClearAfterRejection(h)
  BY <1>2, <1>10 DEF ClearAfterRejection, Attempts
<1>11. CASE TriggerFailed(h)
  BY <1>2, <1>11, <1>s, <1>i DEF TriggerFailed
<1>12. CASE removeAgenticSearchLink(h)
  <2>1. req[h].op # "none"
    BY <1>12 DEF removeAgenticSearchLink
  <2>2. attempt[req[h].item] \in Attempts /\ req[h].seen \in Statuses
    BY <1>i, <2>1
  <2>. QED BY <1>2, <1>12, <2>1, <2>2 DEF removeAgenticSearchLink
<1>13. CASE RequestFault(h)
  BY <1>13, AnswerTyped, BoundsAssumption DEF RequestFault, rows
<1>. QED BY <1>3, <1>4, <1>5, <1>6, <1>7, <1>8, <1>9, <1>10, <1>11, <1>12, <1>13
        DEF RequestWrite

\* Faults, late updates, startup resume, crashes and time keep the types.
LEMMA OtherTyped ==
  ASSUME TypeOK,
         DispatchFault \/ LandLateUpdate \/ ResumeStep \/ Crash \/ (\E i \in Items : Age(i))
  PROVE  TypeOK'
<1>. USE DEF TypeOK, Scheduling
<1>1. CASE DispatchFault
  BY <1>1, BoundsAssumption DEF DispatchFault, rows
<1>2. CASE LandLateUpdate
  <2>1. PICK u \in late : updateQueuedAgenticRunQueueState(u) /\ late' = late \ {u}
    BY <1>2 DEF LandLateUpdate
  <2>2. RowsOK'
    BY <2>1, QueueUpdateTyped DEF RowsOK, LateUpdates, Statuses, RowStatuses
  <2>. QED BY <1>2, <2>1, <2>2 DEF LandLateUpdate, RowsOK
<1>3. CASE ListStale
  BY <1>3 DEF ListStale, Queued, Running, RowsWith, rows
<1>4. CASE ResumeOne
  <2>1. PICK i \in resuming : Spawn(i) /\ resuming' = resuming \ {i}
    BY <1>4 DEF ResumeOne
  <2>2. task' \in [Tasks -> TaskStates]
    BY <2>1, SpawnTyped
  <2>. QED BY <1>4, <2>1, <2>2 DEF ResumeOne, rows
<1>5. CASE Crash
  <2>1. task' \in [Tasks -> TaskStates]
    BY <1>5 DEF Crash, TaskStates, IdleTask
  <2>2. req' \in [Handlers -> RequestStates]
    BY <1>5 DEF Crash, RequestStates
  <2>3. crashes' \in 0..MaxCrashes
    BY <1>5, BoundsAssumption DEF Crash
  <2>. QED BY <1>5, <2>1, <2>2, <2>3 DEF Crash, rows
<1>6. CASE \E i \in Items : Age(i)
  BY <1>6 DEF Age, Attempts
<1>. QED BY <1>1, <1>2, <1>3, <1>4, <1>5, <1>6 DEF ResumeStep

\* TypeOK is inductive on its own.
LEMMA TypeStep == TypeOK /\ [Next]_vars => TypeOK'
<1>. SUFFICES ASSUME TypeOK, [Next]_vars PROVE TypeOK'
  OBVIOUS
<1>1. CASE Next
  BY <1>1, DispatchTyped, TaskTyped, AdmittedRequest, RequestTyped, OtherTyped DEF Next
<1>2. CASE UNCHANGED vars
  BY <1>2 DEF vars, TypeOK
<1>. QED BY <1>1, <1>2

\* Every variable of the orchestration keeps its type in every reachable state.
THEOREM TypeCorrect == Spec => []TypeOK
BY TypeInit, TypeStep, PTL DEF Spec

-----------------------------------------------------------------------------
(* The running cap *)

\* CapAccounted is inductive together with the meaning of the history variable.
CapInv == TypeOK /\ revived \subseteq Running /\ CapAccounted

\* A step that makes no row running on the cap's account.
Tame == revived' \subseteq Running' /\ Running' \ revived' \subseteq Running \ revived

\* The running rows can be counted.
LEMMA RunningFinite == TypeOK => IsFiniteSet(Running) /\ Cardinality(Running) \in Nat
<1>1. Running \subseteq Items
  BY DEF Running, RowsWith
<1>2. IsFiniteSet(Running)
  BY <1>1, ItemsAssumption, FS_Subset
<1>. QED BY <1>2, FS_CardinalityType

\* A tame step lets no row start running, so the cap survives it.
LEMMA TameCap == CapInv /\ Tame => CapAccounted'
<1>. SUFFICES ASSUME CapInv, Tame PROVE CapAccounted'
  OBVIOUS
<1>1. IsFiniteSet(Running \ revived)
  BY RunningFinite, FS_Subset, Running \ revived \subseteq Running DEF CapInv
<1>2. /\ Cardinality(Running' \ revived') <= Cardinality(Running \ revived)
      /\ IsFiniteSet(Running' \ revived')
  BY <1>1, FS_Subset DEF Tame
<1>3. Cardinality(Running' \ revived') \in Nat /\ Cardinality(Running \ revived) \in Nat
  BY <1>1, <1>2, FS_CardinalityType
<1>. QED BY <1>2, <1>3, CapAssumption DEF CapInv, CapAccounted

\* A single-row write is tame: a row it makes running is revived.
LEMMA SetRowTame ==
  ASSUME TypeOK, revived \subseteq Running, NEW i \in Items, NEW s, NEW a, SetRow(i, s, a)
  PROVE  Tame
<1>1. \A j \in Items : status'[j] = IF j = i THEN s ELSE status[j]
  BY DEF TypeOK, SetRow
<1>2. CASE s = "running"
  <2>1. Running' = Running \cup {i}
    BY <1>1, <1>2 DEF Running, RowsWith
  <2>2. revived' = revived \cup ({i} \ Running)
    BY <1>2 DEF SetRow
  <2>. QED BY <2>1, <2>2 DEF Tame
<1>3. CASE s # "running"
  <2>1. Running' = Running \ {i}
    BY <1>1, <1>3 DEF Running, RowsWith
  <2>2. revived' = revived \ {i}
    BY <1>3 DEF SetRow
  <2>. QED BY <2>1, <2>2 DEF Tame
<1>. QED BY <1>2, <1>3

\* A step that leaves the rows' statuses alone, and the four statements.
LEMMA SameStatusTame ==
  ASSUME revived \subseteq Running, UNCHANGED <<status, revived>>
  PROVE  Tame
BY DEF Tame, Running, RowsWith

\* ... and so is every statement built from it.
LEMMA StatementTame ==
  ASSUME TypeOK, revived \subseteq Running
  PROVE  /\ \A i \in Items : \A s, q : upsertAgenticRun(i, s, q) => Tame
         /\ \A i \in Items : \A s, a : updateAgenticRunStatus(i, s, a) => Tame
         /\ \A i \in Items : \A s : updateAgenticReview(i, s) => Tame
         /\ \A u : u.item \in Items /\ updateQueuedAgenticRunQueueState(u) => Tame
<1>1. ASSUME NEW i \in Items, NEW s, NEW q, upsertAgenticRun(i, s, q) PROVE Tame
  BY <1>1, SetRowTame DEF upsertAgenticRun
<1>2. ASSUME NEW i \in Items, NEW s, NEW a, updateAgenticRunStatus(i, s, a) PROVE Tame
  BY <1>2, SetRowTame, SameStatusTame DEF updateAgenticRunStatus
<1>3. ASSUME NEW i \in Items, NEW s, updateAgenticReview(i, s) PROVE Tame
  BY <1>3, SetRowTame DEF updateAgenticReview
<1>4. ASSUME NEW u, u.item \in Items, updateQueuedAgenticRunQueueState(u) PROVE Tame
  BY <1>4, SetRowTame, SameStatusTame DEF updateQueuedAgenticRunQueueState
<1>. QED BY <1>1, <1>2, <1>3, <1>4

\* The claim is the dispatcher's only step that is not tame.
LEMMA DispatchTame ==
  ASSUME CapInv, DispatchStep, ~ClaimQueued
  PROVE  Tame
<1>. USE DEF CapInv
<1>1. CASE Tick \/ SelectOverCap \/ ScheduleClaimed
  BY <1>1, SameStatusTame DEF Tick, SelectOverCap, ScheduleClaimed, rows
<1>2. CASE RecoverStale
  BY <1>2, StatementTame DEF RecoverStale, TypeOK, HeldRows
<1>3. CASE RequeueOverCap
  BY <1>3, StatementTame DEF RequeueOverCap, TypeOK, HeldRows
<1>4. CASE FeedWaiting
  <2>1. CASE \E n : ClaimNotStarted(n)
    <3>1. PICK S \in SUBSET {i \in RowsWith("notStarted") : query[i]} :
            status' = [i \in Items |-> IF i \in S THEN "queued" ELSE status[i]]
      BY <2>1 DEF ClaimNotStarted
    <3>2. Running' = Running
      BY <3>1 DEF Running, RowsWith
    <3>. QED BY <1>4, <3>2 DEF FeedWaiting, Tame
  <2>2. CASE UNCHANGED status
    BY <1>4, <2>2, SameStatusTame DEF FeedWaiting
  <2>. QED BY <1>4, <2>1, <2>2 DEF FeedWaiting
<1>5. CASE ListAuditCandidates \/ StampCandidates
  BY <1>5, SameStatusTame DEF ListAuditCandidates, StampCandidates, rows
<1>6. CASE ReworkCandidate
  BY <1>6, StatementTame DEF ReworkCandidate, TypeOK, HeldRows
<1>. QED BY <1>1, <1>2, <1>3, <1>4, <1>5, <1>6 DEF DispatchStep

\* A background invocation's promotion marks the row it makes running.
LEMMA TaskTame ==
  ASSUME CapInv, NEW t \in Tasks, TaskStep(t) \/ NotificationFails(t) \/ TaskFault(t)
  PROVE  Tame
<1>. USE DEF CapInv
<1>1. ASSUME task[t].pc # "idle" PROVE task[t].item \in Items
  BY <1>1, BusyTask DEF TypeOK
<1>2. CASE PromotionRead(t) \/ NotificationSucceeds(t) \/ InvocationFails(t)
             \/ NotificationFails(t) \/ TaskFault(t)
  BY <1>2, SameStatusTame
     DEF PromotionRead, NotificationSucceeds, InvocationFails, NotificationFails, TaskFault, rows
<1>3. CASE PromotionWrite(t)
  BY <1>1, <1>3, StatementTame DEF PromotionWrite
<1>4. CASE RecordResult(t)
  BY <1>1, <1>4, StatementTame DEF RecordResult
<1>5. CASE AutoCancelAfterFailure(t)
  BY <1>1, <1>5, StatementTame DEF AutoCancelAfterFailure
<1>. QED BY <1>2, <1>3, <1>4, <1>5 DEF TaskStep

\* Operators' requests are tame.
LEMMA RequestTame ==
  ASSUME CapInv, NEW h \in Handlers, ReadRow(h) \/ RequestWrite(h) \/ RequestFault(h)
  PROVE  Tame
<1>. USE DEF CapInv
<1>1. ASSUME req[h].op # "none" PROVE req[h].item \in Items
  BY <1>1, BusyRequest DEF TypeOK
<1>2. CASE ReadRow(h) \/ RequestFault(h)
  BY <1>2, SameStatusTame DEF ReadRow, RequestFault, rows
<1>3. CASE SeedRun(h) \/ startAgenticRun(h) \/ restartAgenticRun(h) \/ BulkQueue(h)
             \/ BulkRestartFailed(h)
  BY <1>1, <1>3, StatementTame
     DEF SeedRun, startAgenticRun, restartAgenticRun, BulkQueue, BulkRestartFailed
<1>4. CASE cancelAgenticRun(h) \/ ClearAfterRejection(h) \/ TriggerFailed(h)
             \/ removeAgenticSearchLink(h)
  BY <1>1, <1>4, StatementTame
     DEF cancelAgenticRun, ClearAfterRejection, TriggerFailed, removeAgenticSearchLink
<1>5. CASE Review(h)
  BY <1>1, <1>5, StatementTame DEF Review
<1>. QED BY <1>2, <1>3, <1>4, <1>5 DEF RequestWrite

\* Everything else is tame.
LEMMA OtherTame ==
  ASSUME CapInv,
         DispatchFault \/ LandLateUpdate \/ ResumeStep \/ Crash \/ (\E i \in Items : Age(i))
  PROVE  Tame
<1>. USE DEF CapInv
<1>1. CASE LandLateUpdate
  BY <1>1, StatementTame DEF LandLateUpdate, TypeOK, LateUpdates
<1>2. CASE DispatchFault \/ ResumeStep \/ Crash \/ (\E i \in Items : Age(i))
  BY <1>2, SameStatusTame DEF DispatchFault, ResumeStep, ListStale, ResumeOne, Crash, Age, rows
<1>. QED BY <1>1, <1>2

\* The claim promotes no more rows than there are free slots.
LEMMA ClaimCap ==
  ASSUME CapInv, NEW n \in Int, Claim(n), UNCHANGED revived
  PROVE  revived' \subseteq Running' /\ CapAccounted'
<1>1. PICK S \in SUBSET Queued :
        /\ Cardinality(S) <= FreeSlots(n)
        /\ status' = [i \in Items |-> IF i \in S THEN "running" ELSE status[i]]
  BY DEF Claim
<1>2. Running' = Running \cup S
  BY <1>1 DEF Running, Queued, RowsWith
<1>3. IsFiniteSet(Running) /\ Cardinality(Running) \in Nat
  BY RunningFinite DEF CapInv
<1>4. IsFiniteSet(S) /\ Cardinality(S) \in Nat
  BY ItemsAssumption, FS_Subset, FS_CardinalityType, S \subseteq Items DEF Queued, RowsWith
<1>. DEFINE R == Running \ revived
<1>5. IsFiniteSet(R) /\ Cardinality(R) \in Nat /\ Cardinality(R) <= Cardinality(Running)
  BY <1>3, FS_Subset, FS_CardinalityType, R \subseteq Running
<1>6. IsFiniteSet(R \cup S) /\ Cardinality(R \cup S) \in Nat
      /\ Cardinality(R \cup S) <= Cardinality(R) + Cardinality(S)
  <2>1. Cardinality(R \cup S) = Cardinality(R) + Cardinality(S) - Cardinality(R \cap S)
        /\ IsFiniteSet(R \cup S)
    BY <1>4, <1>5, FS_Union
  <2>2. Cardinality(R \cap S) \in Nat
    BY <1>5, FS_Subset, FS_CardinalityType, R \cap S \subseteq R
  <2>. HIDE DEF R
  <2>. QED BY <1>4, <1>5, <2>1, <2>2, FS_CardinalityType
<1>7. Cardinality(R \cup S) <= MaxRunning
  <2>1. Cardinality(R) <= MaxRunning
    BY DEF CapInv, CapAccounted
  <2>2. Cardinality(S) <= AtLeastZero(MaxRunning - Cardinality(Running))
    BY <1>1, <1>3, <1>4, CapAssumption DEF FreeSlots, Minimum, AtLeastZero
  <2>. HIDE DEF R
  <2>. QED BY <1>3, <1>4, <1>5, <1>6, <2>1, <2>2, CapAssumption DEF AtLeastZero
<1>8. /\ IsFiniteSet(Running' \ revived')
      /\ Cardinality(Running' \ revived') <= Cardinality(R \cup S)
  BY <1>2, <1>6, FS_Subset, Running' \ revived' \subseteq R \cup S
<1>9. Cardinality(Running' \ revived') \in Nat
  BY <1>8, FS_CardinalityType
<1>10. CapAccounted'
  <2>. HIDE DEF R
  <2>. QED BY <1>6, <1>7, <1>8, <1>9, CapAssumption DEF CapAccounted
<1>11. revived' \subseteq Running'
  BY <1>2 DEF CapInv
<1>. QED BY <1>10, <1>11

\* Nothing runs before the process has started.
LEMMA CapInit == Init => CapInv
<1>. SUFFICES ASSUME Init PROVE CapInv
  OBVIOUS
<1>1. Running = {}
  BY InitialAssumption DEF Init, Running, RowsWith
<1>2. CapAccounted
  BY <1>1, FS_EmptySet, CapAssumption DEF CapAccounted, Init
<1>. QED BY <1>2, TypeInit DEF CapInv, Init

\* The invariant behind the cap is inductive: the claim takes only free slots.
LEMMA CapStep == CapInv /\ [Next]_vars => CapInv'
<1>. SUFFICES ASSUME CapInv, [Next]_vars PROVE CapInv'
  OBVIOUS
<1>1. TypeOK'
  BY TypeStep DEF CapInv
<1>2. CASE Tame
  BY <1>1, <1>2, TameCap DEF CapInv, Tame
<1>3. CASE ClaimQueued
  <2>1. CASE UNCHANGED status
    BY <1>2, <1>3, <2>1, SameStatusTame DEF ClaimQueued, CapInv
  <2>2. CASE Claim(Minimum(Limit, AtLeastZero(MaxRunning - fetchRunningCount)))
    <3>1. Minimum(Limit, AtLeastZero(MaxRunning - fetchRunningCount)) \in Int
      BY CapAssumption DEF Minimum, AtLeastZero, fetchRunningCount
    <3>. QED BY <1>1, <1>3, <2>2, <3>1, ClaimCap DEF ClaimQueued, CapInv
  <2>. QED BY <1>3, <2>1, <2>2 DEF ClaimQueued
<1>4. CASE Next /\ ~ClaimQueued
  <2>1. Tame
    BY <1>4, DispatchTame, TaskTame, RequestTame, OtherTame DEF Next
  <2>. QED BY <1>2, <2>1
<1>5. CASE UNCHANGED vars
  BY <1>2, <1>5, SameStatusTame DEF vars, CapInv
<1>. QED BY <1>3, <1>4, <1>5

\* For every number of rows, tasks and requests and every cap: the rows that are
\* running because of a claim never exceed MAX_CONCURRENT_RUNNING_RUNS.
THEOREM CapHolds == Spec => []CapAccounted
<1>1. CapInv => CapAccounted
  BY DEF CapInv
<1>. QED BY CapInit, CapStep, <1>1, PTL DEF Spec

-----------------------------------------------------------------------------
(* Settled runs stay settled *)

\* A statement on row j changes no other row's status.
LEMMA StatementLocal ==
  ASSUME TypeOK, NEW i \in Items
  PROVE  /\ \A j \in Items : \A s, q : j # i /\ upsertAgenticRun(j, s, q) => status'[i] = status[i]
         /\ \A j \in Items : \A s, a :
              j # i /\ updateAgenticRunStatus(j, s, a) => status'[i] = status[i]
         /\ \A j \in Items : \A s : j # i /\ updateAgenticReview(j, s) => status'[i] = status[i]
         /\ \A u : u.item \in Items /\ u.item # i /\ updateQueuedAgenticRunQueueState(u)
              => status'[i] = status[i]
<1>1. \A j \in Items : \A s, a : j # i /\ SetRow(j, s, a) => status'[i] = status[i]
  BY DEF SetRow, TypeOK
<1>. QED BY <1>1 DEF upsertAgenticRun, updateAgenticRunStatus, updateAgenticReview,
                     updateQueuedAgenticRunQueueState

\* What a step must do to a settled row nothing is pending for.
KeepsSettled(i) ==
  status[i] \in Settled /\ NothingPending(i) /\ status'[i] # status[i] => OperatorWrites(i)

\* The dispatcher claims queued and notStarted rows only, never a settled one.
LEMMA DispatchKeeps ==
  ASSUME TypeOK, NEW i \in Items, DispatchStep PROVE KeepsSettled(i)
<1>. SUFFICES ASSUME status[i] \in Settled, NothingPending(i) PROVE status'[i] = status[i]
  BY DEF KeepsSettled
<1>1. \A r \in held : r.item \in Items /\ r.item # i
  BY DEF TypeOK, HeldRows, NothingPending
<1>2. CASE Tick \/ SelectOverCap \/ ScheduleClaimed
  BY <1>2 DEF Tick, SelectOverCap, ScheduleClaimed, rows
<1>3. CASE RecoverStale
  BY <1>1, <1>3, StatementLocal DEF RecoverStale
<1>4. CASE RequeueOverCap
  BY <1>1, <1>4, StatementLocal DEF RequeueOverCap
<1>5. CASE ClaimQueued
  <2>1. ASSUME NEW n, Claim(n) PROVE status'[i] = status[i]
    BY <2>1 DEF Claim, Queued, RowsWith, Settled
  <2>. QED BY <1>5, <2>1 DEF ClaimQueued
<1>6. CASE FeedWaiting
  <2>1. ASSUME NEW n, ClaimNotStarted(n) PROVE status'[i] = status[i]
    BY <2>1 DEF ClaimNotStarted, RowsWith, Settled
  <2>. QED BY <1>6, <2>1 DEF FeedWaiting
<1>7. CASE ListAuditCandidates \/ StampCandidates
  BY <1>7 DEF ListAuditCandidates, StampCandidates, rows
<1>8. CASE ReworkCandidate
  BY <1>1, <1>8, StatementLocal DEF ReworkCandidate
<1>. QED BY <1>2, <1>3, <1>4, <1>5, <1>6, <1>7, <1>8 DEF DispatchStep

\* A task changes the row it is about only.
LEMMA TaskKeeps ==
  ASSUME TypeOK, NEW i \in Items, NEW t \in Tasks,
         TaskStep(t) \/ NotificationFails(t) \/ TaskFault(t)
  PROVE  KeepsSettled(i)
<1>. SUFFICES ASSUME NothingPending(i) PROVE status'[i] = status[i]
  BY DEF KeepsSettled
<1>1. ASSUME task[t].pc \in {"promoting", "invoking", "failing"}
      PROVE  task[t].item \in Items /\ task[t].item # i
  BY <1>1, BusyTask DEF TypeOK, NothingPending
<1>2. CASE PromotionRead(t) \/ NotificationSucceeds(t) \/ InvocationFails(t)
             \/ NotificationFails(t) \/ TaskFault(t)
  BY <1>2
     DEF PromotionRead, NotificationSucceeds, InvocationFails, NotificationFails, TaskFault, rows
<1>3. CASE PromotionWrite(t)
  BY <1>1, <1>3, StatementLocal DEF PromotionWrite
<1>4. CASE RecordResult(t)
  BY <1>1, <1>4, StatementLocal DEF RecordResult
<1>5. CASE AutoCancelAfterFailure(t)
  BY <1>1, <1>5, StatementLocal DEF AutoCancelAfterFailure
<1>. QED BY <1>2, <1>3, <1>4, <1>5 DEF TaskStep

\* A request changes the row it is about only.
LEMMA RequestKeeps ==
  ASSUME TypeOK, NEW i \in Items, NEW h \in Handlers,
         ReadRow(h) \/ RequestWrite(h) \/ RequestFault(h)
  PROVE  KeepsSettled(i)
<1>1. CASE ReadRow(h) \/ RequestFault(h)
  BY <1>1 DEF ReadRow, RequestFault, rows, KeepsSettled
<1>2. CASE RequestWrite(h)
  <2>1. req[h].op # "none" /\ req[h].op # req'[h].op
    <3>1. Answer(h) => req'[h].op = "none"
      BY DEF Answer, NoRequest, TypeOK
    <3>2. CASE Review(h)
      <4>1. CASE Answer(h)
        BY <3>1, <3>2, <4>1 DEF Review
      <4>2. CASE req' = [req EXCEPT ![h].op = "clear"]
        <5>1. req[h] \in [op : Operations \cup {"clear"}, item : Items,
                          seen : Statuses, att : Attempts]
          BY <3>2 DEF Review, TypeOK, RequestStates, NoRequest
        <5>2. req'[h].op = "clear"
          BY <4>2, <5>1 DEF TypeOK
        <5>. QED BY <3>2, <5>2 DEF Review
      <4>. QED BY <3>2, <4>1, <4>2 DEF Review
    <3>3. CASE ~Review(h)
      BY <1>2, <3>1, <3>3
         DEF RequestWrite, SeedRun, startAgenticRun, restartAgenticRun, BulkQueue,
             BulkRestartFailed, cancelAgenticRun, ClearAfterRejection, TriggerFailed,
             removeAgenticSearchLink
    <3>. QED BY <3>2, <3>3
  <2>2. CASE req[h].item = i
    BY <2>1, <2>2 DEF KeepsSettled, OperatorWrites
  <2>3. CASE req[h].item # i
    <3>1. req[h].item \in Items
      BY <2>1, BusyRequest DEF TypeOK
    <3>2. status'[i] = status[i]
      BY <1>2, <2>3, <3>1, StatementLocal
         DEF RequestWrite, SeedRun, startAgenticRun, restartAgenticRun, BulkQueue,
             BulkRestartFailed, cancelAgenticRun, Review, ClearAfterRejection,
             TriggerFailed, removeAgenticSearchLink
    <3>. QED BY <3>2 DEF KeepsSettled
  <2>. QED BY <2>2, <2>3
<1>. QED BY <1>1, <1>2

\* Late updates and startup resume change the rows they are about only.
LEMMA OtherKeeps ==
  ASSUME TypeOK, NEW i \in Items,
         DispatchFault \/ LandLateUpdate \/ ResumeStep \/ Crash \/ (\E j \in Items : Age(j))
  PROVE  KeepsSettled(i)
<1>1. CASE LandLateUpdate
  <2>. SUFFICES ASSUME NothingPending(i) PROVE status'[i] = status[i]
    BY DEF KeepsSettled
  <2>1. \A u \in late : u.item \in Items /\ u.item # i
    BY DEF TypeOK, LateUpdates, NothingPending
  <2>. QED BY <1>1, <2>1, StatementLocal DEF LandLateUpdate
<1>2. CASE DispatchFault \/ ResumeStep \/ Crash \/ (\E j \in Items : Age(j))
  BY <1>2 DEF DispatchFault, ResumeStep, ListStale, ResumeOne, Crash, Age, rows, KeepsSettled
<1>. QED BY <1>1, <1>2

\* For every instance: once nothing started earlier is pending for a settled run,
\* only an operator's write changes its status.
THEOREM SettledStays == Spec => SettledDurable
<1>1. TypeOK /\ [Next]_vars
        => [\A i \in Items :
              status[i] \in Settled /\ NothingPending(i) /\ status'[i] # status[i]
                => OperatorWrites(i)]_vars
  <2>. SUFFICES ASSUME TypeOK, Next, NEW i \in Items PROVE KeepsSettled(i)
    BY DEF KeepsSettled
  <2>. QED BY DispatchKeeps, TaskKeeps, RequestKeeps, OtherKeeps DEF Next
<1>. QED BY <1>1, TypeCorrect, PTL DEF Spec, SettledDurable

-----------------------------------------------------------------------------
(* A running row has somebody who moves it on *)

RunsOn(i) == status[i] = "running" /\ query[i]

\* An owner whose next write about the row takes it out of running, or hands it on:
\* not a task that stored its result and has only the notification left, and of the
\* rows in the tick's hands the stale and the over-cap ones, and the claimed ones that
\* will be scheduled.
Mover(i) ==
  \/ \E t \in Tasks : task[t].item = i /\ task[t].pc # "recorded"
  \/ disp \in {"recover", "requeue"} /\ \E r \in held : r.item = i
  \/ disp \in Scheduling /\ \E r \in held : r.item = i /\ r.query
  \/ i \in resuming
  \/ ~booted

OwnInv ==
  /\ TypeOK
  /\ \A h \in Handlers : req[h].op \notin {"seed", "unlink"}
  /\ faults = MaxFaults => \A i \in Items : RunsOn(i) => Mover(i)

\* A statement that does not write running makes no row run on, and the row it is
\* about runs on only if the statement leaves its status.
LEMMA StatementEnds ==
  ASSUME TypeOK, NEW i \in Items, NEW j \in Items, RunsOn(i)'
  PROVE  /\ \A s, q : s # "running" /\ upsertAgenticRun(j, s, q) => RunsOn(i) /\ i # j
         /\ \A s, a : s \notin {"running", "null"} /\ updateAgenticRunStatus(j, s, a)
              /\ (i # j => query'[i] = query[i]) => RunsOn(i) /\ i # j
         /\ \A a : updateAgenticRunStatus(j, "null", a) /\ UNCHANGED query => RunsOn(i)
         /\ \A s : s # "running" /\ updateAgenticReview(j, s) /\ UNCHANGED query => RunsOn(i)
         /\ \A u : u.item = j /\ u.to # "running" /\ updateQueuedAgenticRunQueueState(u)
              /\ UNCHANGED query => RunsOn(i) /\ (u.to # "keep" => i # j)
<1>. DEFINE Written(s) == status' = [status EXCEPT ![j] = s]
<1>1. \A s, a : SetRow(j, s, a) => Written(s)
  BY DEF SetRow
<1>2. \A s : Written(s) => status'[j] = s /\ (i # j => status'[i] = status[i])
  BY DEF TypeOK
<1>. HIDE DEF Written
<1>3. ASSUME NEW s, NEW q, s # "running", upsertAgenticRun(j, s, q) PROVE RunsOn(i) /\ i # j
  <2>1. i # j => query'[i] = query[i]
    BY <1>3 DEF upsertAgenticRun, TypeOK
  <2>. QED BY <1>1, <1>2, <1>3, <2>1 DEF upsertAgenticRun, RunsOn
<1>4. ASSUME NEW s, NEW a, s \notin {"running", "null"}, updateAgenticRunStatus(j, s, a),
             i # j => query'[i] = query[i]
      PROVE  RunsOn(i) /\ i # j
  BY <1>1, <1>2, <1>4 DEF updateAgenticRunStatus, RunsOn
<1>5. ASSUME NEW a, updateAgenticRunStatus(j, "null", a), UNCHANGED query PROVE RunsOn(i)
  BY <1>5 DEF updateAgenticRunStatus, RunsOn
<1>6. ASSUME NEW s, s # "running", updateAgenticReview(j, s), UNCHANGED query PROVE RunsOn(i)
  BY <1>1, <1>2, <1>6 DEF updateAgenticReview, RunsOn
<1>7. ASSUME NEW u, u.item = j, u.to # "running", updateQueuedAgenticRunQueueState(u),
             UNCHANGED query
      PROVE  RunsOn(i) /\ (u.to # "keep" => i # j)
  BY <1>1, <1>2, <1>7 DEF updateQueuedAgenticRunQueueState, RunsOn
<1>. QED BY <1>3, <1>4, <1>5, <1>6, <1>7

\* The tick hands a row on, or ends its run, before it lets go of it.
LEMMA DispatchOwned ==
  ASSUME TypeOK, NEW i \in Items, RunsOn(i) => Mover(i), DispatchStep, RunsOn(i)'
  PROVE  Mover(i)'
<1>1. \A r \in held : r.item \in Items
  BY DEF TypeOK, HeldRows
<1>2. CASE Tick \/ SelectOverCap \/ ListAuditCandidates \/ StampCandidates
  <2>1. RunsOn(i) /\ UNCHANGED <<task, resuming, booted>>
    BY <1>2 DEF Tick, SelectOverCap, ListAuditCandidates, StampCandidates, rows, RunsOn
  <2>2. ~(disp \in {"recover", "requeue"} /\ \E r \in held : r.item = i)
        /\ ~(disp \in Scheduling /\ \E r \in held : r.item = i /\ r.query)
    BY <1>2 DEF Tick, SelectOverCap, ListAuditCandidates, StampCandidates, Scheduling
  <2>. QED BY <2>1, <2>2 DEF Mover
<1>3. CASE RecoverStale \/ RequeueOverCap
  <2>1. PICK r \in held, to \in {"failed", "queued"} :
          /\ updateQueuedAgenticRunQueueState([item |-> r.item, to |-> to, att |-> LateAttempt(r.att)])
          /\ held' = held \ {r}
    BY <1>3 DEF RecoverStale, RequeueOverCap
  <2>2. UNCHANGED <<query, task, disp, resuming, booted>> /\ disp \in {"recover", "requeue"}
    BY <1>3 DEF RecoverStale, RequeueOverCap
  <2>. DEFINE u == [item |-> r.item, to |-> to, att |-> LateAttempt(r.att)]
  <2>3. u.item = r.item /\ u.to = to
    OBVIOUS
  <2>4. updateQueuedAgenticRunQueueState(u)
    BY <2>1
  <2>. HIDE DEF u
  <2>5. RunsOn(i) /\ i # r.item
    BY <1>1, <2>2, <2>3, <2>4, StatementEnds
  <2>. QED BY <2>1, <2>2, <2>5 DEF Mover, Scheduling
<1>4. CASE ClaimQueued
  <2>1. UNCHANGED <<query, task, resuming, booted>> /\ held = {} /\ disp = "requeue"
        /\ disp' = "schedule"
    BY <1>4 DEF ClaimQueued
  <2>2. CASE UNCHANGED status
    BY <2>1, <2>2 DEF Mover, RunsOn, Scheduling
  <2>3. ASSUME NEW n, Claim(n) PROVE Mover(i)'
    <3>1. PICK S \in SUBSET Queued :
            /\ status' = [j \in Items |-> IF j \in S THEN "running" ELSE status[j]]
            /\ held' = {[item |-> j, att |-> "fresh", query |-> query[j]] : j \in S}
      BY <2>3 DEF Claim
    <3>2. CASE i \in S
      <4>1. [item |-> i, att |-> "fresh", query |-> query[i]] \in held'
        BY <3>1, <3>2
      <4>. QED BY <2>1, <4>1 DEF Mover, RunsOn, Scheduling
    <3>3. CASE i \notin S
      BY <2>1, <3>1, <3>3 DEF Mover, RunsOn, Scheduling
    <3>. QED BY <3>2, <3>3
  <2>. QED BY <1>4, <2>2, <2>3 DEF ClaimQueued
<1>5. CASE ScheduleClaimed
  <2>1. PICK r \in held :
          /\ held' = held \ {r}
          /\ disp' = IF r.query THEN "scheduled" ELSE disp
          /\ r.query => Spawn(r.item)
          /\ ~r.query => UNCHANGED task
    BY <1>5 DEF ScheduleClaimed
  <2>2. UNCHANGED <<status, query, resuming, booted>> /\ disp \in Scheduling /\ disp' \in Scheduling
    BY <1>5, <2>1 DEF ScheduleClaimed, rows, Scheduling
  <2>3. CASE ~r.query
    BY <2>1, <2>2, <2>3 DEF Mover, RunsOn, Scheduling
  <2>4. CASE r.query
    <3>1. PICK t \in Tasks : task[t] = IdleTask
                             /\ task' = [task EXCEPT ![t] = [pc |-> "scheduled", item |-> r.item]]
      BY <2>1, <2>4 DEF Spawn
    <3>2. task'[t].item = r.item /\ task'[t].pc = "scheduled"
          /\ \A k \in Tasks : k # t => task'[k] = task[k]
      BY <3>1 DEF TypeOK
    <3>3. task[t].item # i
      BY <3>1, ItemsAssumption DEF IdleTask
    <3>. QED BY <2>1, <2>2, <3>2, <3>3 DEF Mover, RunsOn, Scheduling
  <2>. QED BY <2>3, <2>4
<1>6. CASE FeedWaiting
  <2>1. UNCHANGED <<query, task, resuming, booted, held>> /\ held = {}
    BY <1>6 DEF FeedWaiting
  <2>2. status'[i] = status[i]
    <3>1. ASSUME NEW n, ClaimNotStarted(n) PROVE status'[i] = status[i]
      BY <3>1 DEF ClaimNotStarted, RunsOn, TypeOK
    <3>. QED BY <1>6, <3>1 DEF FeedWaiting
  <2>. QED BY <2>1, <2>2 DEF Mover, RunsOn
<1>7. CASE ReworkCandidate
  <2>1. PICK r \in held :
          /\ updateAgenticRunStatus(r.item, "queued", "none")
          /\ query' = [query EXCEPT ![r.item] = @ \/ status[r.item] # "absent"]
    BY <1>7 DEF ReworkCandidate
  <2>2. i # r.item => query'[i] = query[i]
    BY <1>1, <2>1 DEF TypeOK
  <2>3. RunsOn(i)
    BY <1>1, <2>1, <2>2, StatementEnds
  <2>. QED BY <1>7, <2>3 DEF ReworkCandidate, Mover, Scheduling
<1>. QED BY <1>2, <1>3, <1>4, <1>5, <1>6, <1>7 DEF DispatchStep

\* What a task leaves does not run on, unless it has another owner.
LEMMA TaskOwned ==
  ASSUME TypeOK, NEW i \in Items, RunsOn(i) => Mover(i), NEW t \in Tasks, TaskStep(t), RunsOn(i)'
  PROVE  Mover(i)'
<1>. USE DEF Mover
<1>a. \A pc : Advance(t, pc) => /\ task'[t].item = task[t].item /\ task'[t].pc = pc
                                /\ \A k \in Tasks : k # t => task'[k] = task[k]
  BY DEF Advance, TypeOK
<1>f. Finish(t) => \A k \in Tasks : k # t => task'[k] = task[k]
  BY DEF Finish, TypeOK
<1>1. CASE PromotionRead(t)
  <2>1. RunsOn(i) /\ UNCHANGED <<status, query, disp, held, resuming, booted>>
    BY <1>1 DEF PromotionRead, rows, RunsOn
  <2>2. CASE task[t].item = i
    BY <1>1, <1>a, <2>1, <2>2 DEF PromotionRead, RunsOn
  <2>3. CASE task[t].item # i
    BY <1>1, <1>a, <1>f, <2>1, <2>3 DEF PromotionRead
  <2>. QED BY <2>2, <2>3
<1>2. CASE PromotionWrite(t)
  <2>1. task[t].item \in Items
    BY <1>2, BusyTask DEF PromotionWrite, TypeOK
  <2>2. UNCHANGED <<query, disp, held, resuming, booted>>
    BY <1>2 DEF PromotionWrite
  <2>3. CASE task[t].item = i
    <3>1. status[i] # "absent"
      BY <1>2, <2>3 DEF PromotionWrite, updateAgenticRunStatus, RunsOn
    <3>. QED BY <1>2, <1>a, <2>3, <3>1 DEF PromotionWrite
  <2>4. CASE task[t].item # i
    <3>1. status'[i] = status[i]
      BY <1>2, <2>1, <2>4, StatementLocal DEF PromotionWrite
    <3>2. Mover(i)
      BY <2>2, <3>1 DEF RunsOn
    <3>. QED BY <1>2, <1>a, <1>f, <2>2, <2>4, <3>2 DEF PromotionWrite
  <2>. QED BY <2>3, <2>4
<1>3. CASE RecordResult(t)
  <2>1. PICK o \in Outcomes : upsertAgenticRun(task[t].item, o, TRUE)
    BY <1>3 DEF RecordResult
  <2>2. RunsOn(i) /\ i # task[t].item
    BY <1>3, <2>1, StatementEnds, BusyTask, OutcomesAssumption DEF RecordResult, TypeOK
  <2>. QED BY <1>3, <1>a, <2>2 DEF RecordResult
<1>4. CASE NotificationSucceeds(t)
  <2>1. RunsOn(i) /\ task[t].pc = "recorded" /\ UNCHANGED <<disp, held, resuming, booted>>
    BY <1>4 DEF NotificationSucceeds, rows, RunsOn
  <2>. QED BY <1>4, <1>f, <2>1 DEF NotificationSucceeds
<1>5. CASE InvocationFails(t)
  <2>1. RunsOn(i) /\ UNCHANGED <<disp, held, resuming, booted>>
    BY <1>5 DEF InvocationFails, rows, RunsOn
  <2>. QED BY <1>5, <1>a, <2>1 DEF InvocationFails
<1>6. CASE AutoCancelAfterFailure(t)
  <2>1. RunsOn(i) /\ i # task[t].item
    BY <1>6, StatementEnds, BusyTask DEF AutoCancelAfterFailure, TypeOK
  <2>. QED BY <1>6, <1>f, <2>1 DEF AutoCancelAfterFailure
<1>. QED BY <1>1, <1>2, <1>3, <1>4, <1>5, <1>6 DEF TaskStep

\* Requests other than a seed and the removal of a search link never write running.
LEMMA RequestOwned ==
  ASSUME TypeOK, NEW i \in Items, RunsOn(i) => Mover(i), NEW h \in Handlers,
         req[h].op \notin {"seed", "unlink"}, ReadRow(h) \/ RequestWrite(h), RunsOn(i)'
  PROVE  Mover(i)'
<1>1. ASSUME req[h].op # "none" PROVE req[h].item \in Items
  BY <1>1, BusyRequest DEF TypeOK
<1>2. UNCHANGED <<task, disp, held, resuming, booted>>
  BY DEF ReadRow, RequestWrite, SeedRun, startAgenticRun, restartAgenticRun, BulkQueue,
         BulkRestartFailed, cancelAgenticRun, Review, ClearAfterRejection, TriggerFailed,
         removeAgenticSearchLink, RequestFrame
<1>3. RunsOn(i)
  <2>1. CASE ReadRow(h)
    BY <2>1 DEF ReadRow, rows, RunsOn
  <2>2. CASE startAgenticRun(h) \/ restartAgenticRun(h) \/ BulkQueue(h) \/ BulkRestartFailed(h)
    BY <1>1, <2>2, StatementEnds 
       DEF startAgenticRun, restartAgenticRun, BulkQueue, BulkRestartFailed
  <2>3. CASE cancelAgenticRun(h) \/ ClearAfterRejection(h) \/ TriggerFailed(h)
    BY <1>1, <2>3, StatementEnds DEF cancelAgenticRun, ClearAfterRejection, TriggerFailed
  <2>4. CASE Review(h)
    BY <1>1, <2>4, StatementEnds DEF Review
  <2>. QED BY <2>1, <2>2, <2>3, <2>4 DEF RequestWrite, SeedRun, removeAgenticSearchLink
<1>. QED BY <1>2, <1>3 DEF Mover

\* No late update writes the status running, the resume hands its rows to tasks, and a
\* new process starts with a resume.
LEMMA OtherOwned ==
  ASSUME TypeOK, NEW i \in Items, RunsOn(i) => Mover(i),
         LandLateUpdate \/ ResumeStep \/ Crash \/ (\E j \in Items : Age(j)), RunsOn(i)'
  PROVE  Mover(i)'
<1>1. CASE LandLateUpdate
  <2>1. PICK u \in late : updateQueuedAgenticRunQueueState(u)
    BY <1>1 DEF LandLateUpdate
  <2>2. u.item \in Items /\ u.to # "running"
    BY DEF TypeOK, LateUpdates
  <2>3. RunsOn(i)
    BY <1>1, <2>1, <2>2, StatementEnds DEF LandLateUpdate
  <2>. QED BY <1>1, <2>3 DEF LandLateUpdate, Mover
<1>2. CASE ListStale
  <2>1. RunsOn(i)
    BY <1>2 DEF ListStale, rows, RunsOn
  <2>2. i \in resuming'
    BY <1>2, <2>1 DEF ListStale, RunsOn, Running, RowsWith
  <2>. QED BY <2>2 DEF Mover
<1>3. CASE ResumeOne
  <2>1. PICK j \in resuming : Spawn(j) /\ resuming' = resuming \ {j}
    BY <1>3 DEF ResumeOne
  <2>2. RunsOn(i) /\ UNCHANGED <<disp, held, booted>>
    BY <1>3 DEF ResumeOne, rows, RunsOn
  <2>3. PICK t \in Tasks : task[t] = IdleTask
                           /\ task' = [task EXCEPT ![t] = [pc |-> "scheduled", item |-> j]]
    BY <2>1 DEF Spawn
  <2>4. task'[t].item = j /\ task'[t].pc = "scheduled"
        /\ \A k \in Tasks : k # t => task'[k] = task[k]
    BY <2>3 DEF TypeOK
  <2>5. task[t].item # i
    BY <2>3, ItemsAssumption DEF IdleTask
  <2>. QED BY <2>1, <2>2, <2>4, <2>5 DEF Mover
<1>4. CASE Crash
  BY <1>4 DEF Crash, Mover
<1>5. CASE \E j \in Items : Age(j)
  BY <1>5 DEF Age, Mover, RunsOn
<1>. QED BY <1>1, <1>2, <1>3, <1>4, <1>5 DEF ResumeStep

LEMMA OwnInit == Init => OwnInv
BY TypeInit DEF Init, OwnInv, NoRequest, Mover

\* Neither request is ever in flight when none is issued.
LEMMA NotIssued ==
  ASSUME {"seed", "unlink"} \cap Requests = {}, TypeOK, [Next]_vars,
         \A h \in Handlers : req[h].op \notin {"seed", "unlink"}
  PROVE  \A h \in Handlers : req'[h].op \notin {"seed", "unlink"}
<1>1. CASE UNCHANGED req
  BY <1>1
<1>2. ASSUME NEW h \in Handlers, ReadRow(h) PROVE req'[h].op \in Requests
  <2>1. \E op \in Requests : \E i \in Items : \E seen, att :
          req' = [req EXCEPT ![h] = [op |-> op, item |-> i, seen |-> seen, att |-> att]]
    BY <1>2 DEF ReadRow
  <2>. QED BY <2>1 DEF TypeOK
<1>3. ASSUME NEW h \in Handlers, RequestWrite(h) \/ RequestFault(h)
      PROVE  req'[h].op \in {"none", "clear"}
  <2>1. CASE Answer(h)
    BY <2>1 DEF Answer, NoRequest, TypeOK
  <2>2. CASE Review(h) /\ req' = [req EXCEPT ![h].op = "clear"]
    <3>1. req[h] \in [op : Operations \cup {"clear"}, item : Items, seen : Statuses, att : Attempts]
      BY <2>2 DEF Review, TypeOK, RequestStates, NoRequest
    <3>. QED BY <2>2, <3>1 DEF TypeOK
  <2>. QED BY <1>3, <2>1, <2>2
         DEF RequestWrite, SeedRun, startAgenticRun, restartAgenticRun, BulkQueue,
             BulkRestartFailed, cancelAgenticRun, Review, ClearAfterRejection, TriggerFailed,
             removeAgenticSearchLink, RequestFault
<1>4. ASSUME NEW h \in Handlers, ReadRow(h) \/ RequestWrite(h) \/ RequestFault(h)
      PROVE  \A k \in Handlers : k # h => req'[k] = req[k]
  BY <1>4 DEF ReadRow, RequestWrite, SeedRun, startAgenticRun, restartAgenticRun, BulkQueue,
             BulkRestartFailed, cancelAgenticRun, Review, ClearAfterRejection, TriggerFailed,
             removeAgenticSearchLink, RequestFault, Answer, TypeOK
<1>5. CASE Crash
  BY <1>5 DEF Crash, NoRequest
<1>6. CASE \E h \in Handlers : ReadRow(h) \/ RequestWrite(h) \/ RequestFault(h)
  BY <1>2, <1>3, <1>4, <1>6
<1>. QED BY <1>1, <1>5, <1>6
     DEF Next, vars, DispatchStep, Tick, RecoverStale, SelectOverCap, RequeueOverCap, ClaimQueued,
         ScheduleClaimed, FeedWaiting, ListAuditCandidates, ReworkCandidate, StampCandidates,
         DispatchFault, TaskStep, PromotionRead, PromotionWrite, RecordResult,
         NotificationSucceeds, InvocationFails, AutoCancelAfterFailure, NotificationFails,
         TaskFault, LandLateUpdate, ResumeStep, ListStale, ResumeOne, Age

LEMMA OwnStep ==
  ASSUME {"seed", "unlink"} \cap Requests = {}
  PROVE  OwnInv /\ [Next]_vars => OwnInv'
<1>. SUFFICES ASSUME OwnInv, [Next]_vars PROVE OwnInv'
  OBVIOUS
<1>1. TypeOK' /\ \A h \in Handlers : req'[h].op \notin {"seed", "unlink"}
  BY TypeStep, NotIssued DEF OwnInv
<1>2. SUFFICES ASSUME faults' = MaxFaults, NEW i \in Items, RunsOn(i)' PROVE Mover(i)'
  BY <1>1 DEF OwnInv
<1>3. /\ ~DispatchFault
      /\ \A t \in Tasks : ~NotificationFails(t) /\ ~TaskFault(t)
      /\ \A h \in Handlers : ~RequestFault(h)
  BY <1>2, BoundsAssumption
     DEF DispatchFault, NotificationFails, TaskFault, RequestFault, OwnInv, TypeOK
<1>4. CASE UNCHANGED vars
  BY <1>2, <1>4 DEF vars, OwnInv, RunsOn, Mover
<1>. SUFFICES ASSUME Next PROVE Mover(i)'
  BY <1>4
<1>5. DispatchStep \/ (\E t \in Tasks : TaskStep(t)) \/ LandLateUpdate
      \/ (\E h \in Handlers : ReadRow(h) \/ RequestWrite(h)) \/ ResumeStep \/ Crash
      \/ (\E j \in Items : Age(j))
  <2>1. CASE \E t \in Tasks : TaskStep(t) \/ NotificationFails(t) \/ TaskFault(t)
    BY <1>3, <2>1
  <2>2. CASE \E h \in Handlers : ReadRow(h) \/ RequestWrite(h) \/ RequestFault(h)
    BY <1>3, <2>2
  <2>. QED BY <1>3, <2>1, <2>2 DEF Next
<1>6. faults' = faults
  <2>1. CASE DispatchStep
    BY <2>1 DEF DispatchStep, Tick, RecoverStale, SelectOverCap, RequeueOverCap, ClaimQueued,
         ScheduleClaimed, FeedWaiting, ListAuditCandidates, ReworkCandidate, StampCandidates
  <2>2. CASE \E t \in Tasks : TaskStep(t)
    BY <2>2 DEF TaskStep, PromotionRead, PromotionWrite, RecordResult,
         NotificationSucceeds, InvocationFails, AutoCancelAfterFailure
  <2>3. CASE \E h \in Handlers : ReadRow(h) \/ RequestWrite(h)
    BY <2>3 DEF ReadRow, RequestWrite, SeedRun, startAgenticRun, restartAgenticRun, BulkQueue,
         BulkRestartFailed, cancelAgenticRun, Review, ClearAfterRejection, TriggerFailed,
         removeAgenticSearchLink, RequestFrame
  <2>4. CASE LandLateUpdate \/ ResumeStep \/ Crash \/ (\E j \in Items : Age(j))
    BY <2>4 DEF LandLateUpdate, ResumeStep, ListStale, ResumeOne, Crash, Age
  <2>. QED BY <1>5, <2>1, <2>2, <2>3, <2>4
<1>7. TypeOK /\ (RunsOn(i) => Mover(i))
      /\ \A h \in Handlers : req[h].op \notin {"seed", "unlink"}
  BY <1>2, <1>6 DEF OwnInv
<1>. QED BY <1>2, <1>5, <1>7, DispatchOwned, TaskOwned, RequestOwned, OtherOwned

\* Unless runs are seeded as running or a search link is removed, no restart, requeue,
\* second task or crash leaves a running row for nobody, as long as no statement fails.
THEOREM OwnersKept ==
  ASSUME {"seed", "unlink"} \cap Requests = {}
  PROVE  Spec => []RunningIsOwned
<1>1. OwnInv => RunningIsOwned
  BY DEF OwnInv, RunningIsOwned, RunsOn, Running, RowsWith, Mover, HasOwner
<1>. QED BY OwnInit, OwnStep, <1>1, PTL DEF Spec

================================================================================
