--------------------------------- MODULE Printing ---------------------------------
(***************************************************************************)
(* Labels: the label queue and its print worker, direct prints, and        *)
(* printFile with its attempts.                                            *)
(*                                                                         *)
(* runPrintWorker is started by an interval that does not wait for the     *)
(* last one, and it writes the outcome of a job without awaiting the       *)
(* write.  A page is what CUPS has accepted.                               *)
(***************************************************************************)
EXTENDS Naturals, FiniteSets

CONSTANTS
  Items,         \* the items with labels
  Count,         \* rows the label queue gets: 1..Count in the order of their Ids
  ItemOf,        \* the item of each row
  Workers,       \* runs of runPrintWorker under way together
  MaxAttempts,   \* PRINT_RETRY_ATTEMPTS
  MaxSlow,       \* bound: prints of a job that outlast its claim
  MaxFaults,     \* bound: ends of the server process
  NoJob

Jobs == 1..Count

ASSUME CountAssumption == Count \in Nat
ASSUME ItemAssumption == ItemOf \in [Jobs -> Items]
ASSUME BoundsAssumption ==
  /\ MaxAttempts \in Nat \ {0}
  /\ MaxSlow \in Nat /\ MaxFaults \in Nat
ASSUME NoJobAssumption == NoJob \notin Jobs

VARIABLES
  item,     \* items: with a reference, without one, or deleted
  status,   \* label_queue.Status
  claim,    \* label_queue.ClaimedAt: none, recent, or older than five minutes
  worker,   \* the runs of runPrintWorker
  writes,   \* outcomes sent to the database and not awaited
  direct,   \* a request POST /api/print/...
  pages,    \* pages of a job, or of the request, that CUPS accepted
  claims,   \* claims of a job so far
  doubts,   \* attempts of a job that ended without an answer from lp
  slow, faults

jobVars == <<status, claim, worker, writes, claims, slow>>
vars == <<item, jobVars, direct, pages, doubts, faults>>

Direct == 0    \* the request, where jobs have their Id

Idle == [at |-> "idle", job |-> NoJob, attempt |-> 0]
Ended == {"Done", "Error"}

-----------------------------------------------------------------------------
(* label_queue *)

\* queueLabel: an item without an Artikel_Nummer gets no row, a missing item does.
QueueLabel(j) ==
  /\ status[j] = "none" /\ \A k \in 1..(j - 1) : status[k] # "none"
  /\ item[ItemOf[j]] # "bare"
  /\ status' = [status EXCEPT ![j] = "Queued"]
  /\ UNCHANGED <<item, claim, worker, writes, claims, slow, direct,
                 pages, doubts, faults>>

\* recoverStaleLabelJobs, the first statement of runPrintWorker.
\* Wrong variant: the status of an old claim is not looked at.
OldClaims == {j \in Jobs : claim[j] = "old"}
Stale == {j \in Jobs : status[j] = "Processing" /\ claim[j] = "old"}

RecoverStaleLabelJobs(w) ==
  /\ worker[w] = Idle
  /\ status' = [j \in Jobs |-> IF j \in Stale THEN "Queued" ELSE status[j]]
  /\ claim' = [j \in Jobs |-> IF j \in Stale THEN "none" ELSE claim[j]]
  /\ worker' = [worker EXCEPT ![w].at = "claim"]
  /\ UNCHANGED <<item, writes, claims, slow, direct, pages, doubts, faults>>

\* The lowest Id that is Queued.
IsNext(j) == status[j] = "Queued" /\ \A k \in 1..(j - 1) : status[k] # "Queued"

ClaimNextLabelJob(w) ==
  /\ worker[w].at = "claim"
  /\ \/ /\ \A j \in Jobs : status[j] # "Queued"
        /\ worker' = [worker EXCEPT ![w] = Idle]
        /\ UNCHANGED <<status, claim, claims>>
     \/ \E j \in Jobs :
          /\ IsNext(j)
          /\ status' = [status EXCEPT ![j] = "Processing"]
          /\ claim' = [claim EXCEPT ![j] = "new"]
          /\ claims' = [claims EXCEPT ![j] = @ + 1]
          /\ worker' = [worker EXCEPT ![w] = [at |-> "load", job |-> j, attempt |-> 0]]
  /\ UNCHANGED <<item, writes, slow, direct, pages, doubts, faults>>

\* void updateLabelJobStatus(...): the run is over before the row is written.
FinishLater(w, outcome) ==
  /\ writes' = writes \cup {[job |-> worker[w].job, status |-> outcome]}
  /\ worker' = [worker EXCEPT ![w] = Idle]

\* updateLabelJobStatus writes whatever the row says by now.
UpdateLabelJobStatus(u) ==
  /\ u \in writes
  /\ writes' = writes \ {u}
  /\ status' = [status EXCEPT ![u.job] = u.status]
  /\ UNCHANGED <<item, claim, worker, claims, slow, direct, pages, doubts, faults>>

\* getItem, the HTML of the label, the printer queue.
LoadLabel(w) ==
  /\ worker[w].at = "load"
  /\ \/ /\ item[ItemOf[worker[w].job]] # "gone"
        /\ worker' = [worker EXCEPT ![w].at = "print", ![w].attempt = 1]
        /\ UNCHANGED <<status, writes>>
     \/ /\ item[ItemOf[worker[w].job]] = "gone"
        /\ status' = [status EXCEPT ![worker[w].job] = "Error"]
        /\ worker' = [worker EXCEPT ![w] = Idle]
        /\ UNCHANGED writes
     \/ /\ FinishLater(w, "Error")      \* a directory, a template or a read fails
        /\ UNCHANGED status
  /\ UNCHANGED <<item, claim, claims, slow, direct, pages, doubts, faults>>

-----------------------------------------------------------------------------
(* printFile: one call of lp, and what runWithRetry makes of its result *)

\* lp hands the page to CUPS and may still be killed at its timeout; the first
\* attempt of a file is preceded by its rendering.
Lp == [end : {"sent"}, page : {1}] \cup [end : {"timeout"}, page : {0, 1}]
        \cup [end : {"transient", "refused"}, page : {0}]

\* Wrong variant: a killed lp counts as a sent page.
TimeoutIsSent(result) == result.end \in {"sent", "timeout"}
IsSuccess(result) == result.end = "sent"

Retried(result, attempt) ==
  result.end \in {"timeout", "transient"} /\ attempt < MaxAttempts

\* Wrong variant: the loop is not left on success.
AfterAllAttempts(result, attempt) ==
  CASE attempt < MaxAttempts -> "again"
    [] IsSuccess(result)     -> "Done"
    [] OTHER                 -> "Error"
After(result, attempt) ==
  CASE IsSuccess(result)                              -> "Done"
    [] ~IsSuccess(result) /\ Retried(result, attempt) -> "again"
    [] OTHER                                          -> "Error"

Spool(id, result) ==
  /\ pages' = [pages EXCEPT ![id] = @ + result.page]
  /\ doubts' = IF result.end = "timeout" THEN [doubts EXCEPT ![id] = @ + 1] ELSE doubts

PrintJob(w) ==
  /\ worker[w].at = "print"
  /\ \E result \in Lp :
       /\ Spool(worker[w].job, result)
       /\ LET next == After(result, worker[w].attempt) IN
            \/ /\ next = "again"
               /\ worker' = [worker EXCEPT ![w].attempt = @ + 1]
               /\ UNCHANGED writes
            \/ next # "again" /\ FinishLater(w, next)
  /\ UNCHANGED <<item, status, claim, claims, slow, direct, faults>>

\* handleUnifiedPrintRequest: load, render, print, log a failure, answer.
RequestPrint ==
  /\ direct.at = "none"
  /\ \E i \in Items :
       direct' = IF item[i] = "gone" THEN [direct EXCEPT !.at = "rejected"]
                                     ELSE [direct EXCEPT !.at = "print", !.attempt = 1]
  /\ UNCHANGED <<item, jobVars, pages, doubts, faults>>

PreviewFails ==
  /\ direct.at = "print" /\ direct.attempt = 1 /\ pages[Direct] = 0 /\ doubts[Direct] = 0
  /\ direct' = [direct EXCEPT !.at = "rejected"]
  /\ UNCHANGED <<item, jobVars, pages, doubts, faults>>

PrintDirect ==
  /\ direct.at = "print"
  /\ \E result \in Lp :
       /\ Spool(Direct, result)
       /\ direct' = CASE After(result, direct.attempt) = "Done"  -> [direct EXCEPT !.at = "sent"]
                      [] After(result, direct.attempt) = "again" -> [direct EXCEPT !.attempt = @ + 1]
                      [] OTHER                                   -> [direct EXCEPT !.at = "failed"]
  /\ UNCHANGED <<item, jobVars, faults>>

\* PrintFailed is logged, as far as logEvent can, and then the answer goes out.
LogPrintFailed ==
  /\ direct.at = "failed"
  /\ \E kept \in BOOLEAN : direct' = [direct EXCEPT !.at = "unsent", !.event = kept]
  /\ UNCHANGED <<item, jobVars, pages, doubts, faults>>

-----------------------------------------------------------------------------
(* Time, other requests, and the end of the process *)

Held(j) == (\E w \in Workers : worker[w].job = j) \/ (\E u \in writes : u.job = j)

\* Five minutes pass: for a job nobody holds they always do.
ClaimAges(j) ==
  /\ status[j] = "Processing" /\ claim[j] = "new"
  /\ IF Held(j) THEN slow < MaxSlow /\ slow' = slow + 1 ELSE slow' = slow
  /\ claim' = [claim EXCEPT ![j] = "old"]
  /\ UNCHANGED <<item, status, worker, writes, claims, direct, pages, doubts, faults>>

\* delete-entity, or a reference given to a bare component.
ItemChanges(i) ==
  /\ item[i] # "gone"
  /\ item' = [item EXCEPT ![i] = IF @ = "bare" THEN "coded" ELSE "gone"]
  /\ UNCHANGED <<jobVars, direct, pages, doubts, faults>>

\* A rejected recovery, claim or unawaited write ends the process, as a kill
\* does; lp runs on and may deliver what it holds.
Crash ==
  /\ faults < MaxFaults
  /\ \E delivered \in [DOMAIN pages -> {0, 1}] :
       /\ \A j \in Jobs : delivered[j] = 1 =>
           \E w \in Workers : worker[w].at = "print" /\ worker[w].job = j
       /\ delivered[Direct] = 1 => direct.at = "print"
       /\ pages' = [id \in DOMAIN pages |-> pages[id] + delivered[id]]
       /\ doubts' = [id \in DOMAIN pages |-> doubts[id] + delivered[id]]
  /\ worker' = [w \in Workers |-> Idle]
  /\ writes' = {}
  /\ direct' = IF direct.at \in {"print", "failed"} THEN [direct EXCEPT !.at = "lost"] ELSE direct
  /\ faults' = faults + 1
  /\ UNCHANGED <<item, status, claim, claims, slow>>

-----------------------------------------------------------------------------

Init ==
  /\ item \in [Items -> {"coded", "bare"}]
  /\ status = [j \in Jobs |-> "none"]
  /\ claim = [j \in Jobs |-> "none"]
  /\ worker = [w \in Workers |-> Idle]
  /\ writes = {}
  /\ direct = [at |-> "none", attempt |-> 0, event |-> FALSE]
  /\ pages = [id \in Jobs \cup {Direct} |-> 0]
  /\ claims = [j \in Jobs |-> 0]
  /\ doubts = [id \in Jobs \cup {Direct} |-> 0]
  /\ slow = 0 /\ faults = 0

WorkerStep(w) ==
  RecoverStaleLabelJobs(w) \/ ClaimNextLabelJob(w) \/ LoadLabel(w) \/ PrintJob(w)

DirectStep == RequestPrint \/ PreviewFails \/ PrintDirect \/ LogPrintFailed

WriteStep == \E j \in Jobs : \E s \in Ended : UpdateLabelJobStatus([job |-> j, status |-> s])

Next ==
  \/ \E j \in Jobs : QueueLabel(j) \/ ClaimAges(j)
  \/ \E w \in Workers : WorkerStep(w)
  \/ WriteStep
  \/ DirectStep
  \/ \E i \in Items : ItemChanges(i)
  \/ Crash

Spec == Init /\ [][Next]_vars

\* The intervals fire, PostgreSQL answers, lp ends or is killed, and time passes.
Fairness ==
  /\ \A w \in Workers : WF_vars(WorkerStep(w))
  /\ WF_vars(WriteStep)
  /\ \A j \in Jobs : WF_vars(ClaimAges(j))

FairSpec == Spec /\ Fairness

-----------------------------------------------------------------------------
(* Properties *)

\* The variables stay in their sets.
TypeOK ==
  /\ item \in [Items -> {"coded", "bare", "gone"}]
  /\ status \in [Jobs -> {"none", "Queued", "Processing"} \cup Ended]
  /\ claim \in [Jobs -> {"none", "new", "old"}]
  /\ worker \in [Workers -> [at : {"idle", "claim", "load", "print"},
                             job : Jobs \cup {NoJob}, attempt : 0..MaxAttempts]]
  /\ writes \subseteq [job : Jobs, status : Ended]
  /\ direct \in [at : {"none", "rejected", "print", "sent", "failed", "unsent", "lost"},
                 attempt : 0..MaxAttempts, event : BOOLEAN]
  /\ pages \in [Jobs \cup {Direct} -> Nat] /\ doubts \in [Jobs \cup {Direct} -> Nat]
  /\ claims \in [Jobs -> Nat]
  /\ slow \in Nat /\ faults \in Nat

\* A job is called Done, and a request is told "sent", only when CUPS has had a
\* page of it: by whichever run of the worker, before whichever give-back.
DonePrinted ==
  /\ \A j \in Jobs : status[j] = "Done" => pages[j] > 0
  /\ \A u \in writes : u.status = "Done" => pages[u.job] > 0
  /\ direct.at = "sent" => pages[Direct] > 0

\* A label comes out twice only for a reason: each page belongs to a claim of its
\* own or to a call of lp that was cut off.
PagesExplained ==
  /\ \A j \in Jobs : pages[j] <= claims[j] + doubts[j]
  /\ pages[Direct] <= 1 + doubts[Direct]

\* The label queue implements the contract of a queue table.
Contract == INSTANCE JobContract WITH
  job <- [j \in Jobs |->
    CASE status[j] = "none"       -> "none"
      [] status[j] = "Queued"     -> "waiting"
      [] status[j] = "Processing" -> "held"
      [] status[j] \in Ended      -> "ended"]

\* Every row of label_queue is printed or given up in the end, and a row that has
\* ended is never taken again (updateLabelJobStatus, recoverStaleLabelJobs).
ImplementsContract == Contract!Spec
================================================================================
