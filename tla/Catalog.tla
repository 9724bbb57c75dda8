---------------------------------- MODULE Catalog ----------------------------------
(***************************************************************************)
(* One article reference (a row of item_refs) and everything that rewrites *)
(* it: the invocations of the agentic flow, the operator's save, the       *)
(* review with its edits, the restore of a snapshot; the snapshots taken   *)
(* before a run; and the ERP sync, which exports the reference when its    *)
(* run row is approved.                                                    *)
(*                                                                         *)
(* persistItemReference writes the whole row, so a writer that read it     *)
(* before writes back what it read.  The description (text) stands for the *)
(* columns a run produces; each new one has a number of its own, 0 being   *)
(* the imported one.                                                       *)
(***************************************************************************)
EXTENDS Naturals, Sequences, FiniteSets

CONSTANTS
  Invocations, \* 1..n: the invocations, in the order they are promoted
  Requests,    \* operators' requests that may be in flight at a time
  KeepRecent,  \* AGENTIC_SNAPSHOT_KEEP_RECENT
  MaxRequests  \* bound: requests made altogether

ASSUME InvocationsAssumption == Invocations \subseteq Nat \ {0}
ASSUME KeepAssumption == KeepRecent \in Nat \ {0}
ASSUME RequestsAssumption == MaxRequests \in Nat

VARIABLES
  text,      \* the description in item_refs
  marked,    \* LastSyncedAt is set
  row,       \* agentic_runs.ReviewState, and the invocation the row belongs to
  inv,       \* per invocation: where it is, what it loaded, what it made
  log,       \* every snapshot ever inserted: its text and captured review state
  kept,      \* positions in log that are still in agentic_run_snapshots
  op,        \* per request: what it still has to do, what it read
  requests,  \* requests made
  sync,      \* the ERP sync: idle, staged, marking
  erp,       \* what the ERP was given: the descriptions it took
  made,      \* descriptions made so far
  human,     \* of which an operator wrote or chose
  cleared,   \* descriptions that stood when the row became approved
  late       \* descriptions written, or given a decision, by an invocation the
             \* row no longer belongs to, and those written back over a newer one

reference == <<text, marked>>
snapshots == <<log, kept>>
erpState == <<sync, erp>>
origins == <<made, human, late>>
vars == <<reference, row, inv, snapshots, op, requests, erpState, origins, cleared>>

Nowhere == 0
Free == [todo |-> <<>>, read |-> Nowhere, from |-> Nowhere]
Waiting == [pc |-> "queued", loaded |-> 0, made |-> 0]
ReviewStates == {"not_required", "pending", "approved", "auto_approved", "rejected"}
Decided(review) == [review |-> review, owner |-> Nowhere]

\* resolveAgenticApproval: the review state decides.
Approved(r) == r.review \in {"approved", "auto_approved"}

\* persistItemReference with description t, by a writer that is late or not.
PersistItemReference(t, isLate) ==
  /\ text' = t
  /\ late' = IF isLate THEN late \union {t} ELSE late
  /\ UNCHANGED marked

-----------------------------------------------------------------------------
(* One invocation of the flow *)

Move(i, here, there) == inv[i].pc = here /\ inv' = [inv EXCEPT ![i].pc = there]

\* Starting the run leaves the old decision in place.
PromoteKeepingReview(i) ==
  /\ Move(i, "queued", "load")
  /\ row.owner = Nowhere
  /\ row' = [row EXCEPT !.owner = i]
  /\ UNCHANGED <<reference, snapshots, op, requests, erpState, origins, cleared>>

\* The write that starts the run forgets the review state.  An invocation of
\* the same article can still be at work: a review or a close took its row.
Promote(i) ==
  /\ Move(i, "queued", "load")
  /\ \A j \in Invocations : j < i => inv[j].pc # "queued"
  /\ row.owner = Nowhere
  /\ row' = [review |-> "not_required", owner |-> i]
  /\ UNCHANGED <<reference, snapshots, op, requests, erpState, origins, cleared>>

LoadItemTarget(i) ==
  /\ inv[i].pc = "load"
  /\ inv' = [inv EXCEPT ![i] = [@ EXCEPT !.pc = "capture", !.loaded = text]]
  /\ UNCHANGED <<reference, row, snapshots, op, requests, erpState, origins, cleared>>

\* insertAgenticRunSnapshot: the next position of the log.
InsertSnapshot(t, review) ==
  /\ log' = Append(log, [text |-> t, review |-> review])
  /\ kept' = kept \union {Len(log) + 1}

\* The fields loaded before, with the review state the row has by now.
CaptureSnapshot(i) ==
  /\ inv[i].pc = "capture"
  /\ inv' = [inv EXCEPT ![i] = [@ EXCEPT !.pc = "prune", !.loaded = 0]]
  /\ InsertSnapshot(inv[i].loaded, row.review)
  /\ UNCHANGED <<reference, row, op, requests, erpState, origins, cleared>>

\* A failure of the capture is logged and the run goes on.
CaptureFails(i) ==
  /\ inv[i].pc = "capture"
  /\ inv' = [inv EXCEPT ![i] = [@ EXCEPT !.pc = "work", !.loaded = 0]]
  /\ UNCHANGED <<reference, row, snapshots, op, requests, erpState, origins, cleared>>

\* The newest of a set of positions, at most n of them.
Newest(n, S) == {p \in S : Cardinality({q \in S : q > p}) < n}

\* pruneAgenticRunSnapshots: the recent ones and the newest that was captured
\* in an approved state.
Retained == Newest(KeepRecent, kept)
            \union Newest(1, {p \in kept : Approved(log[p])})

PruneSnapshots(i) ==
  /\ Move(i, "prune", "work")
  /\ kept' = Retained
  /\ UNCHANGED <<reference, row, log, op, requests, erpState, origins, cleared>>

\* The statement fails and is only logged.
PruneFails(i) ==
  /\ Move(i, "prune", "work")
  /\ UNCHANGED <<reference, row, snapshots, op, requests, erpState, origins, cleared>>

\* The flow answers with a new description.
ProduceResult(i) ==
  /\ inv[i].pc = "work"
  /\ inv' = [inv EXCEPT ![i].pc = "store", ![i].made = made + 1]
  /\ made' = made + 1
  /\ UNCHANGED <<reference, row, snapshots, op, requests, erpState, human, late, cleared>>

\* The flow fails: the row alone is written.
FlowFails(i) ==
  /\ Move(i, "work", "done")
  /\ row' = Decided("not_required")
  /\ UNCHANGED <<reference, snapshots, op, requests, erpState, origins, cleared>>

\* handleAgenticResult writes the reference first, whatever the row says.
StoreReference(i) ==
  /\ Move(i, "store", "record")
  /\ PersistItemReference(inv[i].made, row.owner # i)
  /\ UNCHANGED <<row, snapshots, op, requests, erpState, made, human, cleared>>

\* effectiveReviewState of a stored result: for review; auto_approved; approved,
\* as a product match of Shopware is stored; failed.
ResultStates == {"pending", "auto_approved", "approved", "not_required"}

\* ... and the row second, whatever the row says.
RecordResult(i) ==
  /\ Move(i, "record", "done")
  /\ \E review \in ResultStates :
       /\ row' = Decided(review)
       /\ cleared' = IF Approved(row') THEN cleared \union {inv[i].made} ELSE cleared
  /\ late' = IF row.owner # i THEN late \union {text} ELSE late
  /\ UNCHANGED <<reference, snapshots, op, requests, erpState, made, human>>

\* The transaction around both ends without the second write.
RecordFails(i) ==
  /\ Move(i, "record", "done")
  /\ row' = Decided("not_required")
  /\ UNCHANGED <<reference, snapshots, op, requests, erpState, origins, cleared>>

-----------------------------------------------------------------------------
(* An operator's requests *)

Begin(o, todo, from) ==
  /\ op[o].todo = <<>>
  /\ requests < MaxRequests
  /\ requests' = requests + 1
  /\ op' = [op EXCEPT ![o] = [todo |-> todo, read |-> Nowhere, from |-> from]]

\* save-item: fields of the form over the row it reads.
SaveItem(o) ==
  /\ Begin(o, <<"form">>, Nowhere)
  /\ UNCHANGED <<reference, row, inv, snapshots, erpState, origins, cleared>>

\* What a review goes on to write: price and shop flag, a fallback price, spec
\* values, removed specs; each reads the reference afresh.
ReviewEdits == {<<>>, <<"keep">>, <<"edit">>, <<"keep", "edit">>}

\* Review and close: the row is decided, whatever it was.
Review(o) ==
  /\ \E edits \in ReviewEdits, decision \in {"approved", "rejected"} :
       /\ Begin(o, edits, Nowhere)
       /\ row' = Decided(decision)
       /\ cleared' = IF decision = "approved" THEN cleared \union {text} ELSE cleared
  /\ UNCHANGED <<reference, inv, snapshots, erpState, origins>>

\* restore: any snapshot that is still there; it records itself and prunes.
RestoreSnapshot(o) ==
  /\ \E p \in kept : Begin(o, <<"restore", "record", "prune">>, log[p].text)
  /\ UNCHANGED <<reference, row, inv, snapshots, erpState, origins, cleared>>

Writes == {"form", "keep", "edit", "restore"}
Doing(o, steps) == op[o].todo # <<>> /\ Head(op[o].todo) \in steps
HasRead(o) == op[o].read # Nowhere

\* getItemReference; 0 is also a description, hence the one more.
ReadReference(o) ==
  /\ Doing(o, Writes) /\ ~HasRead(o)
  /\ op' = [op EXCEPT ![o].read = text + 1]
  /\ UNCHANGED <<reference, row, inv, snapshots, requests, erpState, origins, cleared>>

Done(o) == op' = [op EXCEPT ![o].todo = Tail(@), ![o].read = Nowhere]

\* The whole row as read, with the change.  Late: what is written back was
\* replaced in the meantime.
WriteBack(o) ==
  /\ Doing(o, {"form", "keep"}) /\ HasRead(o) /\ Done(o)
  /\ PersistItemReference(op[o].read - 1, op[o].read - 1 # text)
  /\ UNCHANGED <<row, inv, snapshots, requests, erpState, made, human, cleared>>

\* A save whose read fails goes on as if the reference were new: the row is
\* written from the form alone.
WriteEdit(o) ==
  /\ \/ Doing(o, {"form", "edit"}) /\ HasRead(o)
     \/ Doing(o, {"form"}) /\ ~HasRead(o)
  /\ Done(o)
  /\ made' = made + 1
  /\ human' = human \union {made + 1}
  /\ PersistItemReference(made + 1, FALSE)
  /\ UNCHANGED <<row, inv, snapshots, requests, erpState, cleared>>

WriteRestored(o) ==
  /\ Doing(o, {"restore"}) /\ HasRead(o) /\ Done(o)
  /\ human' = human \union {op[o].from}
  /\ PersistItemReference(op[o].from, FALSE)
  /\ UNCHANGED <<row, inv, snapshots, requests, erpState, made, cleared>>

\* The restore becomes a snapshot with the review state of the row.
RecordRestore(o) ==
  /\ Doing(o, {"record"}) /\ Done(o)
  /\ InsertSnapshot(op[o].from, row.review)
  /\ UNCHANGED <<reference, row, inv, requests, erpState, origins, cleared>>

PruneAfterRestore(o) ==
  /\ Doing(o, {"prune"}) /\ Done(o)
  /\ kept' \in {Retained, kept}
  /\ UNCHANGED <<reference, row, inv, log, requests, erpState, origins, cleared>>

\* A read or a write fails: a review skips that edit, a save and a restore
\* answer 500.
RequestFails(o) ==
  /\ op[o].todo # <<>>
  /\ op' = [op EXCEPT ![o].todo = IF Head(@) \in {"keep", "edit"} THEN Tail(@) ELSE <<>>,
                      ![o].read = Nowhere]
  /\ UNCHANGED <<reference, row, inv, snapshots, requests, erpState, origins, cleared>>

-----------------------------------------------------------------------------
(* ERP sync *)

Parts == [status : {"idle", "staged", "marking"}, text : Nat]
Idle == [status |-> "idle", text |-> 0]

\* One SELECT joins the reference with its run row; filterErpItemsByApproval
\* keeps approved ones.  Without any the handler answers 422.
StageExport ==
  /\ sync = Idle
  /\ Approved(row)
  /\ sync' = [status |-> "staged", text |-> text]
  /\ UNCHANGED <<reference, row, inv, snapshots, op, requests, erp, origins, cleared>>

\* The script imports, then mirrors media: it can fail or be killed before or
\* after the import.
RunScript ==
  /\ sync.status = "staged"
  /\ \E imported, succeeded \in BOOLEAN :
       /\ succeeded => imported
       /\ erp' = IF imported THEN erp \union {sync.text} ELSE erp
       /\ sync' = IF succeeded THEN [sync EXCEPT !.status = "marking"] ELSE Idle
  /\ UNCHANGED <<reference, row, inv, snapshots, op, requests, origins, cleared>>

\* markRefsSynced is sent when the answer goes out; a failure is only logged.
MarkRefsSynced ==
  /\ sync.status = "marking"
  /\ sync' = Idle
  /\ marked' \in {TRUE, marked}
  /\ UNCHANGED <<text, row, inv, snapshots, op, requests, erp, origins, cleared>>

-----------------------------------------------------------------------------
Init ==
  /\ text = 0
  /\ marked = FALSE
  /\ row = Decided("not_required")
  /\ inv = [i \in Invocations |-> Waiting]
  /\ log = <<>>
  /\ kept = {}
  /\ op = [o \in Requests |-> Free]
  /\ requests = 0
  /\ sync = Idle
  /\ erp = {}
  /\ made = 0
  /\ human = {0}
  /\ cleared = {}
  /\ late = {}

Invoke(i) ==
  \/ Promote(i) \/ LoadItemTarget(i)
  \/ CaptureSnapshot(i) \/ CaptureFails(i) \/ PruneSnapshots(i) \/ PruneFails(i)
  \/ ProduceResult(i) \/ FlowFails(i)
  \/ StoreReference(i) \/ RecordResult(i) \/ RecordFails(i)

Handle(o) ==
  \/ SaveItem(o) \/ Review(o) \/ RestoreSnapshot(o)
  \/ ReadReference(o) \/ WriteBack(o) \/ WriteEdit(o) \/ WriteRestored(o)
  \/ RecordRestore(o) \/ PruneAfterRestore(o) \/ RequestFails(o)

Export == StageExport \/ RunScript \/ MarkRefsSynced

Next == (\E i \in Invocations : Invoke(i)) \/ (\E o \in Requests : Handle(o)) \/ Export

Spec == Init /\ [][Next]_vars

-----------------------------------------------------------------------------
(* Properties *)

TypeOK ==
  /\ text \in 0..made /\ made \in Nat
  /\ human \subseteq 0..made /\ cleared \subseteq 0..made /\ late \subseteq 0..made
  /\ erp \subseteq 0..made
  /\ marked \in BOOLEAN
  /\ row.review \in ReviewStates /\ row.owner \in Invocations \union {Nowhere}
  /\ kept \subseteq DOMAIN log
  /\ requests \in 0..MaxRequests
  /\ sync \in Parts

\* The gate in front of the ERP leaks only through a race: a description the
\* ERP was given was written by a human, or stood when a decision or a result
\* approved the row, or was put there by a result that landed after its row had
\* been decided by someone else, or by a write that restored what it had read
\* over something newer.
OnlyRacesEscape == erp \subseteq human \union cleared \union late

\* What the last KeepRecent runs or restores replaced can be restored, whichever
\* of them insert and prune at the same time.
RecentAreKept == Newest(KeepRecent, DOMAIN log) \subseteq kept

=============================================================================
