---------------------------- MODULE WarehouseProofs ----------------------------
(***************************************************************************)
(* What holds of the flows of the warehouse for any constants: of each     *)
(* component by itself, with the inductive invariant it needs, and then    *)
(* of the warehouse in which a behaviour runs through one of them.         *)
(***************************************************************************)
EXTENDS MCWarehouse, FiniteSetTheorems, TLAPS

-----------------------------------------------------------------------------
(* The article: Catalog *)

Stages == {"queued", "load", "capture", "prune", "work", "store", "record", "done"}
Steps == Writes \cup {"record", "prune"}
Invs == [pc : Stages, loaded : Nat, made : Nat]
Ops == [todo : Seq(Steps), read : Nat, from : Nat]
Snapshots == [text : Nat, review : ReviewStates]

-----------------------------------------------------------------------------
(* The inductive invariant *)

Typed ==
  /\ inv \in [Invocations -> Invs]
  /\ log \in Seq(Snapshots)
  /\ op \in [Requests -> Ops]

\* Every description somebody holds was made.
Known ==
  /\ \A i \in Invocations : inv[i].loaded <= made /\ inv[i].made <= made
  /\ \A p \in DOMAIN log : log[p].text <= made
  /\ \A o \in Requests : op[o].read <= made + 1 /\ op[o].from <= made
  /\ sync.text <= made

\* A description the ERP may have been given with good reason, or by a race.
Explained == human \cup cleared \cup late

\* A row that belongs to an invocation is not decided; what stands under an approved
\* row, or was taken for the ERP, is explained; and when an invocation that still has
\* its row records it, the article says what the invocation made, or something explained.
Gated ==
  /\ row.owner # Nowhere => row.review = "not_required"
  /\ Approved(row) => text \in Explained
  /\ sync.status # "idle" => sync.text \in Explained
  /\ erp \subseteq Explained
  /\ \A i \in Invocations : inv[i].pc = "record" /\ row.owner = i
       => text \in {inv[i].made} \cup Explained

Inv == TypeOK /\ Typed /\ Known /\ Gated

-----------------------------------------------------------------------------
(* Types: every step *)

LEMMA RetainedKept == Retained \subseteq kept
<1>. QED BY DEF Retained, Newest

LEMMA Recorded ==
  ASSUME Typed, Known, NEW p \in DOMAIN log
  PROVE  log[p].text \in Nat /\ log[p].text <= made
<1>1. p \in DOMAIN log /\ DOMAIN log = 1..Len(log)
  BY DEF Typed
<1>2. log[p] \in Snapshots
  BY <1>1 DEF Typed
<1>. QED BY <1>1, <1>2 DEF Known, Snapshots

LEMMA Inserted ==
  ASSUME Typed, Known, TypeOK, NEW t \in 0..made, NEW review \in ReviewStates,
         InsertSnapshot(t, review)
  PROVE  /\ log' \in Seq(Snapshots)
         /\ \A p \in DOMAIN log' : log'[p].text <= made
         /\ kept' \subseteq DOMAIN log'
<1>. DEFINE e == [text |-> t, review |-> review]
<1>1. e \in Snapshots /\ e.text = t
  BY DEF TypeOK, Snapshots
<1>2. log' = Append(log, e) /\ kept' = kept \cup {Len(log) + 1}
  BY DEF InsertSnapshot
<1>. HIDE DEF e
<1>3. log' \in Seq(Snapshots) /\ Len(log') = Len(log) + 1
  BY <1>1, <1>2 DEF Typed
<1>4. \A p \in DOMAIN log' : log'[p] = IF p \in DOMAIN log THEN log[p] ELSE e
  BY <1>1, <1>2 DEF Typed
<1>5. \A p \in DOMAIN log' : log'[p].text <= made
  BY <1>1, <1>4 DEF Known, TypeOK
<1>6. DOMAIN log' = 1..(Len(log) + 1) /\ DOMAIN log = 1..Len(log)
  BY <1>3 DEF Typed
<1>. QED BY <1>2, <1>3, <1>5, <1>6 DEF TypeOK, Typed

\* An invocation at work, with what it has in hand.
LEMMA Moved ==
  ASSUME Typed, NEW i \in Invocations, NEW s \in Invs,
         inv' = [inv EXCEPT ![i] = s]
  PROVE  /\ inv' \in [Invocations -> Invs]
         /\ inv'[i] = s
         /\ \A j \in Invocations : j # i => inv'[j] = inv[j]
<1>. QED BY DEF Typed

LEMMA Loaded ==
  ASSUME Typed, NEW i \in Invocations, NEW pc \in Stages, NEW n \in Nat,
         inv' = [inv EXCEPT ![i] = [inv[i] EXCEPT !.pc = pc, !.loaded = n]]
  PROVE  /\ inv' \in [Invocations -> Invs]
         /\ inv'[i].loaded = n /\ inv'[i].made = inv[i].made
         /\ \A j \in Invocations : j # i => inv'[j] = inv[j]
<1>. DEFINE s == [inv[i] EXCEPT !.pc = pc, !.loaded = n]
<1>1. inv[i] \in Invs
  BY DEF Typed
<1>2. s \in Invs /\ s.loaded = n /\ s.made = inv[i].made
  BY <1>1 DEF Invs
<1>. HIDE DEF s
<1>. QED BY <1>2, Moved DEF s

LEMMA Made ==
  ASSUME Typed, NEW i \in Invocations, NEW pc \in Stages, NEW n \in Nat,
         inv' = [inv EXCEPT ![i] = [inv[i] EXCEPT !.pc = pc, !.made = n]]
  PROVE  /\ inv' \in [Invocations -> Invs]
         /\ inv'[i].loaded = inv[i].loaded /\ inv'[i].made = n
         /\ \A j \in Invocations : j # i => inv'[j] = inv[j]
<1>. DEFINE s == [inv[i] EXCEPT !.pc = pc, !.made = n]
<1>1. inv[i] \in Invs
  BY DEF Typed
<1>2. s \in Invs /\ s.loaded = inv[i].loaded /\ s.made = n
  BY <1>1 DEF Invs
<1>. HIDE DEF s
<1>. QED BY <1>2, Moved DEF s

\* An invocation that loads or lets go of a version leaves the rest as it is.
LEMMA LeftTyped ==
  ASSUME TypeOK, Typed, Known, NEW i \in Invocations,
         UNCHANGED <<text, made, human, late, row, op, requests, sync, erp, cleared, marked>>,
         log' \in Seq(Snapshots), kept' \subseteq DOMAIN log',
         \A p \in DOMAIN log' : log'[p].text <= made,
         inv' \in [Invocations -> Invs],
         inv'[i].loaded <= made, inv'[i].made <= made,
         \A j \in Invocations : j # i => inv'[j] = inv[j]
  PROVE  (TypeOK /\ Typed /\ Known)'
<1>1. \A j \in Invocations : inv'[j].loaded <= made' /\ inv'[j].made <= made'
  BY DEF Known
<1>2. TypeOK'
  BY DEF TypeOK
<1>3. Typed'
  BY DEF Typed
<1>4. Known'
  BY <1>1 DEF Known
<1>. QED BY <1>2, <1>3, <1>4

\* What LeftTyped asks of the log and of an invocation holds of those that stay.
LEMMA LogKnown ==
  ASSUME TypeOK, Typed, Known
  PROVE  /\ log \in Seq(Snapshots) /\ kept \subseteq DOMAIN log
         /\ \A p \in DOMAIN log : log[p].text <= made
         /\ \A j \in Invocations : inv[j].made <= made
         /\ made \in Nat
BY DEF TypeOK, Typed, Known

LEMMA InvokeTyped ==
  ASSUME TypeOK, Typed, Known, NEW i \in Invocations, Invoke(i)
  PROVE  (TypeOK /\ Typed /\ Known)'
<1>. USE InvocationsAssumption 
     DEF TypeOK, Typed, Known, Invs, Move, Decided, ReviewStates, Stages, Nowhere,
         reference, snapshots, erpState, origins, PersistItemReference
<1>1. CASE Promote(i)
  <2>1. /\ inv' = [inv EXCEPT ![i].pc = "load"] /\ row' = [review |-> "not_required", owner |-> i]
        /\ UNCHANGED <<text, made, human, late, log, kept, op, requests, sync, erp, cleared, marked>>
    BY <1>1 DEF Promote
  <2>2. /\ inv' \in [Invocations -> Invs]
        /\ \A j \in Invocations : inv'[j].loaded = inv[j].loaded /\ inv'[j].made = inv[j].made
    BY <2>1
  <2>3. TypeOK'
    BY <2>1
  <2>4. Typed'
    BY <2>1, <2>2
  <2>5. Known'
    BY <2>1, <2>2
  <2>. QED BY <2>3, <2>4, <2>5
<1>2. CASE LoadItemTarget(i)
  <2>1. /\ inv' = [inv EXCEPT ![i] = [inv[i] EXCEPT !.pc = "capture", !.loaded = text]]
        /\ UNCHANGED <<text, made, human, late, row, log, kept, op, requests, sync, erp, cleared,
                       marked>>
    BY <1>2 DEF LoadItemTarget
  <2>2. text \in Nat /\ text <= made /\ "capture" \in Stages
    OBVIOUS
  <2>3. /\ inv' \in [Invocations -> Invs]
        /\ inv'[i].loaded = text /\ inv'[i].made = inv[i].made
        /\ \A j \in Invocations : j # i => inv'[j] = inv[j]
    BY ONLY Typed, <2>1, <2>2, Loaded
  <2>. QED BY <2>1, <2>2, <2>3, LogKnown, LeftTyped
<1>3. CASE CaptureSnapshot(i)
  <2>1. /\ inv' = [inv EXCEPT ![i] = [inv[i] EXCEPT !.pc = "prune", !.loaded = 0]]
        /\ InsertSnapshot(inv[i].loaded, row.review)
        /\ UNCHANGED <<text, made, human, late, row, op, requests, sync, erp, cleared, marked>>
    BY <1>3 DEF CaptureSnapshot
  <2>2. inv[i].loaded \in 0..made /\ row.review \in ReviewStates /\ "prune" \in Stages
    OBVIOUS
  <2>3. /\ log' \in Seq(Snapshots)
        /\ \A p \in DOMAIN log' : log'[p].text <= made
        /\ kept' \subseteq DOMAIN log'
    BY <2>1, <2>2, Inserted
  <2>4. /\ inv' \in [Invocations -> Invs]
        /\ inv'[i].loaded = 0 /\ inv'[i].made = inv[i].made
        /\ \A j \in Invocations : j # i => inv'[j] = inv[j]
    BY ONLY Typed, <2>1, <2>2, Loaded, 0 \in Nat
  <2>5. 0 <= made /\ inv[i].made <= made
    OBVIOUS
  <2>6. /\ UNCHANGED <<text, made, human, late, row, op, requests, sync, erp, cleared, marked>>
        /\ inv'[i].loaded <= made /\ inv'[i].made <= made
    BY ONLY <2>1, <2>4, <2>5
  <2>. QED BY ONLY TypeOK, Typed, Known, <2>3, <2>4, <2>6, LeftTyped
<1>4. CASE CaptureFails(i)
  <2>1. /\ inv' = [inv EXCEPT ![i] = [inv[i] EXCEPT !.pc = "work", !.loaded = 0]]
        /\ UNCHANGED <<text, made, human, late, row, log, kept, op, requests, sync, erp, cleared,
                       marked>>
    BY <1>4 DEF CaptureFails
  <2>2. "work" \in Stages
    OBVIOUS
  <2>3. /\ inv' \in [Invocations -> Invs]
        /\ inv'[i].loaded = 0 /\ inv'[i].made = inv[i].made
        /\ \A j \in Invocations : j # i => inv'[j] = inv[j]
    BY ONLY Typed, <2>1, <2>2, Loaded, 0 \in Nat
  <2>4. 0 <= made /\ inv[i].made <= made
    OBVIOUS
  <2>5. /\ UNCHANGED <<text, made, human, late, row, log, kept, op, requests, sync, erp, cleared,
                       marked>>
        /\ inv'[i].loaded <= made /\ inv'[i].made <= made
    BY ONLY <2>1, <2>3, <2>4
  <2>. QED BY ONLY TypeOK, Typed, Known, <2>3, <2>5, LogKnown, LeftTyped
<1>5. CASE PruneSnapshots(i)
  BY <1>5, RetainedKept DEF PruneSnapshots
<1>6. CASE PruneFails(i)
  BY <1>6 DEF PruneFails
<1>7. CASE ProduceResult(i)
  <2>1. /\ inv' = [inv EXCEPT ![i] = [inv[i] EXCEPT !.pc = "store", !.made = made + 1]]
        /\ made' = made + 1
        /\ UNCHANGED <<text, human, late, row, log, kept, op, requests, sync, erp, cleared, marked>>
    BY <1>7 DEF ProduceResult
  <2>2. made + 1 \in Nat /\ "store" \in Stages
    OBVIOUS
  <2>3. /\ inv' \in [Invocations -> Invs]
        /\ inv'[i].loaded = inv[i].loaded /\ inv'[i].made = made + 1
        /\ \A j \in Invocations : j # i => inv'[j] = inv[j]
    BY ONLY Typed, <2>1, <2>2, Made
  <2>4. \A j \in Invocations : inv'[j].loaded <= made' /\ inv'[j].made <= made'
    BY <2>1, <2>2, <2>3
  <2>5. TypeOK'
    BY <2>1
  <2>6. Typed'
    BY <2>1, <2>3
  <2>7. Known'
    <3>1. \A p \in DOMAIN log : log[p].text <= made + 1
      BY Recorded
    <3>2. \A o \in Requests : op[o].read <= made + 2 /\ op[o].from <= made + 1
      BY DEF Ops
    <3>3. \A p \in DOMAIN log' : log'[p].text <= made'
      BY <2>1, <3>1
    <3>4. \A o \in Requests : op'[o].read <= made' + 1 /\ op'[o].from <= made'
      BY <2>1, <3>2
    <3>5. sync'.text <= made'
      BY <2>1 DEF Parts
    <3>. QED BY <2>4, <3>3, <3>4, <3>5
  <2>. QED BY <2>5, <2>6, <2>7
<1>8. CASE FlowFails(i)
  BY <1>8 DEF FlowFails
<1>9. CASE StoreReference(i)
  BY <1>9 DEF StoreReference
<1>10. CASE RecordResult(i)
  BY <1>10 DEF RecordResult, ResultStates
<1>11. CASE RecordFails(i)
  BY <1>11 DEF RecordFails
<1>. QED BY <1>1, <1>2, <1>3, <1>4, <1>5, <1>6, <1>7, <1>8, <1>9, <1>10, <1>11 DEF Invoke

LEMMA Updated ==
  ASSUME TypeOK, Typed, Known, NEW o \in Requests, NEW q \in Ops,
         q.read <= made + 1, q.from <= made, op' = [op EXCEPT ![o] = q]
  PROVE  /\ op' \in [Requests -> Ops]
         /\ \A j \in Requests : op'[j].read <= made + 1 /\ op'[j].from <= made
<1>1. /\ op' \in [Requests -> Ops]
      /\ op'[o] = q
      /\ \A j \in Requests : j # o => op'[j] = op[j]
  BY DEF Typed
<1>. QED BY <1>1 DEF Known

\* A request that begins.
LEMMA BeginTyped ==
  ASSUME TypeOK, Typed, Known, NEW o \in Requests, NEW todo \in Seq(Steps), NEW from \in 0..made,
         Begin(o, todo, from)
  PROVE  /\ op' \in [Requests -> Ops]
         /\ \A j \in Requests : op'[j].read <= made + 1 /\ op'[j].from <= made
         /\ requests' \in 0..MaxRequests
<1>. DEFINE q == [todo |-> todo, read |-> Nowhere, from |-> from]
<1>1. q \in Ops /\ q.read = 0 /\ q.from = from
  BY DEF TypeOK, Nowhere, Ops
<1>2. op' = [op EXCEPT ![o] = q] /\ requests' = requests + 1 /\ requests < MaxRequests
  BY DEF Begin
<1>. HIDE DEF q
<1>3. q.read <= made + 1 /\ q.from <= made
  BY <1>1 DEF TypeOK
<1>4. requests' \in 0..MaxRequests
  BY <1>2, RequestsAssumption DEF TypeOK
<1>. QED BY <1>1, <1>2, <1>3, <1>4, Updated

\* A request that goes on to its next step.
LEMMA DoneTyped ==
  ASSUME TypeOK, Typed, Known, NEW o \in Requests, op[o].todo # <<>>, Done(o)
  PROVE  /\ op' \in [Requests -> Ops]
         /\ \A j \in Requests : op'[j].read <= made + 1 /\ op'[j].from <= made
<1>. DEFINE q == [op[o] EXCEPT !.todo = Tail(@), !.read = Nowhere]
<1>1. q \in Ops /\ q.read = 0 /\ q.from = op[o].from
  <2>1. op[o] \in Ops /\ op[o].todo \in Seq(Steps)
    BY DEF Typed, Ops
  <2>2. Tail(op[o].todo) \in Seq(Steps)
    BY <2>1
  <2>. DEFINE rest == Tail(op[o].todo)
  <2>3. rest \in Seq(Steps) /\ q = [op[o] EXCEPT !.todo = rest, !.read = 0]
    BY <2>2 DEF Nowhere
  <2>. HIDE DEF rest, q
  <2>. QED BY <2>1, <2>3 DEF Ops
<1>2. op' = [op EXCEPT ![o] = q]
  BY DEF Done
<1>. HIDE DEF q
<1>3. q.read <= made + 1 /\ q.from <= made
  BY <1>1 DEF TypeOK, Known
<1>. QED BY <1>1, <1>2, <1>3, Updated

LEMMA HandleTyped ==
  ASSUME TypeOK, Typed, Known, NEW o \in Requests, Handle(o)
  PROVE  (TypeOK /\ Typed /\ Known)'
<1>. USE DEF TypeOK, Typed, Known, Ops, Decided, ReviewStates, Nowhere,
         reference, snapshots, erpState, origins, PersistItemReference
<1>1. CASE SaveItem(o)
  <2>1. <<"form">> \in Seq(Steps) /\ Nowhere \in 0..made
    BY DEF Steps, Writes
  <2>. QED BY <1>1, <2>1, BeginTyped DEF SaveItem
<1>2. CASE Review(o)
  <2>1. PICK edits \in ReviewEdits, decision \in {"approved", "rejected"} :
          /\ Begin(o, edits, Nowhere)
          /\ row' = Decided(decision)
          /\ cleared' = IF decision = "approved" THEN cleared \union {text} ELSE cleared
    BY <1>2 DEF Review
  <2>2. edits \in Seq(Steps) /\ Nowhere \in 0..made
    <3>1. "keep" \in Steps /\ "edit" \in Steps
      BY DEF Steps, Writes
    <3>2. /\ <<>> \in Seq(Steps) /\ <<"keep">> \in Seq(Steps)
          /\ <<"edit">> \in Seq(Steps) /\ <<"keep", "edit">> \in Seq(Steps)
      BY <3>1
    <3>. QED BY ONLY <3>2, edits \in ReviewEdits, 0 \in 0..made DEF ReviewEdits, Nowhere
  <2>. QED BY <1>2, <2>1, <2>2, BeginTyped DEF Review
<1>3. CASE RestoreSnapshot(o)
  <2>1. PICK p \in kept : Begin(o, <<"restore", "record", "prune">>, log[p].text)
    BY <1>3 DEF RestoreSnapshot
  <2>2. <<"restore", "record", "prune">> \in Seq(Steps) /\ log[p].text \in 0..made
    <3>1. {"restore", "record", "prune"} \subseteq Steps
      BY DEF Steps, Writes
    <3>2. log[p].text \in Nat /\ log[p].text <= made
      BY Recorded
    <3>. QED BY <3>1, <3>2
  <2>. QED BY <1>3, <2>1, <2>2, BeginTyped DEF RestoreSnapshot
<1>4. CASE ReadReference(o)
  <2>. DEFINE q == [op[o] EXCEPT !.read = text + 1]
  <2>1. q \in Ops /\ q.read = text + 1 /\ q.from = op[o].from
    <3>1. op[o] \in Ops /\ text + 1 \in Nat /\ <<>> \in Seq(Steps)
      OBVIOUS
    <3>. QED BY <3>1
  <2>2. op' = [op EXCEPT ![o] = q]
    BY <1>4 DEF ReadReference
  <2>. HIDE DEF q
  <2>3. q.read <= made + 1 /\ q.from <= made
    BY <2>1
  <2>4. /\ op' \in [Requests -> Ops]
        /\ \A j \in Requests : op'[j].read <= made + 1 /\ op'[j].from <= made
    BY <2>1, <2>2, <2>3, Updated
  <2>. QED BY <1>4, <2>4 DEF ReadReference
<1>5. CASE WriteBack(o)
  <2>1. op[o].read - 1 \in 0..made /\ op[o].todo # <<>>
    BY <1>5 DEF WriteBack, HasRead, Doing
  <2>. QED BY <1>5, <2>1, DoneTyped DEF WriteBack
<1>6. CASE WriteEdit(o)
  <2>1. op[o].todo # <<>>
    BY <1>6 DEF WriteEdit, Doing
  <2>2. /\ op' \in [Requests -> Ops]
        /\ \A j \in Requests : op'[j].read <= made + 1 /\ op'[j].from <= made
    BY <1>6, <2>1, DoneTyped DEF WriteEdit
  <2>3. /\ made' = made + 1 /\ human' = human \cup {made + 1} /\ text' = made + 1
        /\ UNCHANGED <<late, marked, row, inv, log, kept, requests, sync, erp, cleared>>
    BY <1>6 DEF WriteEdit
  <2>4. \A j \in Requests : op'[j].read <= made' + 1 /\ op'[j].from <= made'
    <3>1. \A j \in Requests : op'[j].read \in Nat /\ op'[j].from \in Nat
      BY <2>2 DEF Ops
    <3>2. made \in Nat
      OBVIOUS
    <3>. QED BY ONLY <2>2, <2>3, <3>1, <3>2
  <2>5. TypeOK'
    BY <2>3
  <2>6. Typed'
    BY <2>2, <2>3
  <2>7. Known'
    <3>1. \A p \in DOMAIN log : log[p].text <= made + 1
      BY Recorded
    <3>2. \A i \in Invocations : inv[i].loaded <= made + 1 /\ inv[i].made <= made + 1
      <4>. SUFFICES ASSUME NEW i \in Invocations
                    PROVE  inv[i].loaded <= made + 1 /\ inv[i].made <= made + 1
        OBVIOUS
      <4>1. inv[i] \in Invs /\ inv[i].loaded <= made /\ inv[i].made <= made
        OBVIOUS
      <4>2. inv[i].loaded \in Nat /\ inv[i].made \in Nat
        BY <4>1 DEF Invs
      <4>3. made \in Nat
        OBVIOUS
      <4>. QED BY ONLY <4>1, <4>2, <4>3
    <3>3. \A p \in DOMAIN log' : log'[p].text <= made'
      BY <2>3, <3>1
    <3>4. \A i \in Invocations : inv'[i].loaded <= made' /\ inv'[i].made <= made'
      BY <2>3, <3>2
    <3>5. sync'.text <= made'
      BY <2>3 DEF Parts
    <3>. QED BY <2>4, <3>3, <3>4, <3>5
  <2>. QED BY <2>5, <2>6, <2>7
<1>7. CASE WriteRestored(o)
  <2>1. op[o].todo # <<>> /\ op[o].from \in 0..made
    BY <1>7 DEF WriteRestored, Doing
  <2>. QED BY <1>7, <2>1, DoneTyped DEF WriteRestored
<1>8. CASE RecordRestore(o)
  <2>1. op[o].todo # <<>> /\ op[o].from \in 0..made /\ row.review \in ReviewStates
    BY <1>8 DEF RecordRestore, Doing
  <2>2. /\ log' \in Seq(Snapshots)
        /\ \A p \in DOMAIN log' : log'[p].text <= made
        /\ kept' \subseteq DOMAIN log'
    BY <1>8, <2>1, Inserted DEF RecordRestore
  <2>. QED BY <1>8, <2>1, <2>2, DoneTyped DEF RecordRestore
<1>9. CASE PruneAfterRestore(o)
  <2>1. op[o].todo # <<>>
    BY <1>9 DEF PruneAfterRestore, Doing
  <2>. QED BY <1>9, <2>1, DoneTyped, RetainedKept DEF PruneAfterRestore
<1>10. CASE RequestFails(o)
  <2>. DEFINE q == [op[o] EXCEPT !.todo = IF Head(@) \in {"keep", "edit"} THEN Tail(@) ELSE <<>>,
                                !.read = Nowhere]
  <2>1. q \in Ops /\ q.read = 0 /\ q.from = op[o].from
    <3>1. op[o] \in Ops /\ op[o].todo \in Seq(Steps) /\ op[o].todo # <<>>
      BY <1>10 DEF RequestFails, Ops
    <3>2. Tail(op[o].todo) \in Seq(Steps) /\ <<>> \in Seq(Steps)
      BY <3>1
    <3>. QED BY <3>1, <3>2
  <2>2. op' = [op EXCEPT ![o] = q]
    BY <1>10 DEF RequestFails
  <2>. HIDE DEF q
  <2>3. q.read <= made + 1 /\ q.from <= made
    BY <2>1
  <2>4. /\ op' \in [Requests -> Ops]
        /\ \A j \in Requests : op'[j].read <= made + 1 /\ op'[j].from <= made
    BY <2>1, <2>2, <2>3, Updated
  <2>. QED BY <1>10, <2>4 DEF RequestFails
<1>. QED BY <1>1, <1>2, <1>3, <1>4, <1>5, <1>6, <1>7, <1>8, <1>9, <1>10 DEF Handle

LEMMA ExportTyped ==
  ASSUME TypeOK, Typed, Known, Export
  PROVE  (TypeOK /\ Typed /\ Known)'
<1>. USE DEF TypeOK, Typed, Known, Parts, Idle, reference, snapshots, erpState, origins
<1>1. CASE StageExport
  BY <1>1 DEF StageExport
<1>2. CASE RunScript
  <2>1. PICK imported, succeeded \in BOOLEAN :
          /\ erp' = IF imported THEN erp \union {sync.text} ELSE erp
          /\ sync' = IF succeeded THEN [sync EXCEPT !.status = "marking"] ELSE Idle
    BY <1>2 DEF RunScript
  <2>2. sync' \in Parts /\ sync'.text <= made
    BY <2>1
  <2>3. erp' \subseteq 0..made
    BY <2>1
  <2>. QED BY <1>2, <2>2, <2>3 DEF RunScript
<1>3. CASE MarkRefsSynced
  <2>1. sync' = Idle /\ marked' \in BOOLEAN
    BY <1>3 DEF MarkRefsSynced
  <2>2. sync' \in Parts /\ sync'.text <= made
    BY <2>1
  <2>. QED BY <1>3, <2>1, <2>2 DEF MarkRefsSynced
<1>. QED BY <1>1, <1>2, <1>3 DEF Export

-----------------------------------------------------------------------------
(* The gate: every step *)

LEMMA InvokeGated ==
  ASSUME Inv, NEW i \in Invocations, Invoke(i)
  PROVE  Gated'
<1>. USE InvocationsAssumption DEF Inv, Gated, Explained, Approved, TypeOK, Typed, Known, Invs,
    Move, Decided, Nowhere,
         reference, snapshots, erpState, origins, PersistItemReference
<1>1. CASE Promote(i)
  BY <1>1 DEF Promote
<1>2. CASE LoadItemTarget(i)
  BY <1>2 DEF LoadItemTarget
<1>3. CASE CaptureSnapshot(i)
  BY <1>3 DEF CaptureSnapshot
<1>4. CASE CaptureFails(i)
  BY <1>4 DEF CaptureFails
<1>5. CASE PruneSnapshots(i)
  BY <1>5 DEF PruneSnapshots
<1>6. CASE PruneFails(i)
  BY <1>6 DEF PruneFails
<1>7. CASE ProduceResult(i)
  BY <1>7 DEF ProduceResult
<1>8. CASE FlowFails(i)
  BY <1>8 DEF FlowFails
<1>9. CASE StoreReference(i)
  BY <1>9 DEF StoreReference
<1>10. CASE RecordResult(i)
  BY <1>10 DEF RecordResult, ResultStates
<1>11. CASE RecordFails(i)
  BY <1>11 DEF RecordFails
<1>. QED BY <1>1, <1>2, <1>3, <1>4, <1>5, <1>6, <1>7, <1>8, <1>9, <1>10, <1>11 DEF Invoke

LEMMA HandleGated ==
  ASSUME Inv, NEW o \in Requests, Handle(o)
  PROVE  Gated'
<1>. USE InvocationsAssumption DEF Inv, Gated, Explained, Approved, TypeOK, Typed, Known, Ops,
    Decided, Nowhere,
         reference, snapshots, erpState, origins, PersistItemReference
<1>1. CASE SaveItem(o)
  BY <1>1 DEF SaveItem
<1>2. CASE Review(o)
  <2>1. PICK decision \in {"approved", "rejected"} : \E edits \in ReviewEdits :
          /\ row' = [review |-> decision, owner |-> 0]
          /\ cleared' = IF decision = "approved" THEN cleared \union {text} ELSE cleared
    BY <1>2 DEF Review
  <2>2. UNCHANGED <<text, marked, inv, log, kept, sync, erp, made, human, late>>
    BY <1>2 DEF Review
  <2>3. row'.review = decision /\ row'.owner = 0
    BY <2>1
  <2>4. Approved(row') => text \in cleared'
    BY <2>1, <2>3
  <2>5. Explained \subseteq Explained'
    BY <2>1, <2>2
  <2>. QED BY <2>2, <2>3, <2>4, <2>5
<1>3. CASE RestoreSnapshot(o)
  BY <1>3 DEF RestoreSnapshot
<1>4. CASE ReadReference(o)
  BY <1>4 DEF ReadReference
<1>5. CASE WriteBack(o)
  BY <1>5 DEF WriteBack
<1>6. CASE WriteEdit(o)
  BY <1>6 DEF WriteEdit
<1>7. CASE WriteRestored(o)
  BY <1>7 DEF WriteRestored
<1>8. CASE RecordRestore(o)
  BY <1>8 DEF RecordRestore
<1>9. CASE PruneAfterRestore(o)
  BY <1>9 DEF PruneAfterRestore
<1>10. CASE RequestFails(o)
  BY <1>10 DEF RequestFails
<1>. QED BY <1>1, <1>2, <1>3, <1>4, <1>5, <1>6, <1>7, <1>8, <1>9, <1>10 DEF Handle

LEMMA ExportGated ==
  ASSUME Inv, Export
  PROVE  Gated'
<1>. USE DEF Inv, Gated, Explained, TypeOK, Parts, Idle, reference, snapshots, erpState, origins
<1>1. CASE StageExport
  BY <1>1 DEF StageExport
<1>2. CASE RunScript
  BY <1>2 DEF RunScript
<1>3. CASE MarkRefsSynced
  BY <1>3 DEF MarkRefsSynced
<1>. QED BY <1>1, <1>2, <1>3 DEF Export

LEMMA NextInv == Inv /\ [Next]_vars => Inv'
<1>. SUFFICES ASSUME Inv, [Next]_vars PROVE Inv'
  OBVIOUS
<1>1. CASE UNCHANGED vars
  BY <1>1 DEF vars, reference, snapshots, erpState, origins, Inv, TypeOK, Typed, Known, Gated,
              Approved, Explained
<1>2. ASSUME NEW i \in Invocations, Invoke(i) PROVE Inv'
  BY <1>2, InvokeTyped, InvokeGated DEF Inv
<1>3. ASSUME NEW o \in Requests, Handle(o) PROVE Inv'
  BY <1>3, HandleTyped, HandleGated DEF Inv
<1>4. CASE Export
  BY <1>4, ExportTyped, ExportGated DEF Inv
<1>. QED BY <1>1, <1>2, <1>3, <1>4 DEF Next

LEMMA InitInv == Init => Inv
<1>. SUFFICES ASSUME Init PROVE Inv
  OBVIOUS
<1>. USE RequestsAssumption DEF Init, Waiting, Free, Idle, Decided, Nowhere
<1>1. TypeOK
  <2>1. sync \in Parts
    BY DEF Parts
  <2>2. row.review \in ReviewStates /\ row.owner = 0
    BY DEF ReviewStates
  <2>3. kept \subseteq DOMAIN log /\ erp \subseteq 0..made /\ requests \in 0..MaxRequests
    OBVIOUS
  <2>4. /\ made = 0 /\ text \in 0..0
        /\ human \subseteq 0..0 /\ cleared \subseteq 0..0 /\ late \subseteq 0..0
    OBVIOUS
  <2>5. marked \in BOOLEAN
    OBVIOUS
  <2>. HIDE DEF Init
  <2>. QED BY <2>1, <2>2, <2>3, <2>4, <2>5 DEF TypeOK
<1>2. Typed
  BY DEF Typed, Stages, Invs, Ops
<1>3. Known
  BY DEF Known
<1>4. Gated
  BY DEF Gated, Approved, Explained
<1>. QED BY <1>1, <1>2, <1>3, <1>4 DEF Inv

LEMMA InvHolds == Spec => []Inv
<1>. QED BY InitInv, NextInv, PTL DEF Spec

-----------------------------------------------------------------------------
(* The newest snapshots *)

\* Removing a snapshot from a set never makes another one of it less new.
LEMMA NewestOfFewer ==
  ASSUME NEW n, NEW S \in SUBSET Nat, IsFiniteSet(S), NEW T \in SUBSET S, n \in Nat
  PROVE  Newest(n, S) \cap T \subseteq Newest(n, T)
<1>. SUFFICES ASSUME NEW p \in T, Cardinality({q \in S : q > p}) < n
              PROVE  Cardinality({q \in T : q > p}) < n
  BY DEF Newest
<1>1. IsFiniteSet({q \in S : q > p})
  BY FS_Subset
<1>2. {q \in T : q > p} \subseteq {q \in S : q > p}
  OBVIOUS
<1>3. /\ Cardinality({q \in T : q > p}) <= Cardinality({q \in S : q > p})
      /\ IsFiniteSet({q \in T : q > p})
  BY <1>1, <1>2, FS_Subset
<1>4. Cardinality({q \in T : q > p}) \in Nat /\ Cardinality({q \in S : q > p}) \in Nat
  BY <1>1, <1>3, FS_CardinalityType
<1>. QED BY <1>3, <1>4

LEMMA PruneKeepsRecent ==
  ASSUME Typed, TypeOK, RecentAreKept, log' = log, kept' \in {Retained, kept}
  PROVE  RecentAreKept'
<1>1. DOMAIN log = 1..Len(log) /\ Len(log) \in Nat
  BY DEF Typed
<1>2. IsFiniteSet(DOMAIN log) /\ DOMAIN log \subseteq Nat
  BY <1>1, FS_Interval
<1>3. Newest(KeepRecent, DOMAIN log) \cap kept \subseteq Newest(KeepRecent, kept)
  BY <1>2, NewestOfFewer, KeepAssumption DEF TypeOK
<1>. QED BY <1>3 DEF RecentAreKept, Retained

LEMMA InsertKeepsRecent ==
  ASSUME Typed, TypeOK, RecentAreKept, NEW t, NEW review, InsertSnapshot(t, review)
  PROVE  RecentAreKept'
<1>1. /\ DOMAIN log = 1..Len(log) /\ Len(log) \in Nat
      /\ DOMAIN log' = 1..(Len(log) + 1)
  BY DEF Typed, InsertSnapshot
<1>2. IsFiniteSet(DOMAIN log')
  BY <1>1, FS_Interval
<1>3. Newest(KeepRecent, DOMAIN log') \cap DOMAIN log \subseteq Newest(KeepRecent, DOMAIN log)
  BY <1>1, <1>2, NewestOfFewer, KeepAssumption
<1>4. Newest(KeepRecent, DOMAIN log') \subseteq DOMAIN log'
  BY DEF Newest
<1>. QED BY <1>1, <1>3, <1>4 DEF RecentAreKept, InsertSnapshot

LEMMA NextRecent == Inv /\ RecentAreKept /\ [Next]_vars => RecentAreKept'
<1>. SUFFICES ASSUME Inv, RecentAreKept, [Next]_vars PROVE RecentAreKept'
  OBVIOUS
<1>0. CASE UNCHANGED snapshots
  BY <1>0 DEF snapshots, RecentAreKept
<1>1. ASSUME NEW i \in Invocations, Invoke(i) PROVE RecentAreKept'
  <2>1. CASE CaptureSnapshot(i)
    BY <2>1, InsertKeepsRecent DEF CaptureSnapshot, Inv
  <2>2. CASE PruneSnapshots(i)
    BY <2>2, PruneKeepsRecent DEF PruneSnapshots, Inv
  <2>3. CASE UNCHANGED snapshots
    BY <1>0, <2>3
  <2>. QED BY <1>1, <2>1, <2>2, <2>3 DEF Invoke, Promote, LoadItemTarget, CaptureFails, PruneFails,
         ProduceResult, FlowFails, StoreReference, RecordResult, RecordFails, snapshots
<1>2. ASSUME NEW o \in Requests, Handle(o) PROVE RecentAreKept'
  <2>1. CASE RecordRestore(o)
    BY <2>1, InsertKeepsRecent DEF RecordRestore, Inv
  <2>2. CASE PruneAfterRestore(o)
    BY <2>2, PruneKeepsRecent DEF PruneAfterRestore, Inv
  <2>3. CASE UNCHANGED snapshots
    BY <1>0, <2>3
  <2>. QED BY <1>2, <2>1, <2>2, <2>3 DEF Handle, SaveItem, Review, RestoreSnapshot, ReadReference,
         WriteBack, WriteEdit, WriteRestored, RequestFails
<1>3. CASE Export
  BY <1>0, <1>3 DEF Export, StageExport, RunScript, MarkRefsSynced
<1>4. CASE UNCHANGED vars
  BY <1>0, <1>4 DEF vars
<1>. QED BY <1>1, <1>2, <1>3, <1>4 DEF Next

-----------------------------------------------------------------------------
(* Results *)

\* Every variable of an article keeps its type.
THEOREM TypeCorrect == Spec => []TypeOK
<1>1. Inv => TypeOK
  BY DEF Inv
<1>. QED BY <1>1, InvHolds, PTL

\* Whatever order the runs, saves, reviews, restores and exports of an article take, a
\* description the ERP was given was a human's, or stood when the article was approved,
\* or came there by one of the races of a late writer.
THEOREM GateLeaksByRaces == Spec => []OnlyRacesEscape
<1>1. Inv => OnlyRacesEscape
  BY DEF Inv, Gated, Explained, OnlyRacesEscape
<1>. QED BY <1>1, InvHolds, PTL

\* However inserts and prunes of snapshots interleave, the newest ones stay.
THEOREM RecentSurvive == Spec => []RecentAreKept
<1>1. Init => RecentAreKept
  BY DEF Init, RecentAreKept, Newest
<1>. QED BY <1>1, NextRecent, InvHolds, PTL DEF Spec

-----------------------------------------------------------------------------
(* The queue of the shop: ShopwareQueue *)

\* A set without two elements has one at most.
LEMMA OneAtMost ==
  ASSUME NEW S, \A x, y \in S : x = y
  PROVE  Cardinality(S) = IF S = {} THEN 0 ELSE 1
<1>1. CASE S = {}
  BY <1>1, FS_EmptySet
<1>2. CASE S # {}
  <2>1. PICK x \in S : S = {x}
    BY <1>2
  <2>. QED BY <2>1, FS_Singleton
<1>. QED BY <1>1, <1>2

\* The module of the queue brings its own name for the library's operator.
LEMMA SameCardinality == \A S : Shop!Cardinality(S) = Cardinality(S)
BY DEF Shop!Cardinality, Cardinality

\* The outcomes and claims that are under way name different rows, which are all being
\* processed; a row being processed without one was left behind by a crash.
Claims ==
  /\ \A r, s \in Runs : \A v \in batch[r], w \in batch[s] : v.job = w.job => r = s /\ v = w
  /\ \A v, w \in updates : v.job = w.job => v = w
  /\ \A r \in Runs : \A v \in batch[r], w \in updates : v.job # w.job
  /\ \A r \in Runs : \A v \in batch[r] : status[v.job] = "processing"
  /\ \A w \in updates : status[w.job] = "processing" /\ w.to # "processing"

Stranded ==
  \A j \in Jobs : status[j] = "processing" =>
    \/ crashes > 0
    \/ \E r \in Runs : \E v \in batch[r] : v.job = j
    \/ \E w \in updates : w.job = j

ShopInv ==
  /\ Shop!TypeOK /\ batch \in [Runs -> SUBSET Shop!Outcome]
  /\ Claims /\ Stranded

LEMMA ShopInit == Shop!Init => ShopInv
BY ShopAssumption DEF Shop!Init, ShopInv, Shop!TypeOK, Claims, Stranded

LEMMA ShopStep == ShopInv /\ [Shop!Next]_shop => ShopInv'
<1>. SUFFICES ASSUME ShopInv, [Shop!Next]_shop PROVE ShopInv'
  OBVIOUS
<1>. USE DEF ShopInv, Shop!TypeOK, Shop!Outcome, Shop!Ended
<1>1. ASSUME NEW j \in Jobs, Shop!enqueueShopwareSyncJob(j) PROVE ShopInv'
  BY <1>1 DEF Shop!enqueueShopwareSyncJob, Claims, Stranded
<1>2. ASSUME NEW j \in Jobs, Shop!RetryIsDue(j) PROVE ShopInv'
  BY <1>2 DEF Shop!RetryIsDue, Claims, Stranded
<1>3. ASSUME NEW r \in Runs, Shop!claimShopwareSyncJobs(r) PROVE ShopInv'
  <2>. DEFINE C == Shop!Claimed
  <2>1. C \subseteq Jobs /\ \A j \in C : status[j] = "queued"
    BY DEF Shop!Claimed, Shop!Claimable
  <2>2. /\ batch[r] = {}
        /\ status' = [j \in Jobs |-> IF j \in C THEN "processing" ELSE status[j]]
        /\ batch' = [batch EXCEPT ![r] = {Shop!Update(j, "processing", retries[j]) : j \in C}]
        /\ UNCHANGED <<retries, due, updates, crashes>>
    BY <1>3 DEF Shop!claimShopwareSyncJobs
  <2>. HIDE DEF C
  <2>3. \A v \in batch'[r] : v \in Shop!Outcome /\ v.job \in C
    BY <2>1, <2>2 DEF Shop!Update
  <2>4. \A v, w \in batch'[r] : v.job = w.job => v = w
    BY <2>1, <2>2 DEF Shop!Update
  <2>5. \A s \in Runs \ {r} : batch'[s] = batch[s]
    BY <2>2
  <2>6. Shop!TypeOK' /\ batch' \in [Runs -> SUBSET Shop!Outcome]
    BY <2>1, <2>2, <2>3, <2>5
  <2>7. Claims'
    BY <2>1, <2>2, <2>3, <2>4, <2>5 DEF Claims
  <2>8. Stranded'
    <3>. SUFFICES ASSUME NEW j \in Jobs, status'[j] = "processing", crashes = 0
                  PROVE  \/ \E s \in Runs : \E v \in batch'[s] : v.job = j
                         \/ \E w \in updates : w.job = j
      BY <2>2 DEF Stranded
    <3>1. CASE j \in C
      <4>1. Shop!Update(j, "processing", retries[j]) \in batch'[r]
        BY <2>2, <3>1
      <4>2. Shop!Update(j, "processing", retries[j]).job = j
        BY DEF Shop!Update
      <4>. QED BY <4>1, <4>2
    <3>2. CASE j \notin C
      BY <2>2, <2>5, <3>2 DEF Stranded
    <3>. QED BY <3>1, <3>2
  <2>. QED BY <2>6, <2>7, <2>8
<1>4. ASSUME NEW r \in Runs, Shop!processShopwareQueue(r) PROVE ShopInv'
  <2>1. PICK v \in batch[r] :
          /\ \E w \in Shop!Outcomes(v) : updates' = updates \cup {w}
          /\ batch' = [batch EXCEPT ![r] = @ \ {v}]
    BY <1>4 DEF Shop!processShopwareQueue
  <2>2. PICK w \in Shop!Outcomes(v) : updates' = updates \cup {w}
    BY <2>1
  <2>3. UNCHANGED <<status, retries, due, crashes>> /\ v \in Shop!Outcome
    BY <1>4 DEF Shop!processShopwareQueue, Shop!queue
  <2>4. w \in Shop!Outcome /\ w.job = v.job /\ w.to # "processing"
    BY <2>2, <2>3, ShopAssumption DEF Shop!Outcomes, Shop!Update
  <2>5. batch'[r] = batch[r] \ {v} /\ \A s \in Runs \ {r} : batch'[s] = batch[s]
    BY <2>1
  <2>6. Shop!TypeOK' /\ batch' \in [Runs -> SUBSET Shop!Outcome]
    BY <2>1, <2>2, <2>3, <2>4, <2>5
  <2>7. Claims'
    BY <2>2, <2>3, <2>4, <2>5 DEF Claims
  <2>8. Stranded'
    BY <2>2, <2>3, <2>4, <2>5 DEF Stranded
  <2>. QED BY <2>6, <2>7, <2>8
<1>5. ASSUME NEW w \in updates, Shop!WriteOutcome(w) PROVE ShopInv'
  <2>1. /\ updates' = updates \ {w} /\ UNCHANGED <<batch, crashes>>
        /\ status' = [status EXCEPT ![w.job] = w.to]
        /\ retries' = [retries EXCEPT ![w.job] = w.retries]
        /\ due' = [due EXCEPT ![w.job] = w.to # "queued"]
    BY <1>5 DEF Shop!WriteOutcome
  <2>2. w \in Shop!Outcome /\ status[w.job] = "processing" /\ w.to # "processing"
    BY <1>5 DEF Claims
  <2>3. Shop!TypeOK' /\ batch' \in [Runs -> SUBSET Shop!Outcome]
    BY <2>1, <2>2
  <2>4. Claims'
    BY <2>1, <2>2 DEF Claims
  <2>5. Stranded'
    BY <2>1, <2>2 DEF Stranded
  <2>. QED BY <2>3, <2>4, <2>5
<1>6. CASE Shop!Crash
  BY <1>6, ShopAssumption DEF Shop!Crash, Shop!queue, Claims, Stranded
<1>7. CASE UNCHANGED shop
  BY <1>7 DEF shop, Claims, Stranded
<1>. QED BY <1>1, <1>2, <1>3, <1>4, <1>5, <1>6, <1>7 DEF Shop!Next

LEMMA ShopSafe == ShopInv => Shop!InOneHand
<1>. SUFFICES ASSUME ShopInv, NEW j \in Jobs
              PROVE  /\ Shop!Hands(j) <= IF status[j] = "processing" THEN 1 ELSE 0
                     /\ status[j] = "processing" /\ Shop!Hands(j) = 0 => crashes > 0
  BY DEF Shop!InOneHand
<1>. DEFINE R == {r \in Runs : \E w \in batch[r] : w.job = j}
            W == {w \in updates : w.job = j}
<1>1. (\A r, s \in R : r = s) /\ (\A v, w \in W : v = w)
  BY DEF ShopInv, Claims
<1>2. R = {} \/ W = {}
  BY DEF ShopInv, Claims
<1>3. R # {} \/ W # {} => status[j] = "processing"
  BY DEF ShopInv, Claims
<1>4. status[j] = "processing" /\ R = {} /\ W = {} => crashes > 0
  BY DEF ShopInv, Stranded
<1>5. Shop!Hands(j) = Cardinality(R) + Cardinality(W)
  BY SameCardinality DEF Shop!Hands
<1>6. /\ Cardinality(R) = IF R = {} THEN 0 ELSE 1
      /\ Cardinality(W) = IF W = {} THEN 0 ELSE 1
  BY <1>1, OneAtMost
<1>. HIDE DEF R, W
<1>. QED BY <1>2, <1>3, <1>4, <1>5, <1>6

\* A step of the queue is one of its contract.
LEMMA ShopJobs ==
  ASSUME ShopInv, [Shop!Next]_shop
  PROVE  [Shop!Contract!Next]_(Shop!job)
<1>. USE DEF ShopInv, Shop!TypeOK, Shop!Outcome, Shop!Ended
<1>0. UNCHANGED status => UNCHANGED Shop!job
  BY DEF Shop!job
<1>1. ASSUME NEW j \in Jobs, Shop!enqueueShopwareSyncJob(j)
      PROVE  Shop!Contract!Next
  <2>1. Shop!Contract!Enqueue(j)
    BY <1>1 DEF Shop!enqueueShopwareSyncJob, Shop!job, Shop!Contract!Enqueue, Shop!Contract!Change
  <2>. QED BY <2>1 DEF Shop!Contract!Next
<1>2. ASSUME NEW r \in Runs, Shop!claimShopwareSyncJobs(r)
      PROVE  Shop!Contract!Next
  <2>. DEFINE C == Shop!Claimed
  <2>1. C \subseteq Jobs /\ \A j \in C : status[j] = "queued"
    BY DEF Shop!Claimed, Shop!Claimable
  <2>2. status' = [j \in Jobs |-> IF j \in C THEN "processing" ELSE status[j]]
    BY <1>2 DEF Shop!claimShopwareSyncJobs
  <2>. HIDE DEF C
  <2>3. Shop!Contract!Claim(C)
    BY <2>1, <2>2 DEF Shop!job, Shop!Contract!Claim, Shop!Contract!Change
  <2>. QED BY <2>1, <2>3 DEF Shop!Contract!Next
<1>3. ASSUME NEW w \in updates, Shop!WriteOutcome(w)
      PROVE  Shop!Contract!Next
  <2>1. /\ w \in Shop!Outcome /\ status[w.job] = "processing"
        /\ w.to \in {"queued", "succeeded", "failed"}
    BY DEF Claims
  <2>2. status' = [status EXCEPT ![w.job] = w.to]
    BY <1>3 DEF Shop!WriteOutcome
  <2>3. CASE w.to = "queued"
    <3>1. Shop!Contract!GiveBack({w.job})
      BY <2>1, <2>2, <2>3 DEF Shop!job, Shop!Contract!GiveBack, Shop!Contract!Change
    <3>. QED BY <2>1, <3>1 DEF Shop!Contract!Next
  <2>4. CASE w.to \in {"succeeded", "failed"}
    <3>1. Shop!Contract!End(w.job)
      BY <2>1, <2>2, <2>4 DEF Shop!job, Shop!Contract!End, Shop!Contract!Change
    <3>. QED BY <2>1, <3>1 DEF Shop!Contract!Next
  <2>. QED BY <2>1, <2>3, <2>4
<1>4. ASSUME NEW j \in Jobs, Shop!RetryIsDue(j) PROVE UNCHANGED status
  BY <1>4 DEF Shop!RetryIsDue
<1>5. ASSUME NEW r \in Runs, Shop!processShopwareQueue(r) PROVE UNCHANGED status
  BY <1>5 DEF Shop!processShopwareQueue, Shop!queue
<1>6. CASE Shop!Crash
  BY <1>0, <1>6 DEF Shop!Crash, Shop!queue
<1>7. CASE UNCHANGED shop
  BY <1>0, <1>7 DEF shop
<1>. QED BY <1>0, <1>1, <1>2, <1>3, <1>4, <1>5, <1>6, <1>7 DEF Shop!Next

-----------------------------------------------------------------------------
(* Minting ids: IdMinting *)

\* What a request remembers as taken is still taken.
Remembered == since \in [Handlers -> SUBSET taken]

\* create-box counts on within the ids it mints.
MintsOwn(r) == r.op = "box" /\ r.pc # "read" => r.id.kind = "auto"
BoxesMinted == \A h \in Handlers : MintsOwn(minting[h])

MintInv == Minting!TypeOK /\ Remembered /\ Minting!KnownIdsSafe /\ BoxesMinted

\* The module of the requests brings its own names for the ids.
LEMMA SameIds == Minting!Ids = Ids /\ Minting!NoId = NoId
BY DEF Minting!Ids, Ids, Minting!NoId, NoId, Minting!Id, Id

LEMMA MintInit == Minting!Init => MintInv
BY NumbersAssumption, AttemptsAssumption, StartAssumption, SameIds
   DEF Minting!Init, MintInv, Minting!TypeOK, Remembered, Minting!KnownIdsSafe, BoxesMinted,
          MintsOwn, Minting!Request, Minting!WellFormed,
       Minting!Limit, Minting!Idle

-----------------------------------------------------------------------------
(* Requests that go on *)

\* The highest numbers that a reader of the database may see are numbers.
LEMMA NumbersRead ==
  ASSUME taken \subseteq Minting!Ids PROVE Minting!BoxNumbers \subseteq Nat /\
         Minting!ItemNumbers \subseteq Nat
<1>1. \A b \in taken : b.kind \in {"auto", "item"} => b.num \in Nat
  BY ScanAssumption, NumbersAssumption DEF Minting!Ids
<1>2. Minting!BoxNumbers \subseteq Nat
  BY <1>1 DEF Minting!BoxNumbers, Minting!Highest, Minting!VisibleBoxes
<1>3. Minting!ItemNumbers \subseteq Nat
  BY <1>1 DEF Minting!ItemNumbers
<1>. QED BY <1>2, <1>3


\* One request changes and goes on, well formed and knowing what it writes over.
LEMMA MintContinues ==
  ASSUME MintInv, NEW h \in Handlers, NEW r \in Minting!Request, Minting!WellFormed(r),
         MintsOwn(r),
         Minting!Continue(h, r),
         taken' = taken, today' = today, faults' \in 0..MaxFaults, deletes' = deletes,
         r.pc = "write" => r.id \notin since[h]
  PROVE  MintInv'
BY DEF MintInv, Minting!TypeOK, Remembered, Minting!KnownIdsSafe, BoxesMinted, Minting!Continue

\* A request is answered.
LEMMA MintAnswers ==
  ASSUME MintInv, NEW h \in Handlers, Minting!Answer(h), taken \subseteq taken', taken'
         \subseteq Minting!Ids,
         today' = today, faults' \in 0..MaxFaults, deletes' = deletes
  PROVE  MintInv'
<1>1. Minting!Idle \in Minting!Request /\ Minting!WellFormed(Minting!Idle) /\
       MintsOwn(Minting!Idle) /\ Minting!Idle.pc = "read"
  BY DEF Minting!Idle, Minting!Request, Minting!WellFormed, Minting!Limit, MintsOwn
<1>. QED BY <1>1 DEF MintInv, Minting!TypeOK, Remembered, Minting!KnownIdsSafe, BoxesMinted,
       Minting!Answer

\* A request that may go on counts an attempt.
LEMMA MintAttempts ==
  ASSUME MintInv, NEW h \in Handlers, NEW next \in Minting!Request, NEW max \in Nat,
         next.tries < max, max = Minting!Limit[next.op], next.pc # "write",
         next.pc # "read" => next.id \in Minting!Ids, MintsOwn(next),
         Minting!Attempt(h, max, next), Minting!Unchanged
  PROVE  MintInv'
<1>1. CASE next.tries + 1 = max
  BY <1>1, MintAnswers DEF Minting!Attempt, Minting!Unchanged, MintInv, Minting!TypeOK
<1>2. CASE next.tries + 1 # max
  <2>. DEFINE r == [next EXCEPT !.tries = @ + 1]
  <2>1. r \in Minting!Request /\ Minting!WellFormed(r) /\ r.pc # "write" /\ MintsOwn(r)
    BY <1>2 DEF Minting!Request, Minting!WellFormed, MintsOwn
  <2>2. Minting!Continue(h, r)
    BY <1>2 DEF Minting!Attempt, Minting!Request
  <2>. QED BY <2>1, <2>2, MintContinues DEF Minting!Unchanged, MintInv, Minting!TypeOK
<1>. QED BY <1>1, <1>2

\* A candidate is proposed.
LEMMA MintProposes ==
  ASSUME MintInv, NEW h \in Handlers, NEW id \in Minting!Ids, Minting!Propose(h, id),
         minting[h].op = "box" => id.kind = "auto",
         taken' = taken, today' = today, faults' \in 0..MaxFaults, deletes' = deletes
  PROVE  MintInv'
<1>. DEFINE r == [minting[h] EXCEPT !.pc = "check", !.id = id]
<1>1. r \in Minting!Request /\ Minting!WellFormed(r) /\ r.pc = "check" /\ MintsOwn(r)
  BY DEF MintInv, Minting!TypeOK, Minting!Request, Minting!WellFormed, MintsOwn
<1>. QED BY <1>1, MintContinues DEF Minting!Propose

-----------------------------------------------------------------------------
(* Every step *)

LEMMA MintArrives ==
  ASSUME MintInv, NEW h \in Handlers, NEW kind \in {"box", "scan", "item"},
         NEW id \in Minting!Ids \cup {Minting!NoId}, NEW pc \in {"read", "check"},
         pc = "check" => id \in Minting!Ids /\ kind = "scan", Minting!Arrive(h, kind, id, pc)
  PROVE  MintInv'
<1>. DEFINE r == [op |-> kind, pc |-> pc, id |-> id, tries |-> 0]
<1>1. r \in Minting!Request /\ Minting!WellFormed(r) /\ MintsOwn(r)
  BY AttemptsAssumption DEF Minting!Request, Minting!WellFormed, Minting!Limit, MintsOwn
<1>. QED BY <1>1 DEF MintInv, Minting!TypeOK, Remembered, Minting!KnownIdsSafe, BoxesMinted,
       Minting!Arrive

LEMMA MintingInv ==
  ASSUME MintInv, NEW h \in Handlers, Minting!MintStep(h) PROVE MintInv'
<1>. USE DEF MintInv, Minting!TypeOK
<1>1. CASE Minting!ReadMaxBox(h)
  <2>1. CASE Minting!Answer(h)
    BY <1>1, <2>1, MintAnswers DEF Minting!ReadMaxBox, Minting!Unchanged
  <2>2. ASSUME NEW n \in Minting!BoxNumbers, n < Last, Minting!Propose(h, Minting!Id("auto",
         today, n + 1))
        PROVE  MintInv'
    <3>1. Minting!Id("auto", today, n + 1) \in Minting!Ids /\ Minting!Id("auto", today, n +
           1).kind = "auto"
      BY <2>2, NumbersRead, NumbersAssumption DEF Minting!Id, Minting!Ids
    <3>. QED BY <1>1, <2>2, <3>1, MintProposes DEF Minting!ReadMaxBox, Minting!Unchanged
  <2>. QED BY <1>1, <2>1, <2>2 DEF Minting!ReadMaxBox
<1>2. CASE Minting!ReadMaxItem(h)
  <2>1. PICK n \in Minting!ItemNumbers : n < Last /\ Minting!Propose(h, Minting!Id("item", 0, n
         + 1))
    BY <1>2 DEF Minting!ReadMaxItem
  <2>2. Minting!Id("item", 0, n + 1) \in Minting!Ids
    BY <2>1, NumbersRead, NumbersAssumption DEF Minting!Id, Minting!Ids
  <2>. QED BY <1>2, <2>1, <2>2, MintProposes DEF Minting!ReadMaxItem, Minting!Unchanged
<1>3. CASE Minting!ReadMaxItemFails(h)
  <2>1. Minting!Id("item", 0, 1) \in Minting!Ids
    BY NumbersAssumption DEF Minting!Id, Minting!Ids
  <2>2. faults' \in 0..MaxFaults
    BY <1>3, NumbersAssumption DEF Minting!ReadMaxItemFails
  <2>. QED BY <1>3, <2>1, <2>2, MintProposes DEF Minting!ReadMaxItemFails
<1>4. CASE Minting!CheckFree(h)
  <2>. DEFINE r == [minting[h] EXCEPT !.pc = "write"]
  <2>1. r \in Minting!Request /\ Minting!WellFormed(r) /\ r.id \notin since[h] /\ MintsOwn(r)
    BY <1>4 DEF Minting!CheckFree, Minting!Request, Minting!WellFormed, Remembered,
           BoxesMinted, MintsOwn
  <2>. QED BY <1>4, <2>1, MintContinues DEF Minting!CheckFree, Minting!Proceed,
         Minting!Unchanged
<1>5. CASE Minting!RetryBox(h)
  <2>. DEFINE id == minting[h].id
              r == [minting[h] EXCEPT !.id.num = @ + 1]
  <2>1. /\ id \in [kind : {"auto"}, day : 1..Days, num : 1..Last] /\ id.num < Last
        /\ minting[h] \in Minting!Request /\ minting[h].op = "box" /\ minting[h].pc = "check"
        /\ minting[h].tries < BoxAttempts
    BY <1>5, ScanAssumption
       DEF Minting!RetryBox, Minting!Found, Minting!WellFormed, Minting!Limit, BoxesMinted,
              MintsOwn, Minting!Ids
  <2>2. [id EXCEPT !.num = @ + 1] \in Minting!Ids /\ [id EXCEPT !.num = @ + 1].kind = "auto"
    BY <2>1, NumbersAssumption DEF Minting!Ids
  <2>3. r = [minting[h] EXCEPT !.id = [id EXCEPT !.num = @ + 1]]
    BY <2>1
  <2>4. /\ r \in Minting!Request /\ r.op = "box" /\ r.pc = "check" /\ r.tries < BoxAttempts
        /\ r.id \in Minting!Ids /\ MintsOwn(r)
    BY <2>1, <2>2, <2>3 DEF Minting!Request, MintsOwn
  <2>5. Minting!Limit[r.op] = BoxAttempts /\ BoxAttempts \in Nat
    BY <2>4, AttemptsAssumption DEF Minting!Limit
  <2>. QED BY <1>5, <2>4, <2>5, MintAttempts DEF Minting!RetryBox
<1>6. CASE Minting!RetryItem(h)
  <2>. DEFINE r == [minting[h] EXCEPT !.pc = "read", !.id = Minting!NoId]
  <2>1. minting[h] \in Minting!Request /\ minting[h].op = "item" /\ minting[h].tries <
         ItemAttempts
    BY <1>6 DEF Minting!RetryItem, Minting!WellFormed, Minting!Limit
  <2>2. /\ r \in Minting!Request /\ r.op = "item" /\ r.pc = "read" /\ r.tries < ItemAttempts
        /\ MintsOwn(r)
    BY <2>1 DEF Minting!Request, MintsOwn
  <2>3. Minting!Limit[r.op] = ItemAttempts /\ ItemAttempts \in Nat
    BY <2>2, AttemptsAssumption DEF Minting!Limit
  <2>. QED BY <1>6, <2>2, <2>3, MintAttempts DEF Minting!RetryItem
<1>7. CASE Minting!RefuseScanned(h)
  BY <1>7, MintAnswers DEF Minting!RefuseScanned, Minting!Unchanged
<1>. QED BY <1>1, <1>2, <1>3, <1>4, <1>5, <1>6, <1>7 DEF Minting!MintStep

LEMMA MintNext == MintInv /\ [Minting!Next]_ids => MintInv'
<1>. SUFFICES ASSUME MintInv, [Minting!Next]_ids PROVE MintInv'
  OBVIOUS
<1>1. ASSUME NEW h \in Handlers, Minting!CreateBox(h) \/ Minting!CreateScanned(h) \/
       Minting!AddItem(h)
      PROVE  MintInv'
  BY <1>1, MintArrives DEF Minting!CreateBox, Minting!CreateScanned, Minting!AddItem,
         Minting!Ids
<1>2. ASSUME NEW h \in Handlers, Minting!Write(h) \/ Minting!WriteFails(h)
      PROVE  MintInv'
  <2>1. minting[h].id \in Minting!Ids
    BY <1>2 DEF MintInv, Minting!TypeOK, Minting!WellFormed, Minting!Write, Minting!WriteFails
  <2>. QED BY <1>2, <2>1, MintAnswers, NumbersAssumption DEF MintInv, Minting!TypeOK,
         Minting!Write, Minting!WriteFails
<1>3. CASE Minting!Delete
  BY <1>3, NumbersAssumption DEF Minting!Delete, MintInv, Minting!TypeOK, Remembered,
         Minting!KnownIdsSafe, BoxesMinted
<1>4. CASE Minting!NextDay
  BY <1>4, NumbersAssumption DEF Minting!NextDay, MintInv, Minting!TypeOK, Remembered,
         Minting!KnownIdsSafe, BoxesMinted
<1>5. CASE UNCHANGED ids
  BY <1>5 DEF ids, MintInv, Minting!TypeOK, Remembered, Minting!KnownIdsSafe, BoxesMinted
<1>. QED BY <1>1, <1>2, <1>3, <1>4, <1>5, MintingInv DEF Minting!Next

-----------------------------------------------------------------------------
(* The questions on the card of a device: SlotAnswers *)

AnswerTasks ==
  [kind : {"none", "answer", "clear"}, pc : {"none", "user", "post", "ok", "failed"},
   question : Pieces \cup {None}, sheet : AnswerPage!Sheet]

Answering(t) == answerTask[t].kind # "none"

Asked(t) ==
  /\ Answering(t) <=> answerTask[t].pc # "none"
  /\ Answering(t) => answerTask[t].question \in Pieces

\* How far the answer to a settled question has come: card and store agree before it is
\* posted, and the store has it afterwards; of a cleared one the card may not be told.
Carried(t) ==
  LET k == answerTask[t]  q == k.question IN
  \/ k.pc = "user" /\ answers[q] = given[q] /\ shown[q] = given[q]
  \/ /\ k.pc \in {"post", "ok"} /\ given[q] = k.sheet[q]
     /\ k.pc = "ok" => answers[q] = given[q]
     /\ k.kind = "clear" => shown[q] = given[q]
  \/ k.pc = "failed" /\ k.kind = "clear" /\ answers[q] = given[q] /\ shown[q] = given[q]

\* A settled question: the card is loaded before the first answer, the question is alone
\* under way while it is answered, and the sheets of answers to others carry it on.
Settled(q) ==
  /\ \A t \in Handlers : Answering(t) => reading.pc = "done"
  /\ reading.pc = "read" => reading.sheet[q] = given[q]
  /\ (\A t \in Handlers : Answering(t) => answerTask[t].question # q) =>
       answers[q] = given[q] /\ (reading.pc = "done" => shown[q] = given[q])
  /\ \A t \in Handlers : Answering(t) /\ answerTask[t].question = q =>
       (\A s \in Handlers : Answering(s) => s = t) /\ Carried(t)
  /\ \A t \in Handlers : Answering(t) /\ answerTask[t].question # q =>
       answerTask[t].sheet[q] = given[q]

AnswerInv ==
  /\ AnswerPage!TypeOK /\ answerTask \in [Handlers -> AnswerTasks]
  /\ reading \in [pc : {"sent", "read", "done"}, sheet : AnswerPage!Sheet]
  /\ \A t \in Handlers : Asked(t)
  /\ \A q \in Pieces \ unsettled : Settled(q)

LEMMA AnswerInit == AnswerPage!Init => AnswerInv
<1>. SUFFICES ASSUME AnswerPage!Init PROVE AnswerInv
  OBVIOUS
<1>1. AnswerPage!Blank \in AnswerPage!Sheet
  BY DEF AnswerPage!Blank, AnswerPage!Sheet
<1>2. AnswerPage!NoTask \in AnswerTasks /\ AnswerPage!NoTask.kind = "none"
      /\ AnswerPage!NoTask.pc = "none"
  BY <1>1 DEF AnswerPage!NoTask, AnswerTasks
<1>3. \A t \in Handlers : answerTask[t] = AnswerPage!NoTask
  BY DEF AnswerPage!Init
<1>4. answerTask \in [Handlers -> AnswerTasks] /\ \A t \in Handlers : ~Answering(t) /\ answerTask[t].pc = "none"
  BY <1>2, <1>3 DEF AnswerPage!Init, Answering
<1>5. reading \in [pc : {"sent", "read", "done"}, sheet : AnswerPage!Sheet]
  BY <1>1 DEF AnswerPage!Init
<1>6. AnswerPage!TypeOK
  <2>1. \A t \in Handlers : answerTask[t].pc \in {"none", "user", "post", "ok", "failed"}
                            /\ answerTask[t].sheet \in AnswerPage!Sheet
    BY <1>4 DEF AnswerTasks
  <2>2. answerClicks \in 0..MaxClicks /\ answerForeign \in 0..MaxForeign
    BY PagesAssumption DEF AnswerPage!Init
  <2>. QED BY <1>1, <1>5, <2>1, <2>2 DEF AnswerPage!Init, AnswerPage!TypeOK
<1>7. \A q \in Pieces : Settled(q)
  BY <1>4 DEF AnswerPage!Init, Settled
<1>. QED BY <1>4, <1>5, <1>6, <1>7 DEF AnswerInv, Asked

LEMMA AnswerStep == AnswerInv /\ [AnswerPage!Next]_answerPage => AnswerInv'
<1>. SUFFICES ASSUME AnswerInv, [AnswerPage!Next]_answerPage PROVE AnswerInv'
  OBVIOUS
<1>. USE DEF AnswerInv, AnswerPage!TypeOK
<1>0. AnswerPage!NoTask \in AnswerTasks /\ AnswerPage!NoTask.kind = "none"
      /\ AnswerPage!NoTask.pc = "none" /\ AnswerPage!Blank \in AnswerPage!Sheet
  BY DEF AnswerPage!NoTask, AnswerTasks, AnswerPage!Blank, AnswerPage!Sheet
<1>1. CASE AnswerPage!ReadAnswers
  BY <1>1 DEF AnswerPage!ReadAnswers, Settled, Asked, Answering, Carried
<1>2. CASE AnswerPage!ShowAnswers
  BY <1>2 DEF AnswerPage!ShowAnswers, Settled, Asked, Answering, Carried
<1>3. CASE AnswerPage!AnswersUnknown
  BY <1>0, <1>3 DEF AnswerPage!AnswersUnknown, Asked, Answering
<1>4. ASSUME NEW t \in Handlers, NEW kind \in {"answer", "clear"}, NEW p \in Pieces,
             NEW v \in Values \cup {None}, AnswerPage!Begin(t, kind, p, v)
      PROVE  AnswerInv'
  <2>. DEFINE sheet == AnswerPage!Merged(p, v)
              k == [kind |-> kind, pc |-> "user", question |-> p, sheet |-> sheet]
  <2>1. /\ sheet \in AnswerPage!Sheet /\ sheet[p] = v
        /\ \A q \in Pieces \ {p} : sheet[q] = shown[q]
    BY DEF AnswerPage!Merged, AnswerPage!Sheet
  <2>2. /\ answerTask' = [answerTask EXCEPT ![t] = k]
        /\ unsettled' = AnswerPage!UnsettledBy(p) /\ ~Answering(t)
        /\ answerClicks' = answerClicks - 1 /\ answerClicks > 0
        /\ UNCHANGED <<answers, shown, reading, pending, given, answerForeign>>
    BY <1>4 DEF AnswerPage!Begin, Answering
  <2>. HIDE DEF sheet
  <2>3. k \in AnswerTasks /\ k.kind # "none" /\ k.pc = "user" /\ k.question = p /\ k.sheet = sheet
    BY <2>1 DEF AnswerTasks
  <2>. HIDE DEF k
  <2>4. answerTask' \in [Handlers -> AnswerTasks] /\ answerTask'[t] = k
        /\ \A s \in Handlers \ {t} : answerTask'[s] = answerTask[s]
    BY <2>2, <2>3
  <2>5. Answering(t)' /\ \A s \in Handlers \ {t} : Answering(s)' = Answering(s)
    BY <2>3, <2>4 DEF Answering
  <2>6. \A s \in Handlers : Asked(s)'
    BY <2>3, <2>4, <2>5 DEF Asked
  <2>7. unsettled' \subseteq Pieces
    BY <2>2 DEF AnswerPage!UnsettledBy, AnswerPage!UnderWay, Asked, Answering
  <2>8. AnswerPage!TypeOK'
    <3>1. \A s \in Handlers : answerTask'[s] \in AnswerTasks
      BY <2>4
    <3>2. answerClicks' \in 0..MaxClicks
      BY <2>2, PagesAssumption
    <3>. QED BY <2>2, <2>7, <3>1, <3>2 DEF AnswerTasks
  <2>9. ASSUME NEW q \in Pieces \ unsettled' PROVE Settled(q)'
    <3>1. /\ reading.pc = "done" /\ q \notin unsettled
          /\ q = p => \A s \in Handlers : ~Answering(s)
          /\ \A s \in Handlers : Answering(s) => answerTask[s].question # q
      <4>1. reading.pc = "done"
        BY <2>2, <2>9 DEF AnswerPage!UnsettledBy, AnswerPage!AtRest
      <4>2. CASE AnswerPage!AtRest
        BY <2>2, <2>9, <4>1, <4>2 DEF AnswerPage!UnsettledBy, AnswerPage!AtRest, AnswerPage!UnderWay, Answering
      <4>3. CASE ~AnswerPage!AtRest
        BY <2>2, <2>9, <4>1, <4>3 DEF AnswerPage!UnsettledBy, AnswerPage!UnderWay, Answering
      <4>. QED BY <4>1, <4>2, <4>3
    <3>2. answers[q] = given[q] /\ shown[q] = given[q]
      BY <3>1 DEF Settled
    <3>3. q = p => (\A s \in Handlers : Answering(s)' => s = t) /\ Carried(t)'
      BY <2>2, <2>3, <2>4, <2>5, <3>1, <3>2 DEF Carried
    <3>4. q # p => sheet[q] = given[q]
      BY <2>1, <2>9, <3>2
    <3>5. \A s \in Handlers \ {t} : Answering(s) => answerTask[s].sheet[q] = given[q]
      BY <3>1 DEF Settled
    <3>. QED BY <2>2, <2>3, <2>4, <2>5, <3>1, <3>2, <3>3, <3>4, <3>5 DEF Settled
  <2>. QED BY <2>2, <2>4, <2>6, <2>8, <2>9
<1>5. ASSUME NEW t \in Handlers, AnswerPage!NoUser(t) PROVE AnswerInv'
  <2>1. answerTask' = [answerTask EXCEPT ![t] = AnswerPage!NoTask] /\ answerTask[t].pc = "user"
        /\ UNCHANGED <<answers, shown, reading, pending, given, unsettled, answerClicks, answerForeign>>
    BY <1>5 DEF AnswerPage!NoUser
  <2>2. answerTask' \in [Handlers -> AnswerTasks] /\ answerTask'[t] = AnswerPage!NoTask
        /\ \A s \in Handlers \ {t} : answerTask'[s] = answerTask[s]
    BY <1>0, <2>1
  <2>3. Answering(t) /\ ~Answering(t)' /\ \A s \in Handlers \ {t} : Answering(s)' = Answering(s)
    BY <1>0, <2>1, <2>2 DEF Answering, Asked
  <2>4. AnswerPage!TypeOK' /\ \A s \in Handlers : Asked(s)'
    <3>1. \A s \in Handlers : answerTask'[s] \in AnswerTasks
      BY <2>2
    <3>2. \A s \in Handlers : Asked(s)'
      BY <1>0, <2>2, <2>3 DEF Asked
    <3>. QED BY <2>1, <3>1, <3>2 DEF AnswerTasks
  <2>5. ASSUME NEW q \in Pieces \ unsettled' PROVE Settled(q)'
    <3>1. Settled(q)
      BY <2>1, <2>5
    <3>2. CASE answerTask[t].question = q
      <4>1. answers[q] = given[q] /\ shown[q] = given[q] /\ reading.pc = "done"
        BY <2>1, <2>3, <3>1, <3>2 DEF Settled, Carried
      <4>2. \A s \in Handlers : ~Answering(s)'
        BY <2>3, <3>1, <3>2 DEF Settled
      <4>. QED BY <2>1, <4>1, <4>2 DEF Settled
    <3>3. CASE answerTask[t].question # q
      <4>1. \A s \in Handlers : Answering(s)' => s # t /\ Answering(s) /\ answerTask'[s] = answerTask[s]
        BY <2>2, <2>3
      <4>2. (\A s \in Handlers : Answering(s)' => answerTask'[s].question # q) =>
              \A s \in Handlers : Answering(s) => answerTask[s].question # q
        BY <2>2, <2>3, <3>3
      <4>3. \A s \in Handlers : Answering(s)' => Carried(s)' = Carried(s)
        BY <2>1, <4>1 DEF Carried
      <4>. QED BY <2>1, <3>1, <4>1, <4>2, <4>3 DEF Settled
    <3>. QED BY <3>2, <3>3
  <2>. QED BY <2>1, <2>2, <2>4, <2>5
<1>6. ASSUME NEW t \in Handlers, AnswerPage!Submit(t) PROVE AnswerInv'
  <2>. DEFINE p == answerTask[t].question
  <2>1. /\ answerTask[t].pc = "user"
        /\ answerTask' = [answerTask EXCEPT ![t].pc = "post"]
        /\ given' = [given EXCEPT ![p] = answerTask[t].sheet[p]]
        /\ IF answerTask[t].kind = "answer" THEN pending' = p /\ UNCHANGED shown
           ELSE shown' = answerTask[t].sheet /\ UNCHANGED pending
        /\ unsettled' = IF reading.pc = "done" /\ AnswerPage!UnderWay = {t}
                        THEN unsettled \ {p} ELSE unsettled
        /\ UNCHANGED <<answers, reading, answerClicks, answerForeign>>
    BY <1>6 DEF AnswerPage!Submit
  <2>2. answerTask[t] \in AnswerTasks
    OBVIOUS
  <2>3. /\ answerTask' \in [Handlers -> AnswerTasks]
        /\ answerTask'[t] = [answerTask[t] EXCEPT !.pc = "post"]
        /\ \A s \in Handlers \ {t} : answerTask'[s] = answerTask[s]
    BY <2>1, <2>2 DEF AnswerTasks
  <2>4. /\ answerTask'[t].pc = "post" /\ answerTask'[t].kind = answerTask[t].kind
        /\ answerTask'[t].sheet = answerTask[t].sheet /\ answerTask'[t].question = p
    BY <2>2, <2>3 DEF AnswerTasks
  <2>5. Answering(t) /\ p \in Pieces /\ \A s \in Handlers : Answering(s)' = Answering(s)
    <3>1. Answering(t) /\ p \in Pieces /\ Answering(t)' = Answering(t)
      BY <2>1, <2>4 DEF Answering, Asked
    <3>2. \A s \in Handlers \ {t} : Answering(s)' = Answering(s)
      BY <2>3 DEF Answering
    <3>. QED BY <3>1, <3>2
  <2>6. \A s \in Handlers : Asked(s)' /\ answerTask'[s].question = answerTask[s].question
                            /\ answerTask'[s].sheet = answerTask[s].sheet
    BY <2>3, <2>4, <2>5 DEF Asked
  <2>7. AnswerPage!TypeOK'
    <3>1. \A s \in Handlers : answerTask'[s] \in AnswerTasks
      BY <2>3
    <3>2. given' \in AnswerPage!Sheet /\ shown' \in AnswerPage!Sheet
      BY <2>1, <2>2 DEF AnswerTasks, AnswerPage!Sheet
    <3>3. pending' \in Pieces \cup {None} /\ unsettled' \subseteq Pieces
      BY <2>1, <2>2 DEF AnswerTasks
    <3>. QED BY <2>1, <3>1, <3>2, <3>3 DEF AnswerTasks
  <2>8. ASSUME NEW q \in Pieces \ unsettled' PROVE Settled(q)'
    <3>1. CASE q = p
      <4>1. reading.pc = "done" /\ \A s \in Handlers : Answering(s) => s = t
        <5>1. CASE q \in unsettled
          BY <2>1, <2>8, <3>1, <5>1 DEF AnswerPage!UnderWay, Answering
        <5>2. CASE q \notin unsettled
          BY <2>5, <3>1, <5>2 DEF Settled
        <5>. QED BY <5>1, <5>2
      <4>2. given'[q] = answerTask[t].sheet[q]
        BY <2>1, <3>1 DEF AnswerPage!Sheet
      <4>3. Carried(t)'
        BY <2>1, <2>4, <3>1, <4>2 DEF Carried
      <4>. QED BY <2>1, <2>5, <2>6, <3>1, <4>1, <4>3 DEF Settled
    <3>2. CASE q # p
      <4>1. Settled(q)
        BY <2>1, <2>8, <3>2
      <4>2. given'[q] = given[q] /\ answers'[q] = answers[q]
        BY <2>1, <3>2 DEF AnswerPage!Sheet
      <4>3. \A s \in Handlers : Answering(s) => answerTask[s].question # q
        BY <2>5, <3>2, <4>1 DEF Settled
      <4>4. shown[q] = given[q] /\ answerTask[t].sheet[q] = given[q]
        BY <2>5, <3>2, <4>1, <4>3 DEF Settled
      <4>5. shown'[q] = given[q]
        BY <2>1, <4>4
      <4>. QED BY <2>1, <2>5, <2>6, <4>1, <4>2, <4>3, <4>5 DEF Settled
    <3>. QED BY <3>1, <3>2
  <2>. QED BY <2>1, <2>3, <2>6, <2>7, <2>8
<1>7. ASSUME NEW t \in Handlers, AnswerPage!Review(t) PROVE AnswerInv'
  <2>. DEFINE k == answerTask[t]
              p == answerTask[t].question
  <2>1. /\ k.pc = "post" /\ Answering(t) /\ k \in AnswerTasks /\ p \in Pieces
        /\ UNCHANGED <<shown, reading, pending, given, answerClicks, answerForeign>>
    BY <1>7 DEF AnswerPage!Review, Asked
  <2>2. PICK pc \in {"ok", "failed"} :
          /\ answerTask' = [answerTask EXCEPT ![t].pc = pc]
          /\ answers' \in {answers, k.sheet} /\ unsettled' \in {unsettled, unsettled \cup {p}}
          /\ p \notin unsettled' => answers' = k.sheet /\ (pc = "ok" \/ k.kind = "clear")
    <3>1. PICK stored \in BOOLEAN, told \in BOOLEAN :
            /\ answers' = IF stored THEN k.sheet ELSE answers
            /\ answerTask' = [answerTask EXCEPT ![t].pc = IF stored /\ told THEN "ok" ELSE "failed"]
            /\ unsettled' = IF stored /\ (told \/ k.kind = "clear")
                            THEN unsettled ELSE unsettled \cup {p}
      BY <1>7 DEF AnswerPage!Review
    <3>2. CASE stored /\ told
      BY <3>1, <3>2
    <3>3. CASE ~(stored /\ told)
      BY <3>1, <3>3
    <3>. QED BY <3>2, <3>3
  <2>3. /\ answerTask' \in [Handlers -> AnswerTasks] /\ answerTask'[t] = [k EXCEPT !.pc = pc]
        /\ \A s \in Handlers \ {t} : answerTask'[s] = answerTask[s]
    BY <2>1, <2>2 DEF AnswerTasks
  <2>4. /\ answerTask'[t].pc = pc /\ answerTask'[t].kind = k.kind /\ answerTask'[t].sheet = k.sheet
        /\ answerTask'[t].question = p
    BY <2>1, <2>3 DEF AnswerTasks
  <2>5. \A s \in Handlers : /\ Answering(s)' = Answering(s) /\ Asked(s)'
                            /\ answerTask'[s].question = answerTask[s].question
                            /\ answerTask'[s].sheet = answerTask[s].sheet
    <3>1. Answering(t)' = Answering(t) /\ Asked(t)'
      BY <2>1, <2>4 DEF Answering, Asked
    <3>2. \A s \in Handlers \ {t} : Answering(s)' = Answering(s) /\ Asked(s)'
      BY <2>3 DEF Answering, Asked
    <3>. QED BY <2>3, <2>4, <3>1, <3>2
  <2>6. AnswerPage!TypeOK'
    <3>1. \A s \in Handlers : answerTask'[s] \in AnswerTasks
      BY <2>3
    <3>2. answers' \in AnswerPage!Sheet /\ unsettled' \subseteq Pieces
      BY <2>1, <2>2 DEF AnswerTasks
    <3>. QED BY <2>1, <3>1, <3>2 DEF AnswerTasks
  <2>7. ASSUME NEW q \in Pieces \ unsettled' PROVE Settled(q)'
    <3>1. Settled(q)
      BY <2>2, <2>7
    <3>2. CASE q = p
      <4>1. answers' = k.sheet /\ (pc = "ok" \/ k.kind = "clear")
        BY <2>2, <2>7, <3>2
      <4>2. /\ given[q] = k.sheet[q] /\ (k.kind = "clear" => shown[q] = given[q])
            /\ reading.pc = "done" /\ \A s \in Handlers : Answering(s) => s = t
        BY <2>1, <3>1, <3>2 DEF Settled, Carried
      <4>3. Carried(t)'
        BY <2>1, <2>2, <2>4, <3>2, <4>1, <4>2 DEF Carried
      <4>. QED BY <2>1, <2>5, <3>2, <4>2, <4>3 DEF Settled
    <3>3. CASE q # p
      <4>1. \A s \in Handlers : Answering(s) => answerTask[s].question # q
        BY <2>1, <3>1, <3>3 DEF Settled
      <4>2. answers[q] = given[q] /\ k.sheet[q] = given[q]
        BY <2>1, <3>1, <3>3, <4>1 DEF Settled
      <4>3. answers'[q] = given[q]
        BY <2>2, <4>2
      <4>. QED BY <2>1, <2>5, <3>1, <4>1, <4>3 DEF Settled
    <3>. QED BY <3>2, <3>3
  <2>. QED BY <2>1, <2>3, <2>5, <2>6, <2>7
<1>8. ASSUME NEW t \in Handlers, AnswerPage!Answered(t) PROVE AnswerInv'
  <2>. DEFINE k == answerTask[t]
              p == answerTask[t].question
  <2>1. /\ k.pc \in {"ok", "failed"} /\ Answering(t) /\ k \in AnswerTasks
        /\ answerTask' = [answerTask EXCEPT ![t] = AnswerPage!NoTask]
        /\ shown' = IF k.kind = "answer" /\ k.pc = "ok" THEN k.sheet ELSE shown
        /\ pending' = IF k.kind = "answer" THEN None ELSE pending
        /\ UNCHANGED <<answers, reading, given, unsettled, answerClicks, answerForeign>>
    BY <1>8 DEF AnswerPage!Answered, AnswerPage!ShownAfter, Asked
  <2>2. answerTask' \in [Handlers -> AnswerTasks] /\ answerTask'[t] = AnswerPage!NoTask
        /\ \A s \in Handlers \ {t} : answerTask'[s] = answerTask[s]
    BY <1>0, <2>1
  <2>3. ~Answering(t)' /\ \A s \in Handlers \ {t} : Answering(s)' = Answering(s)
    BY <1>0, <2>2 DEF Answering
  <2>4. AnswerPage!TypeOK' /\ \A s \in Handlers : Asked(s)'
    <3>1. \A s \in Handlers : answerTask'[s] \in AnswerTasks
      BY <2>2
    <3>2. shown' \in AnswerPage!Sheet /\ pending' \in Pieces \cup {None}
      BY <2>1 DEF AnswerTasks
    <3>3. \A s \in Handlers : Asked(s)'
      BY <1>0, <2>2, <2>3 DEF Asked
    <3>. QED BY <2>1, <3>1, <3>2, <3>3 DEF AnswerTasks
  <2>5. ASSUME NEW q \in Pieces \ unsettled' PROVE Settled(q)'
    <3>1. Settled(q)
      BY <2>1, <2>5
    <3>2. CASE q = p
      <4>1. /\ answers[q] = given[q] /\ reading.pc = "done"
            /\ k.kind = "clear" => shown[q] = given[q]
            /\ k.kind # "clear" => k.pc = "ok" /\ k.sheet[q] = given[q]
        BY <2>1, <3>1, <3>2 DEF Settled, Carried
      <4>2. shown'[q] = given[q]
        BY <2>1, <4>1 DEF Answering, AnswerTasks
      <4>3. \A s \in Handlers : ~Answering(s)'
        BY <2>1, <2>3, <3>1, <3>2 DEF Settled
      <4>. QED BY <2>1, <4>1, <4>2, <4>3 DEF Settled
    <3>3. CASE q # p
      <4>1. \A s \in Handlers : Answering(s) => answerTask[s].question # q
        BY <2>1, <3>1, <3>3 DEF Settled
      <4>2. /\ answers[q] = given[q] /\ shown[q] = given[q] /\ k.sheet[q] = given[q]
            /\ reading.pc = "done"
        BY <2>1, <3>1, <3>3, <4>1 DEF Settled
      <4>3. shown'[q] = given[q]
        BY <2>1, <4>2
      <4>4. \A s \in Handlers : Answering(s)' => Answering(s) /\ answerTask'[s] = answerTask[s]
        BY <2>2, <2>3
      <4>. QED BY <2>1, <3>1, <4>1, <4>2, <4>3, <4>4 DEF Settled
    <3>. QED BY <3>2, <3>3
  <2>. QED BY <2>1, <2>2, <2>4, <2>5
<1>9. ASSUME NEW p \in Pieces, AnswerPage!ReviewElsewhere(p) PROVE AnswerInv'
  <2>1. /\ unsettled' = unsettled \cup {p} /\ answerForeign > 0
        /\ answerForeign' = answerForeign - 1
        /\ \E v \in Values \cup {None} : answers' = [answers EXCEPT ![p] = v]
        /\ UNCHANGED <<shown, reading, pending, answerTask, given, answerClicks>>
    BY <1>9 DEF AnswerPage!ReviewElsewhere
  <2>2. answers' \in AnswerPage!Sheet /\ \A q \in Pieces \ {p} : answers'[q] = answers[q]
    BY <2>1 DEF AnswerPage!Sheet
  <2>3. answerForeign' \in 0..MaxForeign
    BY <2>1, PagesAssumption
  <2>4. \A t \in Handlers : Asked(t)' /\ Answering(t)' = Answering(t)
    BY <2>1 DEF Asked, Answering
  <2>5. ASSUME NEW q \in Pieces \ unsettled' PROVE Settled(q)'
    <3>1. Settled(q) /\ answers'[q] = answers[q]
      BY <2>1, <2>2, <2>5
    <3>2. \A t \in Handlers : answerTask[t].question = q => Carried(t)' = Carried(t)
      BY <2>1, <3>1 DEF Carried
    <3>. QED BY <2>1, <2>4, <3>1, <3>2 DEF Settled
  <2>. QED BY <2>1, <2>2, <2>3, <2>4, <2>5
<1>10. CASE UNCHANGED answerPage
  BY <1>10 DEF answerPage, Settled, Asked, Answering, Carried
<1>. QED BY <1>1, <1>2, <1>3, <1>4, <1>5, <1>6, <1>7, <1>8, <1>9, <1>10
         DEF AnswerPage!Next, AnswerPage!handleSlotAnswer, AnswerPage!handleClearAnswer

LEMMA AnswerSafe == AnswerInv => AnswerPage!AnswersKept
<1>. SUFFICES ASSUME AnswerInv, AnswerPage!AtRest, NEW q \in Pieces \ unsettled
              PROVE  answers[q] = given[q] /\ shown[q] = given[q]
  BY DEF AnswerPage!AnswersKept
<1>1. reading.pc = "done" /\ \A t \in Handlers : ~Answering(t)
  BY DEF AnswerPage!AtRest, AnswerPage!UnderWay, Answering
<1>2. Settled(q)
  BY DEF AnswerInv
<1>. QED BY <1>1, <1>2 DEF Settled

-----------------------------------------------------------------------------
(* The parts on the card of a device: SparePartSlot *)

PartTasks ==
  [kind : {"none", "record", "take", "delete"},
   pc : {"none", "ask", "missing", "again", "ok", "failed"},
   part : Pieces \cup {None}, fresh : BOOLEAN]
PartFetches ==
  [pc : {"none", "sent", "read"}, inside : SUBSET Pieces, taken : SUBSET Pieces, fresh : BOOLEAN]

PartTyped ==
  /\ PartPage!TypeOK
  /\ listed \in [inside : SUBSET Pieces, taken : SUBSET Pieces, fresh : BOOLEAN]
  /\ fetch \in [Marks -> PartFetches] /\ partTask \in [Handlers -> PartTasks]
  /\ \A t \in Handlers : partTask[t].kind = "none" <=> partTask[t].pc = "none"

Inside == PartPage!At("device")

\* What was read is up to date until something changes.
ReadIsFresh == \A m \in Marks : fetch[m].pc = "read" /\ fetch[m].fresh => fetch[m].inside = Inside

\* A list that counts as up to date is, or is about to be loaded.
ListIsFresh ==
  listed.fresh => \/ listed.inside = Inside
                  \/ \E m \in Marks : ~PartPage!Free(m)
                  \/ \E t \in Handlers : partTask[t].pc = "ok"

\* Nothing but a part is recorded as long as a dialog that was opened at rest is open.
DialogIsFresh ==
  popup.open /\ popup.fresh =>
    /\ listed.inside = {} /\ \A m \in Marks : PartPage!Free(m)
    /\ \A t \in Handlers : partTask[t].kind \in {"none", "record"}

\* A part that is about to be recorded by one who could know finds the slot empty.
RecordIsFresh ==
  \A t \in Handlers :
    partTask[t].kind = "record" /\ partTask[t].pc = "ask" /\ partTask[t].fresh => Inside = {}

PartInv ==
  /\ PartTyped /\ ReadIsFresh /\ ListIsFresh /\ DialogIsFresh /\ RecordIsFresh
  /\ PartPage!DoubledOnlyUnseen

LEMMA PartInit == PartPage!Init => PartInv
<1>. SUFFICES ASSUME PartPage!Init PROVE PartInv
  OBVIOUS
<1>1. PICK first \in Marks :
        fetch = [m \in Marks |-> IF m = first THEN [PartPage!NoFetch EXCEPT !.pc = "sent"]
                                 ELSE PartPage!NoFetch]
  BY DEF PartPage!Init
<1>2. \A m \in Marks : fetch[m] \in PartFetches /\ fetch[m].pc # "read"
  BY <1>1 DEF PartPage!NoFetch, PartFetches
<1>3. fetch[first].pc = "sent"
  BY <1>1 DEF PartPage!NoFetch
<1>4. \A t \in Handlers : /\ partTask[t] \in PartTasks /\ partTask[t].kind = "none"
                          /\ partTask[t].pc = "none"
  BY DEF PartPage!Init, PartPage!NoTask, PartTasks
<1>5. partClicks \in 0..MaxClicks /\ partForeign \in 0..MaxForeign
  BY PagesAssumption DEF PartPage!Init
<1>6. popup \in [open : BOOLEAN, fresh : BOOLEAN] /\ ~popup.open
  BY DEF PartPage!Init, PartPage!Closed
<1>7. PartTyped
  <2>1. partTask \in [Handlers -> PartTasks] /\ fetch \in [Marks -> PartFetches]
    BY <1>1, <1>2, <1>4 DEF PartPage!Init
  <2>2. PartPage!TypeOK
    BY <1>2, <1>4, <1>5, <1>6 DEF PartPage!TypeOK, PartPage!Init, PartFetches, PartTasks
  <2>. QED BY <1>4, <2>1, <2>2 DEF PartTyped, PartPage!Init
<1>. QED BY <1>2, <1>3, <1>4, <1>6, <1>7
   DEF PartInv, PartPage!Init, ReadIsFresh, ListIsFresh, DialogIsFresh, RecordIsFresh,
       PartPage!Free, PartPage!DoubledOnlyUnseen

\* The steps that leave the parts where they are: one handler or one load goes on.
LEMMA PartTaskTyped ==
  ASSUME PartInv, NEW t \in Handlers, NEW k \in PartTasks, k.kind = "none" <=> k.pc = "none",
         partTask' = [partTask EXCEPT ![t] = k]
  PROVE  /\ partTask' \in [Handlers -> PartTasks] /\ partTask'[t] = k
         /\ \A s \in Handlers \ {t} : partTask'[s] = partTask[s]
         /\ \A s \in Handlers : partTask'[s].kind = "none" <=> partTask'[s].pc = "none"
         /\ \A s \in Handlers : partTask'[s].pc \in {"none", "ask", "missing", "again", "ok", "failed"}
BY DEF PartInv, PartTyped, PartTasks

LEMMA PartLoadStep ==
  ASSUME PartInv, NEW m \in Marks,
         PartPage!ReadParts(m) \/ PartPage!ShowParts(m) \/ PartPage!PartsUnknown(m)
  PROVE  PartInv'
<1>. USE DEF PartInv, PartTyped, PartPage!TypeOK, PartFetches, PartPage!Free
<1>1. CASE PartPage!ReadParts(m)
  BY <1>1 DEF PartPage!ReadParts, PartPage!page, PartPage!At, Inside, ReadIsFresh, ListIsFresh,
     DialogIsFresh, RecordIsFresh, PartPage!DoubledOnlyUnseen
<1>2. CASE PartPage!ShowParts(m)
  BY <1>2 DEF PartPage!ShowParts, PartPage!NoFetch, PartPage!At, Inside, ReadIsFresh, ListIsFresh,
     DialogIsFresh, RecordIsFresh, PartPage!DoubledOnlyUnseen
<1>3. CASE PartPage!PartsUnknown(m)
  BY <1>3 DEF PartPage!PartsUnknown, PartPage!NoFetch, PartPage!At, Inside, ReadIsFresh, ListIsFresh,
     DialogIsFresh, RecordIsFresh, PartPage!DoubledOnlyUnseen
<1>. QED BY <1>1, <1>2, <1>3

LEMMA PartDialogStep ==
  ASSUME PartInv, PartPage!OpenPopup \/ PartPage!ClosePopup
  PROVE  PartInv'
<1>. USE DEF PartInv, PartTyped, PartPage!TypeOK, PartFetches, PartPage!Free
<1>0. PartPage!canErfassen => listed.inside = {}
  BY DEF PartPage!canErfassen, PartPage!State
<1>1. CASE PartPage!OpenPopup
  <2>1. /\ popup' = [open |-> TRUE, fresh |-> listed.fresh /\ PartPage!AtRest]
        /\ partClicks > 0 /\ partClicks' = partClicks - 1 /\ listed.inside = {}
        /\ UNCHANGED <<where, listed, known, fetch, partTask, doubled, partForeign>>
    BY <1>0, <1>1 DEF PartPage!OpenPopup
  <2>2. popup' \in [open : BOOLEAN, fresh : BOOLEAN] /\ (popup'.fresh => PartPage!AtRest)
    BY <2>1 DEF PartPage!AtRest
  <2>3. PartTyped'
    <3>1. partClicks' \in 0..MaxClicks
      BY <2>1, PagesAssumption
    <3>. QED BY <2>1, <2>2, <3>1
  <2>4. ReadIsFresh' /\ ListIsFresh' /\ RecordIsFresh'
    BY <2>1 DEF ReadIsFresh, ListIsFresh, RecordIsFresh, Inside, PartPage!At
  <2>5. DialogIsFresh'
    BY <2>1, <2>2 DEF DialogIsFresh, PartPage!AtRest
  <2>. QED BY <2>1, <2>3, <2>4, <2>5 DEF PartPage!DoubledOnlyUnseen
<1>2. CASE PartPage!ClosePopup
  BY <1>2 DEF PartPage!ClosePopup, PartPage!Closed, PartPage!At, Inside, ReadIsFresh, ListIsFresh,
     DialogIsFresh, RecordIsFresh, PartPage!DoubledOnlyUnseen
<1>. QED BY <1>1, <1>2

\* A command is given: a part is recorded where the list shows none, and taken out or
\* deleted where it shows one.
LEMMA PartBegins ==
  ASSUME PartInv, NEW t \in Handlers, NEW kind \in {"record", "take", "delete"},
         NEW p \in Pieces \cup {None}, NEW fresh \in BOOLEAN, PartPage!Begin(t, kind, p, fresh),
         kind = "record" /\ fresh => listed.inside = {},
         kind # "record" => listed.inside # {}
  PROVE  PartInv'
<1>. USE DEF PartInv, PartTyped, PartPage!TypeOK, PartFetches, PartPage!Free
<1>. DEFINE k == [kind |-> kind, pc |-> "ask", part |-> p,
                  fresh |-> fresh /\ listed.fresh /\ PartPage!AtRest]
<1>1. k \in PartTasks
  BY DEF PartTasks, PartPage!AtRest
<1>2. /\ partTask[t].kind = "none" /\ partTask' = [partTask EXCEPT ![t] = k]
      /\ partClicks' = partClicks - 1 /\ partClicks > 0
      /\ UNCHANGED <<where, listed, known, popup, fetch, doubled, partForeign>>
  BY DEF PartPage!Begin, PartPage!page
<1>3. /\ partTask' \in [Handlers -> PartTasks] /\ partTask'[t] = k
      /\ \A s \in Handlers \ {t} : partTask'[s] = partTask[s]
      /\ \A s \in Handlers : partTask'[s].kind = "none" <=> partTask'[s].pc = "none"
      /\ \A s \in Handlers : partTask'[s].pc \in {"none", "ask", "missing", "again", "ok", "failed"}
  BY <1>1, <1>2, PartTaskTyped
<1>4. Inside' = Inside
  BY <1>2 DEF Inside, PartPage!At
<1>5. PartTyped'
  BY <1>2, <1>3, PagesAssumption
<1>6. ReadIsFresh' /\ ListIsFresh'
  BY <1>2, <1>3, <1>4 DEF ReadIsFresh, ListIsFresh
<1>7. DialogIsFresh'
  BY <1>2, <1>3 DEF DialogIsFresh
<1>8. k.kind = "record" /\ k.fresh => Inside = {}
  BY DEF ListIsFresh, PartPage!AtRest
<1>9. RecordIsFresh'
  BY <1>2, <1>3, <1>4, <1>8 DEF RecordIsFresh
<1>. QED BY <1>2, <1>5, <1>6, <1>7, <1>9 DEF PartPage!DoubledOnlyUnseen

\* A handler goes on or ends, nothing is written and nothing is loaded.
LEMMA PartGoesOn ==
  ASSUME PartInv, NEW t \in Handlers, NEW k \in PartTasks, k.kind = "none" <=> k.pc = "none",
         k.kind = "none" \/ k.kind = partTask[t].kind,
         k.pc # "ask", partTask' = [partTask EXCEPT ![t] = k],
         partTask[t].pc = "ok" => k.pc = "ok" \/ ~listed.fresh',
         UNCHANGED <<where, known, fetch, doubled, partClicks, partForeign>>,
         popup' = popup \/ popup' = PartPage!Closed,
         listed' = listed \/ listed' = [listed EXCEPT !.fresh = FALSE]
  PROVE  PartInv'
<1>. USE DEF PartInv, PartTyped, PartPage!TypeOK, PartFetches, PartPage!Free
<1>1. /\ partTask' \in [Handlers -> PartTasks] /\ partTask'[t] = k
      /\ \A s \in Handlers \ {t} : partTask'[s] = partTask[s]
      /\ \A s \in Handlers : partTask'[s].kind = "none" <=> partTask'[s].pc = "none"
      /\ \A s \in Handlers : partTask'[s].pc \in {"none", "ask", "missing", "again", "ok", "failed"}
  BY PartTaskTyped
<1>2. Inside' = Inside
  BY DEF Inside, PartPage!At
<1>3. popup' \in [open : BOOLEAN, fresh : BOOLEAN] /\ (popup'.open => popup' = popup)
  <2>1. CASE popup' = popup
    BY <2>1
  <2>2. CASE popup' = PartPage!Closed
    BY <2>2 DEF PartPage!Closed
  <2>. QED BY <2>1, <2>2
<1>4. /\ listed'.inside = listed.inside /\ (listed'.fresh => listed.fresh)
      /\ listed' \in [inside : SUBSET Pieces, taken : SUBSET Pieces, fresh : BOOLEAN]
      /\ listed'.taken = listed.taken /\ listed'.fresh \in BOOLEAN
  OBVIOUS
<1>5. PartTyped'
  BY <1>1, <1>3, <1>4
<1>6. ReadIsFresh' /\ ListIsFresh'
  BY <1>1, <1>2, <1>4 DEF ReadIsFresh, ListIsFresh
<1>7. DialogIsFresh'
  BY <1>1, <1>3, <1>4 DEF DialogIsFresh
<1>8. RecordIsFresh'
  BY <1>1, <1>2 DEF RecordIsFresh
<1>. QED BY <1>5, <1>6, <1>7, <1>8 DEF PartPage!DoubledOnlyUnseen

\* What was read or asked before is out of date.
LEMMA PartOutdated ==
  ASSUME NEW ts \in [Handlers -> PartTasks], fetch \in [Marks -> PartFetches], PartPage!Outdated(ts)
  PROVE  /\ fetch' \in [Marks -> PartFetches] /\ partTask' \in [Handlers -> PartTasks]
         /\ \A m \in Marks : fetch'[m].pc = fetch[m].pc /\ fetch'[m].fresh = FALSE
         /\ \A s \in Handlers : /\ partTask'[s].pc = ts[s].pc /\ partTask'[s].kind = ts[s].kind
                                /\ partTask'[s].fresh = FALSE
<1>1. \A m \in Marks : /\ fetch'[m] \in PartFetches /\ fetch'[m].pc = fetch[m].pc
                       /\ fetch'[m].fresh = FALSE
  <2>. TAKE m \in Marks
  <2>1. fetch[m] \in PartFetches /\ fetch'[m] = [fetch[m] EXCEPT !.fresh = FALSE]
    BY DEF PartPage!Outdated
  <2>. QED BY <2>1 DEF PartFetches
<1>2. \A s \in Handlers : /\ partTask'[s] \in PartTasks /\ partTask'[s].pc = ts[s].pc
                          /\ partTask'[s].kind = ts[s].kind /\ partTask'[s].fresh = FALSE
  <2>. TAKE s \in Handlers
  <2>1. ts[s] \in PartTasks /\ partTask'[s] = [ts[s] EXCEPT !.fresh = FALSE]
    BY DEF PartPage!Outdated
  <2>. QED BY <2>1 DEF PartTasks
<1>. QED BY <1>1, <1>2 DEF PartPage!Outdated

\* The parts change: nothing that is under way counts as up to date.
LEMMA PartsChanged ==
  ASSUME PartInv, where' \in [Pieces -> PartPage!Spots],
         fetch' \in [Marks -> PartFetches], partTask' \in [Handlers -> PartTasks],
         \A m \in Marks : fetch'[m].pc = fetch[m].pc /\ fetch'[m].fresh = FALSE,
         \A s \in Handlers :
           /\ partTask'[s].kind = partTask[s].kind /\ partTask'[s].fresh = FALSE
           /\ partTask'[s].pc # partTask[s].pc => partTask'[s].pc = "ok" /\ partTask[s].kind # "none",
         ~listed'.fresh \/ \E s \in Handlers : partTask'[s].pc = "ok",
         listed' = listed \/ listed' = [listed EXCEPT !.fresh = FALSE],
         UNCHANGED <<known, popup>>, partClicks' = partClicks, partForeign' \in 0..MaxForeign,
         doubled' \subseteq BOOLEAN, TRUE \notin doubled'
  PROVE  PartInv'
<1>. USE DEF PartInv, PartTyped, PartPage!TypeOK, PartPage!Free
<1>4. /\ listed'.inside = listed.inside /\ listed'.taken = listed.taken
      /\ listed' \in [inside : SUBSET Pieces, taken : SUBSET Pieces, fresh : BOOLEAN]
  <2>1. listed \in [inside : SUBSET Pieces, taken : SUBSET Pieces, fresh : BOOLEAN]
    BY DEF PartInv, PartTyped
  <2>. HIDE DEF PartInv, PartTyped
  <2>2. CASE listed' = listed
    BY <2>1, <2>2
  <2>3. CASE listed' = [listed EXCEPT !.fresh = FALSE]
    BY <2>1, <2>3
  <2>. QED BY <2>2, <2>3
<1>5. \A s \in Handlers : partTask'[s].kind = "none" <=> partTask'[s].pc = "none"
  OBVIOUS
<1>6. \A s \in Handlers : partTask'[s].pc \in {"none", "ask", "missing", "again", "ok", "failed"}
  BY DEF PartTasks
<1>7. \A m \in Marks : fetch'[m].pc \in {"none", "sent", "read"}
  BY DEF PartFetches
<1>8. PartTyped'
  BY <1>4, <1>5, <1>6, <1>7
<1>9. ReadIsFresh' /\ RecordIsFresh'
  BY DEF ReadIsFresh, RecordIsFresh
<1>10. ListIsFresh'
  BY DEF ListIsFresh
<1>11. DialogIsFresh'
  BY <1>4 DEF DialogIsFresh
<1>. QED BY <1>8, <1>9, <1>10, <1>11 DEF PartPage!DoubledOnlyUnseen

\* The server answers a handler: it has done what it was asked, or not.
LEMMA Accepted ==
  ASSUME PartInv, NEW t \in Handlers, NEW p, NEW spot \in PartPage!Spots,
         PartPage!Accept(t, p, spot), partTask[t].kind # "none",
         UNCHANGED <<listed, known, popup, partClicks, partForeign>>,
         doubled' \subseteq BOOLEAN, TRUE \notin doubled'
  PROVE  PartInv'
<1>. DEFINE ts == [partTask EXCEPT ![t].pc = "ok"]
<1>1. partTask \in [Handlers -> PartTasks] /\ where \in [Pieces -> PartPage!Spots]
      /\ partForeign \in 0..MaxForeign
  BY DEF PartInv, PartTyped, PartPage!TypeOK
<1>2. /\ ts \in [Handlers -> PartTasks] /\ ts[t].pc = "ok"
      /\ \A s \in Handlers : ts[s].kind = partTask[s].kind
      /\ \A s \in Handlers : s # t => ts[s].pc = partTask[s].pc
  BY <1>1 DEF PartTasks
<1>3. where' \in [Pieces -> PartPage!Spots] /\ PartPage!Outdated(ts)
  BY <1>1 DEF PartPage!Accept
<1>. HIDE DEF ts
<1>4. /\ fetch' \in [Marks -> PartFetches] /\ partTask' \in [Handlers -> PartTasks]
      /\ \A m \in Marks : fetch'[m].pc = fetch[m].pc /\ fetch'[m].fresh = FALSE
      /\ \A s \in Handlers : /\ partTask'[s].pc = ts[s].pc /\ partTask'[s].kind = ts[s].kind
                             /\ partTask'[s].fresh = FALSE
  BY <1>1, <1>2, <1>3, PartOutdated DEF PartInv, PartTyped
<1>. QED BY <1>1, <1>2, <1>3, <1>4, PartsChanged

LEMMA Refused ==
  ASSUME PartInv, NEW t \in Handlers, NEW pc \in {"missing", "again", "ok", "failed"},
         PartPage!Refuse(t, pc), partTask[t].kind # "none", partTask[t].pc # "ok",
         UNCHANGED <<listed, known, popup, doubled, partClicks, partForeign>>
  PROVE  PartInv'
<1>. DEFINE k == [partTask[t] EXCEPT !.pc = pc]
<1>1. partTask \in [Handlers -> PartTasks]
  BY DEF PartInv, PartTyped
<1>2. k \in PartTasks /\ k.kind = partTask[t].kind /\ k.pc = pc
  BY <1>1 DEF PartTasks
<1>3. partTask' = [partTask EXCEPT ![t] = k] /\ UNCHANGED <<where, fetch>>
  BY <1>1, <1>2 DEF PartPage!Refuse
<1>. HIDE DEF k
<1>. QED BY <1>2, <1>3, PartGoesOn

LEMMA PartHandlerStep ==
  ASSUME PartInv, NEW t \in Handlers, PartPage!Handle(t)
  PROVE  PartInv'
<1>. USE DEF PartInv, PartTyped, PartPage!TypeOK
<1>. DEFINE With(pc) == [partTask[t] EXCEPT !.pc = pc]
<1>0. /\ PartPage!NoTask \in PartTasks /\ PartPage!NoTask.kind = "none" /\ PartPage!NoTask.pc = "none"
      /\ \A pc \in {"missing", "again", "ok", "failed"} :
           /\ With(pc) \in PartTasks /\ With(pc).kind = partTask[t].kind /\ With(pc).pc = pc
           /\ [partTask EXCEPT ![t].pc = pc] = [partTask EXCEPT ![t] = With(pc)]
  BY DEF PartPage!NoTask, PartTasks
<1>01. PartPage!canErfassen => listed.inside = {}
  BY DEF PartPage!canErfassen, PartPage!State
<1>. HIDE DEF With
<1>1. CASE PartPage!handleDirectErfassen(t)
  BY <1>01, <1>1, PartBegins DEF PartPage!handleDirectErfassen
<1>2. CASE PartPage!RecordFromPopup(t)
  <2>1. popup.fresh \in BOOLEAN /\ (popup.fresh => listed.inside = {})
    BY <1>2 DEF PartPage!RecordFromPopup, DialogIsFresh
  <2>. HIDE DEF PartInv
  <2>. QED BY <1>2, <2>1, PartBegins DEF PartPage!RecordFromPopup
<1>3. CASE PartPage!handleRelocateSubmit(t) \/ PartPage!handleLoesen(t)
  BY <1>3, PartBegins DEF PartPage!handleRelocateSubmit, PartPage!handleLoesen
<1>4. CASE PartPage!Decline(t)
  BY <1>0, <1>4, PartGoesOn DEF PartPage!Decline, PartPage!page
<1>5. CASE PartPage!AnswerLost(t)
  BY <1>0, <1>5, PartGoesOn DEF PartPage!AnswerLost, PartPage!page
<1>6. CASE PartPage!createBoxForRelocation(t)
  <2>1. PICK pc \in {"again", "failed"} : PartPage!Refuse(t, pc)
    BY <1>6 DEF PartPage!createBoxForRelocation
  <2>2. partTask[t].pc = "missing" /\ UNCHANGED <<listed, known, popup, doubled, partClicks, partForeign>>
    BY <1>6 DEF PartPage!createBoxForRelocation, PartPage!page
  <2>. QED BY <2>1, <2>2, Refused
<1>7. CASE PartPage!PostRecord(t)
  <2>0. /\ partTask[t].kind = "record" /\ partTask[t].pc = "ask"
        /\ UNCHANGED <<listed, known, popup, partClicks, partForeign>>
    BY <1>7 DEF PartPage!PostRecord, PartPage!page
  <2>1. CASE PartPage!Refuse(t, "failed") /\ UNCHANGED doubled
    BY <2>0, <2>1, Refused
  <2>2. ASSUME NEW p \in Pieces, PartPage!Accept(t, p, "device"),
               doubled' = IF Inside = {} THEN doubled ELSE doubled \cup {partTask[t].fresh}
        PROVE  PartInv'
    <3>1. doubled' \subseteq BOOLEAN /\ TRUE \notin doubled'
      BY <2>0, <2>2 DEF RecordIsFresh, PartPage!DoubledOnlyUnseen, PartTasks
    <3>. QED BY <2>0, <2>2, <3>1, Accepted DEF PartPage!Spots
  <2>. QED BY <1>7, <2>1, <2>2 DEF PartPage!PostRecord, PartPage!At, Inside
<1>8. CASE PartPage!PostTake(t)
  <2>0. /\ partTask[t].kind = "take" /\ partTask[t].pc \in {"ask", "again"}
        /\ UNCHANGED <<listed, known, popup, doubled, partClicks, partForeign>>
    BY <1>8 DEF PartPage!PostTake, PartPage!page
  <2>1. ASSUME NEW pc \in {"missing", "failed"}, PartPage!Refuse(t, pc) PROVE PartInv'
    BY <2>0, <2>1, Refused
  <2>2. CASE PartPage!Accept(t, partTask[t].part, "box")
    BY <2>0, <2>2, Accepted DEF PartPage!Spots, PartPage!DoubledOnlyUnseen
  <2>. QED BY <1>8, <2>1, <2>2 DEF PartPage!PostTake
<1>9. CASE PartPage!PostDelete(t)
  <2>0. /\ partTask[t].kind = "delete" /\ partTask[t].pc = "ask"
        /\ UNCHANGED <<listed, known, popup, doubled, partClicks, partForeign>>
    BY <1>9 DEF PartPage!PostDelete, PartPage!page
  <2>1. CASE PartPage!Refuse(t, "ok")
    BY <2>0, <2>1, Refused
  <2>2. CASE PartPage!Accept(t, partTask[t].part, "none")
    BY <2>0, <2>2, Accepted DEF PartPage!Spots, PartPage!DoubledOnlyUnseen
  <2>. QED BY <1>9, <2>1, <2>2 DEF PartPage!PostDelete
<1>10. CASE PartPage!Answered(t)
  <2>0. /\ partTask[t].pc \in {"ok", "failed"}
        /\ partTask' = [partTask EXCEPT ![t] = PartPage!NoTask]
        /\ popup' = IF partTask[t].kind = "record" /\ partTask[t].pc = "ok" THEN PartPage!Closed
                     ELSE popup
        /\ UNCHANGED <<where, listed, known, doubled, partClicks, partForeign>>
    BY <1>10 DEF PartPage!Answered
  <2>1. CASE partTask[t].pc = "failed"
    <3>1. UNCHANGED fetch
      BY <1>10, <2>1 DEF PartPage!Answered, PartPage!Reloads
    <3>. QED BY <1>0, <2>0, <2>1, <3>1, PartGoesOn
  <2>2. CASE partTask[t].pc = "ok"
    <3>1. PICK m \in Marks : PartPage!Free(m) /\ fetch' = PartPage!Sent(m)
      BY <1>10, <2>2 DEF PartPage!Answered, PartPage!Reloads
    <3>2. /\ fetch' \in [Marks -> PartFetches] /\ fetch'[m].pc = "sent"
          /\ \A n \in Marks \ {m} : fetch'[n] = fetch[n]
      BY <3>1 DEF PartPage!Sent, PartPage!NoFetch, PartFetches
    <3>3. /\ partTask' \in [Handlers -> PartTasks] /\ partTask'[t] = PartPage!NoTask
          /\ \A s \in Handlers \ {t} : partTask'[s] = partTask[s]
          /\ \A s \in Handlers : partTask'[s].kind = "none" <=> partTask'[s].pc = "none"
          /\ \A s \in Handlers :
               partTask'[s].pc \in {"none", "ask", "missing", "again", "ok", "failed"}
      BY <1>0, <2>0, PartTaskTyped
    <3>4. popup' \in [open : BOOLEAN, fresh : BOOLEAN] /\ (popup'.open => popup' = popup)
      BY <2>0 DEF PartPage!Closed
    <3>5. PartTyped'
      <4>1. \A n \in Marks : fetch'[n].pc \in {"none", "sent", "read"}
        BY <3>2 DEF PartFetches
      <4>. QED BY <2>0, <3>2, <3>3, <3>4, <4>1
    <3>6. Inside' = Inside
      BY <2>0 DEF Inside, PartPage!At
    <3>7. ReadIsFresh' /\ ListIsFresh' /\ RecordIsFresh'
      <4>1. ReadIsFresh'
        BY <3>2, <3>6 DEF ReadIsFresh
      <4>2. ListIsFresh'
        BY <3>2 DEF ListIsFresh, PartPage!Free
      <4>3. RecordIsFresh'
        BY <1>0, <3>3, <3>6 DEF RecordIsFresh
      <4>. QED BY <4>1, <4>2, <4>3
    <3>8. DialogIsFresh'
      <4>1. CASE partTask[t].kind = "record"
        BY <2>0, <2>2, <4>1 DEF DialogIsFresh, PartPage!Closed
      <4>2. CASE partTask[t].kind # "record"
        BY <2>0, <2>2, <3>4, <4>2 DEF DialogIsFresh
      <4>. QED BY <4>1, <4>2
    <3>. QED BY <2>0, <3>5, <3>7, <3>8 DEF PartPage!DoubledOnlyUnseen
  <2>. QED BY <2>0, <2>1, <2>2
<1>. QED BY <1>1, <1>2, <1>3, <1>4, <1>5, <1>6, <1>7, <1>8, <1>9, <1>10 DEF PartPage!Handle

LEMMA PartStep == PartInv /\ [PartPage!Next]_partPage => PartInv'
<1>. SUFFICES ASSUME PartInv, [PartPage!Next]_partPage PROVE PartInv'
  OBVIOUS
<1>1. ASSUME NEW p \in Pieces, PartPage!PartChanges(p) PROVE PartInv'
  <2>1. /\ partForeign > 0 /\ partForeign' = partForeign - 1
        /\ \E spot \in PartPage!Spots : where' = [where EXCEPT ![p] = spot]
        /\ PartPage!Outdated(partTask) /\ listed' = [listed EXCEPT !.fresh = FALSE]
        /\ UNCHANGED <<known, popup, doubled, partClicks>>
    BY <1>1 DEF PartPage!PartChanges
  <2>2. /\ where \in [Pieces -> PartPage!Spots] /\ partForeign \in 0..MaxForeign
        /\ partTask \in [Handlers -> PartTasks] /\ doubled \subseteq BOOLEAN /\ TRUE \notin doubled
        /\ listed \in [inside : SUBSET Pieces, taken : SUBSET Pieces, fresh : BOOLEAN]
    BY DEF PartInv, PartTyped, PartPage!TypeOK, PartPage!DoubledOnlyUnseen
  <2>3. where' \in [Pieces -> PartPage!Spots] /\ partForeign' \in 0..MaxForeign /\ ~listed'.fresh
    BY <2>1, <2>2, PagesAssumption
  <2>4. /\ fetch' \in [Marks -> PartFetches] /\ partTask' \in [Handlers -> PartTasks]
        /\ \A m \in Marks : fetch'[m].pc = fetch[m].pc /\ fetch'[m].fresh = FALSE
        /\ \A s \in Handlers :
             /\ partTask'[s].pc = partTask[s].pc /\ partTask'[s].kind = partTask[s].kind
             /\ partTask'[s].fresh = FALSE
    BY <2>1, <2>2, PartOutdated DEF PartInv, PartTyped
  <2>. QED BY <2>1, <2>2, <2>3, <2>4, PartsChanged
<1>2. CASE UNCHANGED partPage
  BY <1>2 DEF partPage, PartInv, PartTyped, PartPage!TypeOK, ReadIsFresh, ListIsFresh, DialogIsFresh,
     RecordIsFresh, Inside, PartPage!At, PartPage!Free, PartPage!DoubledOnlyUnseen
<1>. QED BY <1>1, <1>2, PartLoadStep, PartDialogStep, PartHandlerStep DEF PartPage!Next

LEMMA PartSafe == PartInv => PartPage!TypeOK /\ PartPage!DoubledOnlyUnseen
BY DEF PartInv, PartTyped

-----------------------------------------------------------------------------
(* The page of a box: BoxDetail *)

BoxTasks ==
  [kind : {"none", "note", "relocate", "remove", "add", "delete"},
   pc : {"none", "ask", "ok", "refused"}, box : Boxes \cup {None}, place : Marks \cup {None},
   note : Notes \cup {None}, item : Items \cup {None}, address : Boxes \cup {None},
   here : BOOLEAN, fresh : BOOLEAN]
BoxLoads ==
  [pc : {"none", "sent", "read"}, address : Boxes \cup {None}, spin : BOOLEAN,
   found : BoxPage!Shown, fresh : BOOLEAN]
BoxPages == [address : Boxes \cup {None}, shown : BoxPage!Shown, loading : BOOLEAN]

BoxStoreTyped ==
  /\ boxRows \subseteq Boxes /\ place \in [Boxes -> Marks \cup {None}]
  /\ note \in [Boxes -> Notes \cup {None}] /\ inside \in [Items -> Boxes \cup {None}]
BoxTasksTyped ==
  /\ boxTask \in [Handlers -> BoxTasks]
  /\ \A t \in Handlers : boxTask[t].kind = "none" <=> boxTask[t].pc = "none"
BoxTyped ==
  /\ BoxStoreTyped /\ BoxTasksTyped /\ page \in BoxPages /\ load \in [Pieces -> BoxLoads]
  /\ boxClicks \in 0..MaxClicks /\ boxForeign \in 0..MaxForeign /\ undone \subseteq BOOLEAN

\* What is shown of a box is what is stored of it.
Agrees(s) ==
  s.box # None => /\ s.box \in boxRows /\ s.place = place[s.box]
                  /\ s.items = {i \in Items : inside[i] = s.box}

\* What was read is up to date until something changes.
BoxReadIsFresh == \A l \in Pieces : load[l].pc = "read" /\ load[l].fresh => Agrees(load[l].found)

\* The page will be loaded or left for what a handler has written.
BoxReloads(t) == boxTask[t].pc = "ok" /\ boxTask[t].here /\ boxTask[t].kind # "note"

\* A page that counts as up to date is, or is about to be loaded.
BoxPageIsFresh ==
  page.shown.fresh => \/ Agrees(page.shown)
                      \/ \E l \in Pieces : load[l].pc # "none"
                      \/ \E t \in Handlers : BoxReloads(t)

\* A save of notes by one who could know has the place the box is in.
SavesPlace(k) == k.place = None \/ k.place = place[k.box]
SaveIsFresh ==
  \A t \in Handlers :
    boxTask[t].kind = "note" /\ boxTask[t].pc = "ask" /\ boxTask[t].fresh => SavesPlace(boxTask[t])

BoxInv ==
  /\ BoxTyped /\ BoxReadIsFresh /\ BoxPageIsFresh /\ SaveIsFresh
  /\ BoxPage!PlaceUndoneOnlyUnseen

LEMMA BoxNothing ==
  /\ BoxPage!Nothing \in BoxPage!Shown /\ BoxPage!Nothing.box = None
  /\ BoxPage!NoLoad \in BoxLoads /\ BoxPage!NoLoad.pc = "none"
  /\ BoxPage!NoTask \in BoxTasks /\ BoxPage!NoTask.kind = "none" /\ BoxPage!NoTask.pc = "none"
  /\ \A b \in Boxes \cup {None} :
       /\ BoxPage!Blank(b) \in BoxPages /\ BoxPage!Blank(b).shown.box = None
       /\ Agrees(BoxPage!Blank(b).shown)
BY DEF BoxPage!Nothing, BoxPage!Shown, BoxPage!NoLoad, BoxLoads, BoxPage!NoTask, BoxTasks,
   BoxPage!Blank, BoxPages, Agrees

LEMMA BoxInit == BoxPage!Init => BoxInv
<1>. SUFFICES ASSUME BoxPage!Init PROVE BoxInv
  OBVIOUS
<1>1. /\ boxTask = [t \in Handlers |-> BoxPage!NoTask] /\ load = [l \in Pieces |-> BoxPage!NoLoad]
      /\ page = BoxPage!Blank(None) /\ undone = {}
  BY DEF BoxPage!Init
<1>2. BoxStoreTyped
  BY DEF BoxPage!Init, BoxStoreTyped
<1>3. boxClicks \in 0..MaxClicks /\ boxForeign \in 0..MaxForeign
  BY PagesAssumption DEF BoxPage!Init
<1>4. BoxTyped
  BY <1>1, <1>2, <1>3, BoxNothing DEF BoxTyped, BoxTasksTyped
<1>. QED BY <1>1, <1>4, BoxNothing
     DEF BoxInv, BoxReadIsFresh, BoxPageIsFresh, SaveIsFresh, BoxPage!PlaceUndoneOnlyUnseen

\* The steps that leave the store as it is.
LEMMA BoxQuiet ==
  ASSUME BoxInv, UNCHANGED <<boxRows, place, note, inside, undone>>,
         BoxTasksTyped', page' \in BoxPages, load' \in [Pieces -> BoxLoads],
         boxClicks' \in 0..MaxClicks, boxForeign' = boxForeign,
         \A l \in Pieces : load'[l].pc = "read" /\ load'[l].fresh => Agrees(load'[l].found),
         page'.shown.fresh => \/ Agrees(page'.shown)
                              \/ \E l \in Pieces : load'[l].pc # "none"
                              \/ \E t \in Handlers : BoxReloads(t)',
         \A t \in Handlers :
           /\ boxTask'[t].kind = "note" /\ boxTask'[t].pc = "ask" /\ boxTask'[t].fresh
           => SavesPlace(boxTask'[t])
  PROVE  BoxInv'
BY DEF BoxInv, BoxTyped, BoxStoreTyped, Agrees, BoxReadIsFresh, BoxPageIsFresh, SavesPlace,
   SaveIsFresh, BoxPage!PlaceUndoneOnlyUnseen

\* ... and the handlers, too.
LEMMA BoxBrowses ==
  ASSUME BoxInv, UNCHANGED <<boxRows, place, note, inside, undone, boxTask, boxForeign>>,
         page' \in BoxPages, load' \in [Pieces -> BoxLoads], boxClicks' \in 0..MaxClicks,
         \A l \in Pieces : load'[l].pc = "read" /\ load'[l].fresh => Agrees(load'[l].found),
         page'.shown.fresh => \/ Agrees(page'.shown)
                              \/ \E l \in Pieces : load'[l].pc # "none"
                              \/ \E t \in Handlers : BoxReloads(t)
  PROVE  BoxInv'
<1>1. BoxTasksTyped' /\ \A t \in Handlers : BoxReloads(t)' = BoxReloads(t)
  BY DEF BoxInv, BoxTyped, BoxTasksTyped, BoxReloads
<1>2. \A t \in Handlers :
        /\ boxTask'[t].kind = "note" /\ boxTask'[t].pc = "ask" /\ boxTask'[t].fresh
        => SavesPlace(boxTask'[t])
  BY DEF BoxInv, SaveIsFresh
<1>. QED BY <1>1, <1>2, BoxQuiet

LEMMA BoxLoadStarts ==
  ASSUME BoxInv, NEW l \in Pieces, NEW b \in Boxes \cup {None}, NEW spin \in BOOLEAN,
         load' = BoxPage!StartLoad(l, b, spin)
  PROVE  /\ load' \in [Pieces -> BoxLoads] /\ load'[l].pc = "sent"
         /\ \A k \in Pieces : load'[k].pc = "read" /\ load'[k].fresh => Agrees(load'[k].found)
<1>. DEFINE new == [BoxPage!NoLoad EXCEPT !.pc = "sent", !.address = b, !.spin = spin]
<1>1. new \in BoxLoads /\ new.pc = "sent"
  BY BoxNothing DEF BoxLoads
<1>2. load' = [load EXCEPT ![l] = new]
  BY DEF BoxPage!StartLoad
<1>. HIDE DEF new
<1>. QED BY <1>1, <1>2 DEF BoxInv, BoxTyped, BoxReadIsFresh

LEMMA BoxReadStep == ASSUME BoxInv, NEW l \in Pieces, BoxPage!ReadBox(l) PROVE BoxInv'
<1>. DEFINE found == BoxPage!Stored(load[l].address)
            new == [load[l] EXCEPT !.pc = "read", !.found = found]
<1>1. /\ load[l] \in BoxLoads /\ load \in [Pieces -> BoxLoads] /\ page \in BoxPages
      /\ BoxStoreTyped /\ boxClicks \in 0..MaxClicks
  BY DEF BoxInv, BoxTyped
<1>2. found \in BoxPage!Shown /\ Agrees(found)
  <2>1. CASE load[l].address \in boxRows
    BY <1>1, <2>1 DEF BoxStoreTyped, BoxPage!Stored, BoxPage!Shown, Agrees
  <2>2. CASE load[l].address \notin boxRows
    BY <2>2, BoxNothing DEF BoxPage!Stored, Agrees
  <2>. QED BY <2>1, <2>2
<1>3. load' = [load EXCEPT ![l] = new]
      /\ UNCHANGED <<boxRows, place, note, inside, undone, boxTask, boxForeign, page, boxClicks>>
  BY <1>1 DEF BoxPage!ReadBox, BoxPage!store
<1>. HIDE DEF found
<1>4. new \in BoxLoads /\ new.pc = "read" /\ new.found = found
  BY <1>1, <1>2 DEF BoxLoads
<1>. HIDE DEF new
<1>5. /\ load' \in [Pieces -> BoxLoads] /\ load'[l].pc # "none"
      /\ \A k \in Pieces : load'[k].pc = "read" /\ load'[k].fresh => Agrees(load'[k].found)
  BY <1>1, <1>2, <1>3, <1>4 DEF BoxInv, BoxReadIsFresh
<1>6. page'.shown.fresh => \E k \in Pieces : load'[k].pc # "none"
  BY <1>5
<1>. QED BY <1>1, <1>3, <1>5, <1>6, BoxBrowses

\* The answer of a load lands: the page shows it, or nothing, or what it showed.
LEMMA BoxLands ==
  ASSUME BoxInv, NEW l \in Pieces, NEW s \in BoxPage!Shown, page' = BoxPage!Landed(l, s),
         s.fresh => Agrees(s), load' = [load EXCEPT ![l] = BoxPage!NoLoad],
         UNCHANGED <<boxRows, place, note, inside, undone, boxTask, boxForeign, boxClicks>>
  PROVE  BoxInv'
<1>1. /\ load[l] \in BoxLoads /\ load \in [Pieces -> BoxLoads] /\ page \in BoxPages
      /\ boxClicks \in 0..MaxClicks
  BY DEF BoxInv, BoxTyped
<1>2. page' \in BoxPages /\ page'.shown = s
  BY <1>1 DEF BoxPages, BoxPage!Landed
<1>3. /\ load' \in [Pieces -> BoxLoads]
      /\ \A k \in Pieces : load'[k].pc = "read" /\ load'[k].fresh => Agrees(load'[k].found)
  BY <1>1, BoxNothing DEF BoxInv, BoxReadIsFresh
<1>. QED BY <1>1, <1>2, <1>3, BoxBrowses

LEMMA BoxLoadStep ==
  ASSUME BoxInv, NEW l \in Pieces, BoxPage!FinishLoad(l) \/ BoxPage!LoadFails(l)
  PROVE  BoxInv'
<1>0. /\ load[l] \in BoxLoads /\ page \in BoxPages /\ page.shown \in BoxPage!Shown
      /\ load[l].found \in BoxPage!Shown /\ load[l].fresh \in BOOLEAN
  BY DEF BoxInv, BoxTyped, BoxPages, BoxLoads
<1>1. CASE BoxPage!FinishLoad(l)
  <2>. DEFINE s == [load[l].found EXCEPT !.fresh = load[l].fresh]
  <2>1. /\ s \in BoxPage!Shown /\ s.fresh = load[l].fresh /\ s.box = load[l].found.box
        /\ s.place = load[l].found.place /\ s.items = load[l].found.items
    BY <1>0 DEF BoxPage!Shown
  <2>2. load[l].fresh => Agrees(load[l].found)
    BY <1>1 DEF BoxInv, BoxReadIsFresh, BoxPage!FinishLoad
  <2>3. page' = BoxPage!Landed(l, s) /\ load' = [load EXCEPT ![l] = BoxPage!NoLoad]
        /\ UNCHANGED <<boxRows, place, note, inside, undone, boxTask, boxForeign, boxClicks>>
    BY <1>1 DEF BoxPage!FinishLoad, BoxPage!store
  <2>. HIDE DEF s
  <2>4. s.fresh => Agrees(s)
    BY <2>1, <2>2 DEF Agrees
  <2>. QED BY <2>1, <2>3, <2>4, BoxLands
<1>2. CASE BoxPage!LoadFails(l)
  <2>. DEFINE s == [page.shown EXCEPT !.fresh = FALSE]
  <2>1. s \in BoxPage!Shown /\ ~s.fresh
    BY <1>0 DEF BoxPage!Shown
  <2>2. /\ page' = BoxPage!Landed(l, BoxPage!Nothing) \/ page' = BoxPage!Landed(l, s)
        /\ load' = [load EXCEPT ![l] = BoxPage!NoLoad]
        /\ UNCHANGED <<boxRows, place, note, inside, undone, boxTask, boxForeign, boxClicks>>
    BY <1>2 DEF BoxPage!LoadFails, BoxPage!store
  <2>. HIDE DEF s
  <2>3. Agrees(BoxPage!Nothing)
    BY BoxNothing DEF Agrees
  <2>. QED BY <2>1, <2>2, <2>3, BoxNothing, BoxLands
<1>. QED BY <1>1, <1>2

LEMMA BoxRetryStep == ASSUME BoxInv, NEW l \in Pieces, BoxPage!Retry(l) PROVE BoxInv'
<1>1. /\ boxClicks > 0 /\ boxClicks' = boxClicks - 1
      /\ page' = [page EXCEPT !.loading = TRUE]
      /\ load' = BoxPage!StartLoad(l, page.address, TRUE)
      /\ UNCHANGED <<boxRows, place, note, inside, undone, boxTask, boxForeign>>
  BY DEF BoxPage!Retry, BoxPage!store
<1>2. page \in BoxPages /\ boxClicks \in 0..MaxClicks
  BY DEF BoxInv, BoxTyped
<1>3. page' \in BoxPages /\ page.address \in Boxes \cup {None}
  BY <1>1, <1>2 DEF BoxPages
<1>4. boxClicks' \in 0..MaxClicks
  BY <1>1, <1>2, PagesAssumption
<1>5. /\ load' \in [Pieces -> BoxLoads] /\ load'[l].pc = "sent"
      /\ \A k \in Pieces : load'[k].pc = "read" /\ load'[k].fresh => Agrees(load'[k].found)
  BY <1>1, <1>3, BoxLoadStarts
<1>. QED BY <1>1, <1>3, <1>4, <1>5, BoxBrowses

LEMMA BoxTypeStep ==
  ASSUME BoxInv, NEW n \in Notes \cup {None}, BoxPage!Type(n) PROVE BoxInv'
<1>1. /\ boxClicks > 0 /\ boxClicks' = boxClicks - 1
      /\ page' = [page EXCEPT !.shown.note = n]
      /\ UNCHANGED <<boxRows, place, note, inside, undone, boxTask, boxForeign, load>>
  BY DEF BoxPage!Type, BoxPage!store
<1>2. page \in BoxPages /\ boxClicks \in 0..MaxClicks /\ load \in [Pieces -> BoxLoads]
  BY DEF BoxInv, BoxTyped
<1>3. page' \in BoxPages /\ page'.shown.fresh = page.shown.fresh /\ page'.shown.box = page.shown.box
      /\ page'.shown.place = page.shown.place /\ page'.shown.items = page.shown.items
  BY <1>1, <1>2 DEF BoxPages, BoxPage!Shown
<1>4. boxClicks' \in 0..MaxClicks
  BY <1>1, <1>2, PagesAssumption
<1>5. Agrees(page.shown) => Agrees(page'.shown)
  BY <1>3 DEF Agrees
<1>6. /\ \A k \in Pieces : load'[k].pc = "read" /\ load'[k].fresh => Agrees(load'[k].found)
      /\ page'.shown.fresh => \/ Agrees(page'.shown)
                              \/ \E k \in Pieces : load'[k].pc # "none"
                              \/ \E t \in Handlers : BoxReloads(t)
  BY <1>1, <1>3, <1>5 DEF BoxInv, BoxReadIsFresh, BoxPageIsFresh
<1>. QED BY <1>1, <1>2, <1>3, <1>4, <1>6, BoxBrowses

\* The page becomes that of another box; the handlers of the old one go on.
LEMMA BoxOpenStep ==
  ASSUME BoxInv, NEW b \in Boxes, NEW l \in Pieces, BoxPage!Open(b, l) PROVE BoxInv'
<1>1. /\ boxClicks > 0 /\ boxClicks' = boxClicks - 1
      /\ UNCHANGED <<boxRows, place, note, inside, undone, boxForeign>>
  BY DEF BoxPage!Open, BoxPage!store
<1>2. /\ page \in BoxPages /\ boxClicks \in 0..MaxClicks /\ load \in [Pieces -> BoxLoads]
      /\ BoxTasksTyped
  BY DEF BoxInv, BoxTyped
<1>3. boxClicks' \in 0..MaxClicks
  BY <1>1, <1>2, PagesAssumption
<1>4. CASE keyed \/ page.address = None
  <2>1. /\ page' = BoxPage!Blank(b)
        /\ boxTask' = [t \in Handlers |-> IF boxTask[t].kind = "none" THEN BoxPage!NoTask
                                          ELSE [boxTask[t] EXCEPT !.here = FALSE]]
        /\ load' = [k \in Pieces |-> IF k = l THEN BoxPage!StartLoad(l, b, TRUE)[l]
                                     ELSE BoxPage!NoLoad]
    BY <1>4 DEF BoxPage!Open, BoxPage!Remount
  <2>2. \A t \in Handlers :
          /\ boxTask'[t] \in BoxTasks
          /\ boxTask'[t].kind = "none" <=> boxTask'[t].pc = "none"
          /\ boxTask'[t].kind = "note" /\ boxTask'[t].pc = "ask" /\ boxTask'[t].fresh
             => SavesPlace(boxTask'[t])
    <3>. TAKE t \in Handlers
    <3>1. boxTask[t] \in BoxTasks /\ (boxTask[t].kind = "none" <=> boxTask[t].pc = "none")
      BY <1>2 DEF BoxTasksTyped
    <3>2. CASE boxTask[t].kind = "none"
      BY <2>1, <3>2, BoxNothing
    <3>3. CASE boxTask[t].kind # "none"
      <4>1. boxTask'[t] = [boxTask[t] EXCEPT !.here = FALSE]
        BY <2>1, <3>3
      <4>2. /\ boxTask'[t] \in BoxTasks /\ boxTask'[t].kind = boxTask[t].kind
            /\ boxTask'[t].pc = boxTask[t].pc /\ boxTask'[t].fresh = boxTask[t].fresh
            /\ boxTask'[t].place = boxTask[t].place /\ boxTask'[t].box = boxTask[t].box
        BY <3>1, <4>1 DEF BoxTasks
      <4>. QED BY <3>1, <4>2 DEF BoxInv, SaveIsFresh, SavesPlace
    <3>. QED BY <3>2, <3>3
  <2>3. BoxTasksTyped'
    BY <2>1, <2>2 DEF BoxTasksTyped
  <2>4. \A k \in Pieces : load'[k] \in BoxLoads /\ load'[k].pc # "read"
    <3>1. BoxPage!StartLoad(l, b, TRUE)[l] \in BoxLoads /\ BoxPage!StartLoad(l, b, TRUE)[l].pc = "sent"
      BY <1>2, BoxNothing DEF BoxPage!StartLoad, BoxLoads
    <3>. QED BY <2>1, <3>1, BoxNothing
  <2>5. load' \in [Pieces -> BoxLoads]
    BY <2>1, <2>4
  <2>6. page' \in BoxPages /\ Agrees(page'.shown)
    BY <2>1, BoxNothing
  <2>. QED BY <1>1, <1>3, <2>2, <2>3, <2>4, <2>5, <2>6, BoxQuiet
<1>5. CASE ~(keyed \/ page.address = None)
  <2>1. /\ page' = [page EXCEPT !.address = b, !.loading = TRUE]
        /\ load' = BoxPage!StartLoad(l, b, TRUE) /\ UNCHANGED boxTask
    BY <1>5 DEF BoxPage!Open
  <2>2. page' \in BoxPages
    BY <1>2, <2>1 DEF BoxPages
  <2>3. /\ load' \in [Pieces -> BoxLoads] /\ load'[l].pc = "sent"
        /\ \A k \in Pieces : load'[k].pc = "read" /\ load'[k].fresh => Agrees(load'[k].found)
    BY <2>1, BoxLoadStarts
  <2>. QED BY <1>1, <1>3, <2>1, <2>2, <2>3, BoxBrowses
<1>. QED BY <1>4, <1>5

LEMMA BoxTaskSet ==
  ASSUME BoxInv, NEW t \in Handlers, NEW k \in BoxTasks, k.kind = "none" <=> k.pc = "none",
         boxTask' = [boxTask EXCEPT ![t] = k]
  PROVE  /\ BoxTasksTyped' /\ boxTask'[t] = k
         /\ \A s \in Handlers \ {t} : boxTask'[s] = boxTask[s] /\ BoxReloads(s)' = BoxReloads(s)
         /\ BoxReloads(t)' <=> k.pc = "ok" /\ k.here /\ k.kind # "note"
BY DEF BoxInv, BoxTyped, BoxTasksTyped, BoxReloads

\* A handler is started.  One that could know saves the place the box is in.
LEMMA BoxBegins ==
  ASSUME BoxInv, NEW t \in Handlers, NEW k \in BoxTasks, k.kind # "none", BoxPage!Begin(t, k),
         k.kind = "note" => k.place = None \/ (k.box = page.shown.box /\ k.place = page.shown.place)
  PROVE  BoxInv'
<1>. DEFINE new == [k EXCEPT !.pc = "ask", !.address = page.address,
                             !.fresh = page.shown.fresh /\ BoxPage!AtRest]
<1>1. /\ boxClicks > 0 /\ boxClicks' = boxClicks - 1 /\ boxTask[t].kind = "none"
      /\ boxTask' = [boxTask EXCEPT ![t] = new] /\ page.shown.box # None
      /\ UNCHANGED <<boxRows, place, note, inside, undone, boxForeign, page, load>>
  BY DEF BoxPage!Begin, BoxPage!store, BoxPage!Ready
<1>2. /\ page \in BoxPages /\ boxClicks \in 0..MaxClicks /\ load \in [Pieces -> BoxLoads]
      /\ BoxTasksTyped /\ page.address \in Boxes \cup {None}
  BY DEF BoxInv, BoxTyped, BoxPages
<1>3. boxClicks' \in 0..MaxClicks
  BY <1>1, <1>2, PagesAssumption
<1>4. /\ new \in BoxTasks /\ new.kind = k.kind /\ new.pc = "ask" /\ new.place = k.place
      /\ new.box = k.box /\ (new.fresh => page.shown.fresh /\ BoxPage!AtRest)
  BY <1>2 DEF BoxTasks, BoxPage!AtRest
<1>. HIDE DEF new
<1>5. /\ BoxTasksTyped' /\ boxTask'[t] = new
      /\ \A s \in Handlers \ {t} : boxTask'[s] = boxTask[s] /\ BoxReloads(s)' = BoxReloads(s)
  BY <1>1, <1>4, BoxTaskSet
<1>6. ~BoxReloads(t)
  BY <1>1, <1>2 DEF BoxReloads, BoxTasksTyped
<1>7. \A l \in Pieces : load'[l].pc = "read" /\ load'[l].fresh => Agrees(load'[l].found)
  BY <1>1 DEF BoxInv, BoxReadIsFresh
<1>8. page'.shown.fresh => \/ Agrees(page'.shown)
                           \/ \E l \in Pieces : load'[l].pc # "none"
                           \/ \E s \in Handlers : BoxReloads(s)'
  BY <1>1, <1>5, <1>6 DEF BoxInv, BoxPageIsFresh
<1>9. new.kind = "note" /\ new.fresh => SavesPlace(new)
  <2>. SUFFICES ASSUME new.kind = "note", new.fresh PROVE SavesPlace(new)
    OBVIOUS
  <2>1. Agrees(page.shown)
    BY <1>4 DEF BoxInv, BoxPageIsFresh, BoxPage!AtRest, BoxPage!Free, BoxReloads
  <2>. QED BY <1>1, <1>4, <2>1 DEF Agrees, SavesPlace
<1>10. \A s \in Handlers :
         /\ boxTask'[s].kind = "note" /\ boxTask'[s].pc = "ask" /\ boxTask'[s].fresh
         => SavesPlace(boxTask'[s])
  BY <1>5, <1>9 DEF BoxInv, SaveIsFresh
<1>. QED BY <1>1, <1>2, <1>3, <1>5, <1>7, <1>8, <1>10, BoxQuiet

LEMMA BoxCommandStep ==
  ASSUME BoxInv, NEW t \in Handlers, BoxPage!Command(t) PROVE BoxInv'
<1>0. /\ page.shown.box \in Boxes \cup {None} /\ page.shown.place \in Marks \cup {None}
      /\ page.shown.note \in Notes \cup {None} /\ page.shown.items \subseteq Items
      /\ page.address \in Boxes \cup {None}
  BY DEF BoxInv, BoxTyped, BoxPages, BoxPage!Shown
<1>. USE DEF BoxTasks, BoxPage!NoTask
<1>1. CASE BoxPage!saveBoxNoteAndPhoto(t)
  <2>. DEFINE k == [BoxPage!NoTask EXCEPT !.kind = "note", !.box = page.shown.box,
                      !.place = page.shown.place, !.note = page.shown.note]
  <2>1. /\ k \in BoxTasks /\ k.kind = "note" /\ k.box = page.shown.box
        /\ k.place = page.shown.place
    BY <1>0
  <2>2. BoxPage!Begin(t, k)
    BY <1>1 DEF BoxPage!saveBoxNoteAndPhoto
  <2>. HIDE DEF k
  <2>. QED BY <2>1, <2>2, BoxBegins
<1>2. CASE BoxPage!saveShelfDetails(t)
  <2>. DEFINE k == [BoxPage!NoTask EXCEPT !.kind = "note", !.box = page.shown.box,
                      !.note = page.shown.note]
  <2>1. k \in BoxTasks /\ k.kind = "note" /\ k.place = None
    BY <1>0
  <2>2. BoxPage!Begin(t, k)
    BY <1>2 DEF BoxPage!saveShelfDetails
  <2>. HIDE DEF k
  <2>. QED BY <2>1, <2>2, BoxBegins
<1>3. CASE BoxPage!submitRelocation(t)
  <2>0. PICK p \in Marks : BoxPage!Begin(t, [BoxPage!NoTask EXCEPT !.kind = "relocate",
                                               !.box = page.shown.box, !.place = p])
    BY <1>3 DEF BoxPage!submitRelocation
  <2>. DEFINE k == [BoxPage!NoTask EXCEPT !.kind = "relocate", !.box = page.shown.box, !.place = p]
  <2>1. k \in BoxTasks /\ k.kind = "relocate"
    BY <1>0
  <2>2. BoxPage!Begin(t, k)
    BY <2>0
  <2>. HIDE DEF k
  <2>. QED BY <2>1, <2>2, BoxBegins
<1>4. CASE BoxPage!removeItem(t)
  <2>0. PICK i \in Items : BoxPage!Begin(t, [BoxPage!NoTask EXCEPT !.kind = "remove", !.item = i])
    BY <1>0, <1>4 DEF BoxPage!removeItem
  <2>. DEFINE k == [BoxPage!NoTask EXCEPT !.kind = "remove", !.item = i]
  <2>1. k \in BoxTasks /\ k.kind = "remove"
    OBVIOUS
  <2>2. BoxPage!Begin(t, k)
    BY <2>0
  <2>. HIDE DEF k
  <2>. QED BY <2>1, <2>2, BoxBegins
<1>5. CASE BoxPage!addToBox(t)
  <2>0. PICK i \in Items : BoxPage!Begin(t, [BoxPage!NoTask EXCEPT !.kind = "add",
                                               !.box = page.address, !.item = i])
    BY <1>5 DEF BoxPage!addToBox
  <2>. DEFINE k == [BoxPage!NoTask EXCEPT !.kind = "add", !.box = page.address, !.item = i]
  <2>1. k \in BoxTasks /\ k.kind = "add"
    BY <1>0
  <2>2. BoxPage!Begin(t, k)
    BY <2>0
  <2>. HIDE DEF k
  <2>. QED BY <2>1, <2>2, BoxBegins
<1>6. CASE BoxPage!handleDeleteBox(t)
  <2>. DEFINE k == [BoxPage!NoTask EXCEPT !.kind = "delete", !.box = page.shown.box]
  <2>1. k \in BoxTasks /\ k.kind = "delete"
    BY <1>0
  <2>2. BoxPage!Begin(t, k)
    BY <1>6 DEF BoxPage!handleDeleteBox
  <2>. HIDE DEF k
  <2>. QED BY <2>1, <2>2, BoxBegins
<1>. QED BY <1>1, <1>2, <1>3, <1>4, <1>5, <1>6 DEF BoxPage!Command

\* A handler goes on or ends, nothing is written.
LEMMA BoxGoesOn ==
  ASSUME BoxInv, NEW t \in Handlers, NEW k \in BoxTasks, k.kind = "none" <=> k.pc = "none",
         k.pc # "ask", boxTask' = [boxTask EXCEPT ![t] = k],
         UNCHANGED <<boxRows, place, note, inside, undone, boxForeign, boxClicks>>,
         page' \in BoxPages, load' \in [Pieces -> BoxLoads],
         \A l \in Pieces : load'[l].pc = "read" /\ load'[l].fresh => Agrees(load'[l].found),
         page'.shown.fresh =>
           \/ Agrees(page'.shown) \/ \E l \in Pieces : load'[l].pc # "none"
           \/ page' = page /\ load' = load /\ ~BoxReloads(t)
  PROVE  BoxInv'
<1>1. /\ BoxTasksTyped' /\ boxTask'[t] = k
      /\ \A s \in Handlers \ {t} : boxTask'[s] = boxTask[s] /\ BoxReloads(s)' = BoxReloads(s)
  BY BoxTaskSet
<1>2. boxClicks' \in 0..MaxClicks
  BY DEF BoxInv, BoxTyped
<1>3. page'.shown.fresh => \/ Agrees(page'.shown)
                           \/ \E l \in Pieces : load'[l].pc # "none"
                           \/ \E s \in Handlers : BoxReloads(s)'
  BY <1>1 DEF BoxInv, BoxPageIsFresh
<1>4. \A s \in Handlers :
        /\ boxTask'[s].kind = "note" /\ boxTask'[s].pc = "ask" /\ boxTask'[s].fresh
        => SavesPlace(boxTask'[s])
  BY <1>1 DEF BoxInv, SaveIsFresh
<1>. QED BY <1>1, <1>2, <1>3, <1>4, BoxQuiet

LEMMA BoxAnswerStep ==
  ASSUME BoxInv, NEW t \in Handlers,
         BoxPage!Decline(t) \/ BoxPage!Answer(t) \/ BoxPage!AnswerLost(t)
  PROVE  BoxInv'
<1>0. /\ boxTask' = [boxTask EXCEPT ![t] = BoxPage!NoTask]
      /\ UNCHANGED <<boxRows, place, note, inside, undone, boxForeign, boxClicks>>
  BY DEF BoxPage!Decline, BoxPage!Answer, BoxPage!AnswerLost, BoxPage!store
<1>1. /\ page \in BoxPages /\ load \in [Pieces -> BoxLoads] /\ boxTask[t] \in BoxTasks
      /\ boxTask[t].kind = "none" <=> boxTask[t].pc = "none"
      /\ \A l \in Pieces : load[l].pc = "read" /\ load[l].fresh => Agrees(load[l].found)
  BY DEF BoxInv, BoxTyped, BoxTasksTyped, BoxReadIsFresh
<1>2. CASE UNCHANGED <<page, load>> /\ ~BoxReloads(t)
  BY <1>0, <1>1, <1>2, BoxNothing, BoxGoesOn
<1>3. ASSUME NEW l \in Pieces, load' = BoxPage!StartLoad(l, boxTask[t].address, FALSE), page' = page
      PROVE  BoxInv'
  <2>1. boxTask[t].address \in Boxes \cup {None}
    BY <1>1 DEF BoxTasks
  <2>2. /\ load' \in [Pieces -> BoxLoads] /\ load'[l].pc = "sent"
        /\ \A k \in Pieces : load'[k].pc = "read" /\ load'[k].fresh => Agrees(load'[k].found)
    BY <1>3, <2>1, BoxLoadStarts
  <2>. QED BY <1>0, <1>1, <1>3, <2>2, BoxNothing, BoxGoesOn
<1>4. CASE page' = BoxPage!Blank(None) /\ load' = [l \in Pieces |-> BoxPage!NoLoad]
  <2>1. page' \in BoxPages /\ Agrees(page'.shown)
    BY <1>4, BoxNothing
  <2>2. load' \in [Pieces -> BoxLoads] /\ \A l \in Pieces : load'[l].pc # "read"
    BY <1>4, BoxNothing
  <2>. QED BY <1>0, <2>1, <2>2, BoxNothing, BoxGoesOn
<1>5. CASE BoxPage!PageOutdated /\ load' = load
  <2>1. page' \in BoxPages /\ ~page'.shown.fresh
    BY <1>1, <1>5 DEF BoxPage!PageOutdated, BoxPages, BoxPage!Shown
  <2>. QED BY <1>0, <1>1, <1>5, <2>1, BoxNothing, BoxGoesOn
<1>6. CASE BoxPage!Decline(t)
  BY <1>2, <1>6 DEF BoxPage!Decline, BoxReloads
<1>7. CASE BoxPage!AnswerLost(t)
  BY <1>2, <1>5, <1>7 DEF BoxPage!AnswerLost, BoxReloads
<1>8. CASE BoxPage!Answer(t)
  <2>1. CASE boxTask[t].pc = "ok" /\ boxTask[t].here
    <3>1. CASE BoxPage!Reloads(t)
      BY <1>3, <1>8, <2>1, <3>1 DEF BoxPage!Answer, BoxPage!Reloads
    <3>2. CASE boxTask[t].kind = "delete"
      BY <1>4, <1>8, <2>1, <3>2 DEF BoxPage!Answer, BoxPage!Reloads
    <3>3. CASE ~BoxPage!Reloads(t) /\ boxTask[t].kind # "delete"
      <4>1. boxTask[t].kind = "note"
        BY <1>1, <2>1, <3>3 DEF BoxPage!Reloads, BoxTasks
      <4>. QED BY <1>2, <1>8, <2>1, <3>3, <4>1 DEF BoxPage!Answer, BoxReloads
    <3>. QED BY <3>1, <3>2, <3>3
  <2>2. CASE ~(boxTask[t].pc = "ok" /\ boxTask[t].here)
    BY <1>2, <1>8, <2>2 DEF BoxPage!Answer, BoxReloads
  <2>. QED BY <2>1, <2>2
<1>. QED BY <1>6, <1>7, <1>8

\* What was read or asked before is out of date.
LEMMA BoxOutdated ==
  ASSUME NEW ts \in [Handlers -> BoxTasks], load \in [Pieces -> BoxLoads], BoxPage!Outdated(ts)
  PROVE  /\ load' \in [Pieces -> BoxLoads] /\ boxTask' \in [Handlers -> BoxTasks]
         /\ \A l \in Pieces : load'[l].pc = load[l].pc /\ load'[l].fresh = FALSE
         /\ \A s \in Handlers :
              /\ boxTask'[s].pc = ts[s].pc /\ boxTask'[s].kind = ts[s].kind
              /\ boxTask'[s].here = ts[s].here /\ boxTask'[s].fresh = FALSE
<1>1. \A l \in Pieces : /\ load'[l] \in BoxLoads /\ load'[l].pc = load[l].pc
                        /\ load'[l].fresh = FALSE
  <2>. TAKE l \in Pieces
  <2>1. load[l] \in BoxLoads /\ load'[l] = [load[l] EXCEPT !.fresh = FALSE]
    BY DEF BoxPage!Outdated
  <2>. QED BY <2>1 DEF BoxLoads
<1>2. \A s \in Handlers :
        /\ boxTask'[s] \in BoxTasks /\ boxTask'[s].pc = ts[s].pc /\ boxTask'[s].kind = ts[s].kind
        /\ boxTask'[s].here = ts[s].here /\ boxTask'[s].fresh = FALSE
  <2>. TAKE s \in Handlers
  <2>1. ts[s] \in BoxTasks /\ boxTask'[s] = [ts[s] EXCEPT !.fresh = FALSE]
    BY DEF BoxPage!Outdated
  <2>. QED BY <2>1 DEF BoxTasks
<1>. QED BY <1>1, <1>2 DEF BoxPage!Outdated

\* The store changes: nothing that is under way counts as up to date, and the page only
\* if it is reloaded or the change is not about what it shows.
LEMMA BoxChanged ==
  ASSUME BoxInv, BoxStoreTyped', load' \in [Pieces -> BoxLoads], boxTask' \in [Handlers -> BoxTasks],
         \A l \in Pieces : load'[l].pc = load[l].pc /\ load'[l].fresh = FALSE,
         \A s \in Handlers :
           /\ boxTask'[s].kind = boxTask[s].kind /\ boxTask'[s].here = boxTask[s].here
           /\ boxTask'[s].fresh = FALSE
           /\ boxTask'[s].pc # boxTask[s].pc => boxTask'[s].pc = "ok" /\ boxTask[s].kind # "none",
         page' = page \/ BoxPage!PageOutdated,
         page'.shown.fresh => \/ \E s \in Handlers : BoxReloads(s)'
                              \/ UNCHANGED <<boxRows, place, inside>>,
         undone' \subseteq BOOLEAN, TRUE \notin undone',
         boxClicks' = boxClicks, boxForeign' \in 0..MaxForeign
  PROVE  BoxInv'
<1>1. page' \in BoxPages /\ (page'.shown.fresh => page' = page)
  <2>1. page \in BoxPages
    BY DEF BoxInv, BoxTyped
  <2>2. CASE BoxPage!PageOutdated
    BY <2>1, <2>2 DEF BoxPage!PageOutdated, BoxPages, BoxPage!Shown
  <2>. QED BY <2>1, <2>2
<1>2. BoxTasksTyped' /\ \A s \in Handlers : BoxReloads(s) => BoxReloads(s)'
  BY DEF BoxInv, BoxTyped, BoxTasksTyped, BoxReloads
<1>3. BoxTyped'
  BY <1>1, <1>2 DEF BoxInv, BoxTyped
<1>4. BoxReadIsFresh' /\ SaveIsFresh'
  BY DEF BoxReadIsFresh, SaveIsFresh
<1>5. BoxPageIsFresh'
  <2>1. UNCHANGED <<boxRows, place, inside>> => (Agrees(page.shown) => Agrees(page.shown)')
          \/ page' # page
    BY DEF Agrees
  <2>. QED BY <1>1, <1>2, <2>1 DEF BoxInv, BoxPageIsFresh
<1>. QED BY <1>3, <1>4, <1>5 DEF BoxInv, BoxPage!PlaceUndoneOnlyUnseen

\* A handler has written.
LEMMA BoxWrites ==
  ASSUME BoxInv, NEW t \in Handlers, boxTask[t].kind # "none", BoxStoreTyped',
         BoxPage!Outdated(BoxPage!Answered(t, "ok")), page' = page \/ BoxPage!PageOutdated,
         \/ BoxPage!PageOutdated
         \/ boxTask[t].here /\ boxTask[t].kind # "note"
         \/ UNCHANGED <<boxRows, place, inside>>,
         undone' \subseteq BOOLEAN, TRUE \notin undone', UNCHANGED <<boxClicks, boxForeign>>
  PROVE  BoxInv'
<1>. DEFINE ts == BoxPage!Answered(t, "ok")
<1>1. /\ boxTask \in [Handlers -> BoxTasks] /\ load \in [Pieces -> BoxLoads]
      /\ page \in BoxPages /\ boxForeign \in 0..MaxForeign
  BY DEF BoxInv, BoxTyped, BoxTasksTyped
<1>2. /\ ts \in [Handlers -> BoxTasks] /\ ts[t].pc = "ok"
      /\ \A s \in Handlers : ts[s].kind = boxTask[s].kind /\ ts[s].here = boxTask[s].here
      /\ \A s \in Handlers : s # t => ts[s].pc = boxTask[s].pc
  BY <1>1 DEF BoxTasks, BoxPage!Answered
<1>. HIDE DEF ts
<1>3. /\ load' \in [Pieces -> BoxLoads] /\ boxTask' \in [Handlers -> BoxTasks]
      /\ \A l \in Pieces : load'[l].pc = load[l].pc /\ load'[l].fresh = FALSE
      /\ \A s \in Handlers :
           /\ boxTask'[s].pc = ts[s].pc /\ boxTask'[s].kind = ts[s].kind
           /\ boxTask'[s].here = ts[s].here /\ boxTask'[s].fresh = FALSE
  BY <1>1, <1>2, BoxOutdated DEF ts
<1>4. page'.shown.fresh => \/ \E s \in Handlers : BoxReloads(s)'
                           \/ UNCHANGED <<boxRows, place, inside>>
  <2>1. CASE BoxPage!PageOutdated
    BY <1>1, <2>1 DEF BoxPage!PageOutdated, BoxPages, BoxPage!Shown
  <2>2. CASE boxTask[t].here /\ boxTask[t].kind # "note"
    BY <1>2, <1>3, <2>2 DEF BoxReloads
  <2>. QED BY <2>1, <2>2
<1>. QED BY <1>1, <1>2, <1>3, <1>4, BoxChanged

LEMMA BoxPostStep ==
  ASSUME BoxInv, NEW t \in Handlers, BoxPage!Post(t) PROVE BoxInv'
<1>0. /\ boxTask[t].pc = "ask" /\ boxTask[t].kind # "none" /\ boxTask[t] \in BoxTasks
      /\ BoxStoreTyped /\ undone \subseteq BOOLEAN /\ TRUE \notin undone
      /\ UNCHANGED <<boxClicks, boxForeign>>
  BY DEF BoxPage!Post, BoxInv, BoxTyped, BoxTasksTyped, BoxPage!PlaceUndoneOnlyUnseen
<1>1. boxTask[t].place \in Marks \cup {None} /\ boxTask[t].note \in Notes \cup {None}
      /\ boxTask[t].box \in Boxes \cup {None} /\ boxTask[t].fresh \in BOOLEAN
  BY <1>0 DEF BoxTasks
<1>2. CASE BoxPage!PostNote(t)
  <2>1. note' \in [Boxes -> Notes \cup {None}] /\ UNCHANGED <<boxRows, inside>>
        /\ BoxPage!Outdated(BoxPage!Answered(t, "ok"))
    BY <1>0, <1>1, <1>2 DEF BoxPage!PostNote, BoxStoreTyped
  <2>2. CASE boxTask[t].place \in {None, place[boxTask[t].box]}
    <3>1. UNCHANGED <<place, undone, page>>
      BY <1>2, <2>2 DEF BoxPage!PostNote
    <3>2. BoxStoreTyped'
      BY <1>0, <2>1, <3>1 DEF BoxStoreTyped
    <3>. QED BY <1>0, <2>1, <3>1, <3>2, BoxWrites
  <2>3. CASE boxTask[t].place \notin {None, place[boxTask[t].box]}
    <3>1. /\ place' = [place EXCEPT ![boxTask[t].box] = boxTask[t].place]
          /\ undone' = undone \cup {boxTask[t].fresh} /\ BoxPage!PageOutdated
          /\ boxTask[t].kind = "note"
      BY <1>2, <2>3 DEF BoxPage!PostNote
    <3>2. BoxStoreTyped'
      BY <1>0, <1>1, <2>1, <3>1 DEF BoxStoreTyped
    <3>3. ~boxTask[t].fresh
      BY <1>0, <2>3, <3>1 DEF BoxInv, SaveIsFresh, SavesPlace
    <3>4. undone' \subseteq BOOLEAN /\ TRUE \notin undone'
      BY <1>0, <1>1, <3>1, <3>3
    <3>. QED BY <1>0, <2>1, <3>1, <3>2, <3>4, BoxWrites
  <2>. QED BY <2>2, <2>3
<1>3. ASSUME BoxPage!Written(t), boxTask[t].kind # "note", BoxStoreTyped', UNCHANGED undone
      PROVE  BoxInv'
  <2>1. /\ BoxPage!Outdated(BoxPage!Answered(t, "ok")) /\ (page' = page \/ BoxPage!PageOutdated)
        /\ BoxPage!PageOutdated \/ boxTask[t].here
    BY <1>3 DEF BoxPage!Written
  <2>. QED BY <1>0, <1>3, <2>1, BoxWrites
<1>4. CASE BoxPage!PostRelocation(t)
  <2>1. BoxStoreTyped'
    BY <1>0, <1>1, <1>4 DEF BoxPage!PostRelocation, BoxPage!NotesWritten, BoxStoreTyped
  <2>. QED BY <1>3, <1>4, <2>1 DEF BoxPage!PostRelocation
<1>5. CASE BoxPage!PostRemove(t)
  <2>1. BoxStoreTyped'
    BY <1>0, <1>5 DEF BoxPage!PostRemove, BoxStoreTyped
  <2>. QED BY <1>3, <1>5, <2>1 DEF BoxPage!PostRemove
<1>6. CASE BoxPage!PostAdd(t)
  <2>1. BoxStoreTyped'
    BY <1>0, <1>1, <1>6 DEF BoxPage!PostAdd, BoxStoreTyped
  <2>. QED BY <1>3, <1>6, <2>1 DEF BoxPage!PostAdd
<1>7. CASE BoxPage!PostDelete(t)
  <2>1. BoxStoreTyped'
    BY <1>0, <1>7 DEF BoxPage!PostDelete, BoxStoreTyped
  <2>. QED BY <1>3, <1>7, <2>1 DEF BoxPage!PostDelete
<1>8. CASE BoxPage!PostRefused(t)
  <2>. DEFINE k == [boxTask[t] EXCEPT !.pc = "refused"]
  <2>1. k \in BoxTasks /\ k.pc = "refused" /\ k.kind = boxTask[t].kind
    BY <1>0 DEF BoxTasks
  <2>2. /\ boxTask' = [boxTask EXCEPT ![t] = k]
        /\ UNCHANGED <<boxRows, place, note, inside, undone, page, load>>
    BY <1>8 DEF BoxPage!PostRefused, BoxPage!Answered, BoxPage!store
  <2>3. page \in BoxPages /\ load \in [Pieces -> BoxLoads]
        /\ \A l \in Pieces : load[l].pc = "read" /\ load[l].fresh => Agrees(load[l].found)
    BY DEF BoxInv, BoxTyped, BoxReadIsFresh
  <2>4. ~BoxReloads(t)
    BY <1>0 DEF BoxReloads
  <2>. HIDE DEF k
  <2>. QED BY <1>0, <2>1, <2>2, <2>3, <2>4, BoxGoesOn
<1>. QED BY <1>2, <1>4, <1>5, <1>6, <1>7, <1>8 DEF BoxPage!Post

LEMMA BoxByOthers == ASSUME BoxInv, BoxPage!ByOthers, BoxStoreTyped' PROVE BoxInv'
<1>1. /\ boxForeign > 0 /\ boxForeign' = boxForeign - 1 /\ BoxPage!Outdated(boxTask)
      /\ BoxPage!PageOutdated /\ UNCHANGED <<boxClicks, undone>>
  BY DEF BoxPage!ByOthers
<1>2. /\ boxTask \in [Handlers -> BoxTasks] /\ load \in [Pieces -> BoxLoads]
      /\ page \in BoxPages /\ boxForeign \in 0..MaxForeign
      /\ undone \subseteq BOOLEAN /\ TRUE \notin undone
  BY DEF BoxInv, BoxTyped, BoxTasksTyped, BoxPage!PlaceUndoneOnlyUnseen
<1>3. /\ load' \in [Pieces -> BoxLoads] /\ boxTask' \in [Handlers -> BoxTasks]
      /\ \A l \in Pieces : load'[l].pc = load[l].pc /\ load'[l].fresh = FALSE
      /\ \A s \in Handlers :
           /\ boxTask'[s].pc = boxTask[s].pc /\ boxTask'[s].kind = boxTask[s].kind
           /\ boxTask'[s].here = boxTask[s].here /\ boxTask'[s].fresh = FALSE
  BY <1>1, <1>2, BoxOutdated
<1>4. boxForeign' \in 0..MaxForeign /\ ~page'.shown.fresh
  BY <1>1, <1>2, PagesAssumption DEF BoxPage!PageOutdated, BoxPages, BoxPage!Shown
<1>. QED BY <1>1, <1>2, <1>3, <1>4, BoxChanged

LEMMA BoxStep == BoxInv /\ [BoxPage!Next]_boxPage => BoxInv'
<1>. SUFFICES ASSUME BoxInv, [BoxPage!Next]_boxPage PROVE BoxInv'
  OBVIOUS
<1>0. BoxStoreTyped
  BY DEF BoxInv, BoxTyped
<1>1. ASSUME NEW b \in Boxes, BoxPage!BoxChanges(b) PROVE BoxInv'
  <2>1. BoxStoreTyped' /\ BoxPage!ByOthers
    BY <1>0, <1>1 DEF BoxPage!BoxChanges, BoxStoreTyped
  <2>. QED BY <2>1, BoxByOthers
<1>2. ASSUME NEW b \in Boxes, BoxPage!BoxDeleted(b) PROVE BoxInv'
  <2>1. BoxStoreTyped' /\ BoxPage!ByOthers
    BY <1>0, <1>2 DEF BoxPage!BoxDeleted, BoxStoreTyped
  <2>. QED BY <2>1, BoxByOthers
<1>3. ASSUME NEW i \in Items, BoxPage!ItemMoves(i) PROVE BoxInv'
  <2>1. BoxStoreTyped' /\ BoxPage!ByOthers
    BY <1>0, <1>3 DEF BoxPage!ItemMoves, BoxStoreTyped
  <2>. QED BY <2>1, BoxByOthers
<1>4. CASE UNCHANGED boxPage
  BY <1>4 DEF boxPage, BoxInv, BoxTyped, BoxStoreTyped, BoxTasksTyped, BoxReadIsFresh,
     BoxPageIsFresh, BoxReloads, SaveIsFresh, SavesPlace, Agrees, BoxPage!PlaceUndoneOnlyUnseen
<1>. QED BY <1>1, <1>2, <1>3, <1>4, BoxReadStep, BoxLoadStep, BoxRetryStep, BoxTypeStep,
         BoxOpenStep, BoxCommandStep, BoxAnswerStep, BoxPostStep
     DEF BoxPage!Next, BoxPage!Browse

LEMMA BoxSafe ==
  BoxInv => BoxPage!TypeOK /\ BoxPage!PlaceUndoneOnlyUnseen /\ BoxPage!RestShowsStored
<1>1. BoxInv => BoxPage!TypeOK
  BY DEF BoxInv, BoxTyped, BoxStoreTyped, BoxTasksTyped, BoxPages, BoxLoads, BoxTasks,
     BoxPage!TypeOK
<1>2. BoxInv => BoxPage!RestShowsStored
  BY DEF BoxInv, BoxPageIsFresh, BoxReloads, Agrees, BoxPage!RestShowsStored, BoxPage!AtRest,
     BoxPage!Free
<1>. QED BY <1>1, <1>2 DEF BoxInv

-----------------------------------------------------------------------------
(* A device and its parts: Assemblies *)

DeviceRequests ==
  [op : Device!Operations \cup {"none"}, pc : Device!Steps,
   id : [part : Pieces \cup {None}, final : BOOLEAN], ref : 0..MaxRef,
   box : DeviceBoxes \cup {None}, slot : Slots \cup {None}, todo : SUBSET Device!Id,
   mark : BOOLEAN, overtaken : BOOLEAN, ok : BOOLEAN]

DeviceTable ==
  /\ device \in BOOLEAN /\ rows \subseteq Pieces /\ scanned \subseteq rows
  /\ refs \subseteq Device!Refs /\ ref \in [Pieces -> refs \cup {0}]
  /\ boxes \subseteq DeviceBoxes /\ box \in [Pieces -> boxes \cup {None}]
  /\ relation \in [Pieces -> Device!Kinds] /\ slot \in [Pieces -> Slots \cup {None}]
  /\ compat \in [Device!Refs -> {"none", "Zubehoer", "Ersatzteil"}]

DeviceHistory ==
  /\ incomplete \in BOOLEAN /\ excused \in BOOLEAN
  /\ lost \subseteq [part : Pieces, raced : BOOLEAN] /\ repeated \subseteq BOOLEAN
  /\ budget \in 0..MaxIssued

\* The device counts as a donor, or will, or is excused.
Donor == incomplete \/ excused \/ \E h \in Handlers : request[h].pc = "mark"
Outside(p) == p \in rows /\ relation[p] = "Zerlegt_aus" /\ box[p] # None
InRow(id) == Device!Current(id) /\ relation[id.part] = "Zerlegt_aus"

\* What a request in flight knows of the parts: it names boxes and articles that exist,
\* a part it deletes is in no box and a part it stores is the first of its scan, unless
\* it was overtaken, and a move that marks nothing finds a device that is marked.
Named(r) ==
  /\ r.op \notin {"none", "removeDevice", "intake"} => r.id \in Device!Id
  /\ r.op \in {"take", "move"} => r.box \in boxes
  /\ r.op = "newRef" \/ (r.op = "take" /\ r.pc = "mint") => r.ref \in Device!Refs
  /\ r.op = "catalog" \/ (r.op = "take" /\ r.pc = "graduate") => r.ref \in refs
  /\ r.op = "none" => r.pc = "rest"
  /\ r.op # "removeDevice" => r.todo = {}
Doomed(r) ==
  ~r.overtaken => /\ r.op = "unlinkPart" => box[r.id.part] = None
                  /\ \A id \in r.todo : box[id.part] = None
First(r) == r.op = "intake" /\ r.pc = "insert" /\ ~r.overtaken => scanned = {}
Silent(r) == r.op = "move" /\ ~r.mark /\ InRow(r.id) => Donor
Sound(r) == Named(r) /\ Doomed(r) /\ First(r) /\ Silent(r)

DeviceInv ==
  /\ DeviceTable /\ DeviceHistory /\ request \in [Handlers -> DeviceRequests]
  /\ \A h \in Handlers : Sound(request[h])
  /\ Device!DonorMarked /\ Device!LostOnlyByRace /\ Device!SerialTwiceOnlyByRace

LEMMA Donors == Device!DonorMarked <=> ((\E p \in rows : Outside(p)) => Donor)
BY DEF Device!DonorMarked, Outside, Donor

\* A finite set of numbers has a largest one.
LEMMA LargestNumber ==
  ASSUME NEW S \in SUBSET Nat, IsFiniteSet(S), S # {}
  PROVE  \E n \in S : \A m \in S : n >= m
<1>. DEFINE Above(n) == {m \in S : m > n}
            T == {Above(n) : n \in S}
            Finite == FiniteSubsetsOf(S)
            Within == StrictSubsetOrdering(S)
<1>1. IsWellFoundedOn(Within, Finite)
  BY FS_StrictSubsetOrderingWellFounded
<1>2. T \subseteq Finite /\ T # {}
  <2>1. \A n \in S : Above(n) \in SUBSET S
    OBVIOUS
  <2>2. Finite = SUBSET S
    BY FS_FiniteSubsetsOfFinite
  <2>. HIDE DEF Above, Finite
  <2>. QED BY <2>1, <2>2
<1>. HIDE DEF Finite, Within, T
<1>3. \E X \in T : \A Y \in T : ~(<<Y, X>> \in Within)
  BY <1>1, <1>2, WFMin
<1>4. PICK n \in S : \A m \in S : ~(<<Above(m), Above(n)>> \in Within)
  BY <1>3 DEF T
<1>5. ASSUME NEW m \in S, m > n PROVE FALSE
  <2>0. \A k \in S : k > m => k > n
    BY <1>5
  <2>1. ~(m > m)
    OBVIOUS
  <2>2. Above(m) \subseteq Above(n)
    BY <2>0
  <2>3. m \in Above(n) /\ m \notin Above(m)
    BY <1>5, <2>1
  <2>4. <<Above(m), Above(n)>> \in Within
    BY <2>2, <2>3 DEF Within, StrictSubsetOrdering
  <2>. QED BY <1>4, <2>4
<1>. QED BY <1>5

\* Article numbers start at 1, also the next one.
LEMMA NextIsRef == DeviceTable /\ Device!NextRef <= MaxRef => Device!NextRef \in Device!Refs
<1>. SUFFICES ASSUME DeviceTable, Device!NextRef <= MaxRef PROVE Device!NextRef \in Device!Refs
  OBVIOUS
<1>. DEFINE S == refs \cup {0}
<1>1. MaxRef \in Nat /\ S \in SUBSET Nat /\ S # {} /\ \A n \in S : n <= MaxRef
  <2>1. MaxRef \in Nat
    BY DeviceAssumption
  <2>2. refs \subseteq Device!Refs
    BY DEF DeviceTable
  <2>3. refs \subseteq 1..MaxRef
    BY <2>2 DEF Device!Refs
  <2>. QED BY <2>1, <2>3
<1>2. IsFiniteSet(S)
  BY <1>1, FS_BoundedSetOfNaturals
<1>3. PICK n \in S : \A m \in S : n >= m
  <2>. HIDE DEF S
  <2>. QED BY <1>1, <1>2, LargestNumber
<1>4. Device!Max(S) \in S
  BY <1>3 DEF Device!Max
<1>5. Device!NextRef = Device!Max(S) + 1
  BY DEF Device!NextRef
<1>6. Device!Max(S) \in Nat
  BY <1>1, <1>4
<1>. HIDE DEF S
<1>. QED BY <1>1, <1>5, <1>6 DEF Device!Refs

LEMMA IdleRequest ==
  \A ok \in BOOLEAN :
    /\ Device!Idle(ok) \in DeviceRequests /\ Sound(Device!Idle(ok)) /\ Sound(Device!Idle(ok))'
    /\ Device!Idle(ok).op = "none" /\ Device!Idle(ok).pc = "rest"
BY DeviceAssumption
   DEF Device!Idle, DeviceRequests, Device!Operations, Device!Steps, Sound, Named, Doomed, First, Silent

LEMMA DeviceInit == Device!Init => DeviceInv
<1>. SUFFICES ASSUME Device!Init PROVE DeviceInv
  OBVIOUS
<1>1. request \in [Handlers -> DeviceRequests] /\ \A h \in Handlers : Sound(request[h])
  BY IdleRequest DEF Device!Init
<1>2. DeviceTable
  BY DeviceAssumption DEF Device!Init, DeviceTable, Device!Refs, Device!Kinds
<1>3. DeviceHistory
  <2>1. budget \in 0..MaxIssued
    BY DeviceAssumption DEF Device!Init
  <2>. QED BY <2>1 DEF Device!Init, DeviceHistory
<1>. QED BY <1>1, <1>2, <1>3
     DEF Device!Init, DeviceInv, Device!DonorMarked, Device!LostOnlyByRace, Device!SerialTwiceOnlyByRace

\* A request that does not move: what others do leaves it sound, or overtakes it.
Kept(g) ==
  LET r == request[g]
      next == request'[g]
  IN /\ next.op = r.op /\ next.pc = r.pc /\ next.id = r.id /\ next.ref = r.ref
     /\ next.box = r.box /\ next.todo = r.todo /\ next.mark = r.mark
     /\ r.overtaken => next.overtaken
     /\ ~next.overtaken =>
          /\ r.op = "unlinkPart" /\ box[r.id.part] = None => box'[r.id.part] = None
          /\ \A id \in r.todo : box[id.part] = None => box'[id.part] = None
          /\ r.op = "intake" /\ scanned = {} => scanned' = {}
     /\ r.op = "move" /\ ~r.mark /\ InRow(r.id)' => InRow(r.id) \/ Donor'

LEMMA DeviceKeeps ==
  ASSUME DeviceInv, DeviceTable', DeviceHistory', request' \in [Handlers -> DeviceRequests],
         boxes \subseteq boxes', refs \subseteq refs', Donor => Donor',
         \A g \in Handlers : Sound(request[g])' \/ Kept(g),
         \A p \in rows' : Outside(p)' => Outside(p) \/ Donor',
         \A l \in lost' : l \in lost \/ l.raced, FALSE \in repeated' => FALSE \in repeated
  PROVE  DeviceInv'
<1>1. ASSUME NEW g \in Handlers, Kept(g) PROVE Sound(request[g])'
  <2>1. Sound(request[g])
    BY DEF DeviceInv
  <2>2. Named(request[g])'
    BY <1>1, <2>1 DEF Sound, Named, Kept
  <2>3. Doomed(request[g])' /\ First(request[g])'
    BY <1>1, <2>1 DEF Sound, Doomed, First, Kept
  <2>4. Silent(request[g])'
    <3>1. SUFFICES ASSUME request[g].op = "move", ~request[g].mark, InRow(request[g].id)' PROVE Donor'
      BY <1>1 DEF Silent, Kept, InRow
    <3>. QED BY <1>1, <2>1, <3>1 DEF Sound, Silent, Kept
  <2>. QED BY <2>2, <2>3, <2>4 DEF Sound
<1>2. Device!DonorMarked'
  <2>1. (\E p \in rows' : Outside(p)') => Donor'
    BY Donors DEF DeviceInv, Outside
  <2>. QED BY <2>1 DEF Device!DonorMarked, Outside, Donor
<1>3. Device!LostOnlyByRace' /\ Device!SerialTwiceOnlyByRace'
  BY DEF DeviceInv, Device!LostOnlyByRace, Device!SerialTwiceOnlyByRace
<1>4. \A g \in Handlers : Sound(request[g])'
  BY <1>1
<1>. QED BY <1>2, <1>3, <1>4 DEF DeviceInv

\* A request goes on and the parts stay as they are.
LEMMA DeviceQuiet ==
  ASSUME DeviceInv, NEW h \in Handlers, NEW r \in DeviceRequests, Sound(r),
         request' = [request EXCEPT ![h] = r], request[h].pc # "mark",
         UNCHANGED <<rows, ref, box, relation, scanned, incomplete, excused, lost, repeated>>,
         DeviceTable', boxes \subseteq boxes', refs \subseteq refs', budget' \in 0..MaxIssued
  PROVE  DeviceInv'
<1>1. /\ request' \in [Handlers -> DeviceRequests] /\ request'[h] = r
      /\ \A g \in Handlers \ {h} : request'[g] = request[g]
  BY DEF DeviceInv
<1>2. Donor => Donor'
  BY <1>1 DEF Donor
<1>3. Sound(r)'
  BY <1>2 DEF Sound, Named, Doomed, First, Silent, InRow, Device!Current, Device!IdOf
<1>4. \A g \in Handlers \ {h} : Kept(g)
  BY <1>1, <1>2 DEF Kept, InRow, Device!Current, Device!IdOf
<1>5. \A p \in rows' : Outside(p)' => Outside(p)
  BY DEF Outside
<1>6. DeviceHistory'
  BY DEF DeviceInv, DeviceHistory
<1>. QED BY <1>1, <1>2, <1>3, <1>4, <1>5, <1>6, DeviceKeeps DEF DeviceInv

\* A request is read in: nothing but the device is written.
LEMMA DeviceIssues ==
  ASSUME DeviceInv, NEW h \in Handlers, NEW r \in DeviceRequests, Sound(r), Device!Issue(h, r),
         UNCHANGED <<rows, ref, box, relation, slot, scanned, boxes, refs, compat, incomplete,
                     excused, lost, repeated>>,
         device' \in BOOLEAN
  PROVE  DeviceInv'
<1>1. /\ request[h].op = "none" /\ budget > 0 /\ budget' = budget - 1
      /\ request' = [request EXCEPT ![h] = r]
  BY DEF Device!Issue
<1>2. budget' \in 0..MaxIssued /\ request[h].pc = "rest"
  <2>1. budget \in 0..MaxIssued /\ Sound(request[h])
    BY DEF DeviceInv, DeviceHistory
  <2>. QED BY <1>1, <2>1, DeviceAssumption DEF Sound, Named
<1>3. DeviceTable'
  BY DEF DeviceInv, DeviceTable
<1>. QED BY <1>1, <1>2, <1>3, DeviceQuiet

\* The fields of a request that was just read.
LEMMA NewRequest ==
  ASSUME NEW kind \in Device!Operations, NEW pc \in Device!Steps,
         NEW id \in [part : Pieces \cup {None}, final : BOOLEAN]
  PROVE  LET r == Device!Request(kind, pc, id) IN
         /\ r \in DeviceRequests /\ r.op = kind /\ r.pc = pc /\ r.id = id /\ r.todo = {}
         /\ ~r.overtaken /\ ~r.mark
BY IdleRequest DEF Device!Request, Device!Idle, DeviceRequests

LEMMA NamesPart == \A p \in Pieces : Device!IdOf(p) \in Device!Id /\ Device!IdOf(p).part = p
BY DEF Device!IdOf, Device!Id

LEMMA DeviceReads ==
  ASSUME DeviceInv, NEW h \in Handlers, Device!Read(h)
  PROVE  DeviceInv'
<1>0. /\ rows \subseteq Pieces /\ refs \subseteq Device!Refs /\ boxes \subseteq DeviceBoxes
      /\ Device!Refs \subseteq 0..MaxRef /\ device \in BOOLEAN /\ DeviceTable
      /\ Device!Id \subseteq [part : Pieces \cup {None}, final : BOOLEAN]
  BY DeviceAssumption DEF DeviceInv, DeviceTable, Device!Refs, Device!Id
<1>. USE DEF Sound, Named, Doomed, First, Silent
<1>1. CASE Device!ReadCatalog(h)
  <2>1. PICK p \in Pieces \ rows, n \in refs, s \in Slots :
          Device!Issue(h, [Device!Request("catalog", "write", [part |-> p, final |-> TRUE])
                             EXCEPT !.ref = n, !.slot = s])
    BY <1>1 DEF Device!ReadCatalog
  <2>. DEFINE id == [part |-> p, final |-> TRUE]
              new == Device!Request("catalog", "write", id)
              r == [new EXCEPT !.ref = n, !.slot = s]
  <2>2. id \in Device!Id /\ "catalog" \in Device!Operations /\ "write" \in Device!Steps
    BY DEF Device!Id, Device!Operations, Device!Steps
  <2>. HIDE DEF id
  <2>3. /\ new \in DeviceRequests /\ new.op = "catalog" /\ new.pc = "write" /\ new.id = id
        /\ new.todo = {} /\ ~new.overtaken /\ ~new.mark
    BY <1>0, <2>2, NewRequest
  <2>. HIDE DEF new
  <2>4. /\ r \in DeviceRequests /\ r.op = "catalog" /\ r.pc = "write" /\ r.id = id /\ r.ref = n
        /\ r.todo = {}
    BY <1>0, <2>3 DEF DeviceRequests
  <2>5. Device!Issue(h, r)
    BY <2>1 DEF new, id
  <2>. HIDE DEF r
  <2>6. Sound(r)
    BY <2>2, <2>4
  <2>. QED BY <1>0, <1>1, <2>4, <2>5, <2>6, DeviceIssues
       DEF Device!ReadCatalog, Device!Reads, Device!table
<1>2. CASE Device!ReadNewRef(h)
  <2>1. PICK p \in Pieces \ rows, s \in Slots :
          Device!Issue(h, [Device!Request("newRef", "write", [part |-> p, final |-> TRUE])
                             EXCEPT !.ref = Device!NextRef, !.slot = s])
    BY <1>2 DEF Device!ReadNewRef
  <2>. DEFINE id == [part |-> p, final |-> TRUE]
              new == Device!Request("newRef", "write", id)
              r == [new EXCEPT !.ref = Device!NextRef, !.slot = s]
  <2>2. id \in Device!Id /\ "newRef" \in Device!Operations /\ "write" \in Device!Steps
    BY DEF Device!Id, Device!Operations, Device!Steps
  <2>. HIDE DEF id
  <2>3. /\ new \in DeviceRequests /\ new.op = "newRef" /\ new.pc = "write" /\ new.id = id
        /\ new.todo = {} /\ ~new.overtaken /\ ~new.mark
    BY <1>0, <2>2, NewRequest
  <2>4. Device!NextRef \in Device!Refs
    BY <1>0, <1>2, NextIsRef DEF Device!ReadNewRef
  <2>. HIDE DEF new
  <2>5. /\ r \in DeviceRequests /\ r.op = "newRef" /\ r.pc = "write" /\ r.id = id
        /\ r.ref = Device!NextRef /\ r.todo = {}
    BY <1>0, <2>3, <2>4 DEF DeviceRequests
  <2>6. Device!Issue(h, r)
    BY <2>1 DEF new, id
  <2>. HIDE DEF r
  <2>7. Sound(r)
    BY <2>2, <2>4, <2>5
  <2>. QED BY <1>0, <1>2, <2>5, <2>6, <2>7, DeviceIssues
       DEF Device!ReadNewRef, Device!Reads, Device!table
<1>3. CASE Device!ReadUnlinkPart(h)
  <2>1. PICK p \in rows : box[p] = None
                          /\ Device!Issue(h, Device!Request("unlinkPart", "write", Device!IdOf(p)))
    BY <1>3 DEF Device!ReadUnlinkPart
  <2>. DEFINE r == Device!Request("unlinkPart", "write", Device!IdOf(p))
  <2>2. /\ Device!IdOf(p) \in Device!Id /\ Device!IdOf(p).part = p
        /\ "unlinkPart" \in Device!Operations /\ "write" \in Device!Steps
    BY <1>0, NamesPart DEF Device!Operations, Device!Steps
  <2>3. /\ r \in DeviceRequests /\ r.op = "unlinkPart" /\ r.pc = "write" /\ r.id = Device!IdOf(p)
        /\ r.todo = {}
    BY <1>0, <2>2, NewRequest
  <2>. HIDE DEF r
  <2>4. Sound(r)
    BY <2>1, <2>2, <2>3
  <2>. QED BY <1>0, <1>3, <2>1, <2>3, <2>4, DeviceIssues
       DEF Device!ReadUnlinkPart, Device!Reads, Device!table, r
<1>4. CASE Device!ReadRemoveDevice(h)
  <2>. DEFINE id == Device!Idle(TRUE).id
              r == Device!Request("removeDevice", "list", id)
  <2>1. id \in [part : Pieces \cup {None}, final : BOOLEAN]
        /\ "removeDevice" \in Device!Operations /\ "list" \in Device!Steps
    BY IdleRequest DEF Device!Operations, Device!Steps, Device!Idle
  <2>. HIDE DEF id
  <2>2. r \in DeviceRequests /\ r.op = "removeDevice" /\ r.pc = "list" /\ r.todo = {}
    BY <2>1, NewRequest
  <2>. HIDE DEF r
  <2>3. Sound(r)
    BY <2>2
  <2>. QED BY <1>0, <1>4, <2>2, <2>3, DeviceIssues
       DEF Device!ReadRemoveDevice, Device!Reads, Device!table, r, id
<1>5. CASE Device!ReadTake(h)
  <2>1. PICK p \in rows, b \in boxes, donor \in BOOLEAN :
          Device!Issue(h, [Device!Request("take", IF Device!needsGraduation(Device!IdOf(p))
                                                  THEN "resolve" ELSE "write", Device!IdOf(p))
                             EXCEPT !.box = b, !.mark = donor])
    BY <1>5 DEF Device!ReadTake
  <2>. DEFINE pc == IF Device!needsGraduation(Device!IdOf(p)) THEN "resolve" ELSE "write"
              new == Device!Request("take", pc, Device!IdOf(p))
              r == [new EXCEPT !.box = b, !.mark = donor]
  <2>2. /\ Device!IdOf(p) \in Device!Id /\ "take" \in Device!Operations /\ pc \in Device!Steps
        /\ pc \in {"resolve", "write"}
    BY <1>0, NamesPart DEF Device!Operations, Device!Steps
  <2>. HIDE DEF pc
  <2>3. /\ new \in DeviceRequests /\ new.op = "take" /\ new.pc = pc /\ new.id = Device!IdOf(p)
        /\ new.todo = {}
    BY <1>0, <2>2, NewRequest
  <2>. HIDE DEF new
  <2>4. /\ r \in DeviceRequests /\ r.op = "take" /\ r.pc \in {"resolve", "write"}
        /\ r.id = Device!IdOf(p) /\ r.box = b /\ r.todo = {}
    BY <1>0, <2>2, <2>3 DEF DeviceRequests
  <2>5. Device!Issue(h, r)
    BY <2>1 DEF new, pc
  <2>. HIDE DEF r
  <2>6. Sound(r)
    BY <2>2, <2>4
  <2>. QED BY <1>0, <1>5, <2>4, <2>5, <2>6, DeviceIssues
       DEF Device!ReadTake, Device!Reads, Device!table
<1>6. CASE Device!ReadMove(h)
  <2>1. PICK p \in rows, b \in boxes :
          Device!Issue(h, [Device!Request("move", "write", Device!IdOf(p))
                             EXCEPT !.box = b, !.mark = Device!InDevice(p)])
    BY <1>6 DEF Device!ReadMove
  <2>. DEFINE new == Device!Request("move", "write", Device!IdOf(p))
              r == [new EXCEPT !.box = b, !.mark = Device!InDevice(p)]
  <2>2. /\ Device!IdOf(p) \in Device!Id /\ Device!IdOf(p).part = p
        /\ "move" \in Device!Operations /\ "write" \in Device!Steps
        /\ Device!InDevice(p) \in BOOLEAN
    BY <1>0, NamesPart DEF Device!Operations, Device!Steps, Device!InDevice
  <2>3. /\ new \in DeviceRequests /\ new.op = "move" /\ new.pc = "write"
        /\ new.id = Device!IdOf(p) /\ new.todo = {}
    BY <1>0, <2>2, NewRequest
  <2>. HIDE DEF new
  <2>4. /\ r \in DeviceRequests /\ r.op = "move" /\ r.pc = "write"
        /\ r.id = Device!IdOf(p) /\ r.box = b /\ r.todo = {} /\ r.mark = Device!InDevice(p)
    BY <1>0, <2>2, <2>3 DEF DeviceRequests
  <2>5. Device!Issue(h, r)
    BY <2>1 DEF new
  <2>. HIDE DEF r
  <2>6. ASSUME ~Device!InDevice(p), InRow(Device!IdOf(p)) PROVE Donor
    <3>1. Outside(p)
      BY <2>2, <2>6 DEF InRow, Outside, Device!InDevice
    <3>. QED BY <3>1, Donors DEF DeviceInv
  <2>7. Sound(r)
    BY <2>2, <2>4, <2>6
  <2>. QED BY <1>0, <1>6, <2>4, <2>5, <2>7, DeviceIssues
       DEF Device!ReadMove, Device!Reads, Device!table
<1>7. CASE Device!ReadLink(h)
  <2>1. PICK p \in rows : Device!Issue(h, Device!Request("link", "write", Device!IdOf(p)))
    BY <1>7 DEF Device!ReadLink
  <2>. DEFINE r == Device!Request("link", "write", Device!IdOf(p))
  <2>2. /\ Device!IdOf(p) \in Device!Id
        /\ "link" \in Device!Operations /\ "write" \in Device!Steps
    BY <1>0, NamesPart DEF Device!Operations, Device!Steps
  <2>3. /\ r \in DeviceRequests /\ r.op = "link" /\ r.pc = "write" /\ r.id = Device!IdOf(p)
        /\ r.todo = {}
    BY <1>0, <2>2, NewRequest
  <2>. HIDE DEF r
  <2>4. Sound(r)
    BY <2>2, <2>3
  <2>. QED BY <1>0, <1>7, <2>1, <2>3, <2>4, DeviceIssues
       DEF Device!ReadLink, Device!Reads, Device!table, r
<1>8. CASE Device!ensureItem(h)
  <2>. DEFINE id == Device!Idle(TRUE).id
              r == Device!Request("intake", "look", id)
  <2>1. id \in [part : Pieces \cup {None}, final : BOOLEAN]
        /\ "intake" \in Device!Operations /\ "look" \in Device!Steps
    BY IdleRequest DEF Device!Operations, Device!Steps, Device!Idle
  <2>. HIDE DEF id
  <2>2. r \in DeviceRequests /\ r.op = "intake" /\ r.pc = "look" /\ r.todo = {}
    BY <2>1, NewRequest
  <2>. HIDE DEF r
  <2>3. Sound(r)
    BY <2>2
  <2>. QED BY <1>8, <2>2, <2>3, DeviceIssues
       DEF Device!ensureItem, Device!NoMarks, Device!NoLoss, r, id
<1>. QED BY <1>1, <1>2, <1>3, <1>4, <1>5, <1>6, <1>7, <1>8 DEF Device!Read

\* A request ends, or others act, and no part comes or is placed.
LEMMA DeviceLoses ==
  ASSUME DeviceInv, DeviceTable', DeviceHistory',
         rows' \subseteq rows, \A p \in rows' : ref'[p] = ref[p],
         \A p \in Pieces : box'[p] \in {box[p], None},
         \A p \in Pieces : relation'[p] = "Zerlegt_aus" => relation[p] = "Zerlegt_aus",
         scanned' \subseteq scanned, boxes \subseteq boxes', refs \subseteq refs',
         \A l \in lost' : l \in lost \/ l.raced, repeated' = repeated,
         excused' = TRUE \/ UNCHANGED <<incomplete, excused>>,
         \/ request' = request
         \/ \E h \in Handlers, ok \in BOOLEAN : request[h].pc # "mark" /\ Device!Answer(h, ok)
  PROVE  DeviceInv'
<1>0. /\ request \in [Handlers -> DeviceRequests] /\ rows \subseteq Pieces
      /\ \A g \in Handlers : Sound(request[g])
  BY DEF DeviceInv, DeviceTable
<1>1. /\ request' \in [Handlers -> DeviceRequests]
      /\ \A g \in Handlers : \/ request'[g] = request[g]
                             \/ Sound(request[g])' /\ request[g].pc # "mark"
  <2>1. CASE request' = request
    BY <1>0, <2>1
  <2>2. ASSUME NEW h \in Handlers, NEW ok \in BOOLEAN, request[h].pc # "mark", Device!Answer(h, ok)
        PROVE  /\ request' \in [Handlers -> DeviceRequests]
               /\ \A g \in Handlers : \/ request'[g] = request[g]
                                      \/ Sound(request[g])' /\ request[g].pc # "mark"
    <3>1. /\ request' \in [Handlers -> DeviceRequests] /\ request'[h] = Device!Idle(ok)
          /\ \A g \in Handlers \ {h} : request'[g] = request[g]
      BY <1>0, <2>2, IdleRequest DEF Device!Answer
    <3>2. Sound(Device!Idle(ok))'
      BY IdleRequest
    <3>3. Sound(request[h])'
      BY <3>1, <3>2 DEF Sound, Named, Doomed, First, Silent, InRow, Device!Current, Device!IdOf
    <3>. QED BY <2>2, <3>1, <3>3
  <2>. QED BY <2>1, <2>2
<1>2. Donor => Donor'
  BY <1>1 DEF Donor
<1>3. \A id \in Device!Id : InRow(id)' => InRow(id)
  <2>. TAKE id \in Device!Id
  <2>1. id.part \in Pieces
    BY DEF Device!Id
  <2>. QED BY <1>0, <2>1 DEF InRow, Device!Current, Device!IdOf
<1>4. ASSUME NEW g \in Handlers, request'[g] = request[g] PROVE Kept(g)
  <2>. DEFINE r == request[g]
  <2>1. /\ r.op = "unlinkPart" \/ r.op = "move" => r.id \in Device!Id
        /\ r.todo \subseteq Device!Id
    BY <1>0 DEF Sound, Named, DeviceRequests
  <2>2. \A id \in Device!Id : box[id.part] = None => box'[id.part] = None
    BY DEF Device!Id
  <2>3. r.op = "move" /\ InRow(r.id)' => InRow(r.id)
    BY <1>3, <2>1, <1>4
  <2>. QED BY <1>4, <2>1, <2>2, <2>3 DEF Kept
<1>5. \A p \in rows' : Outside(p)' => Outside(p)
  BY <1>0 DEF Outside
<1>. QED BY <1>1, <1>2, <1>4, <1>5, DeviceKeeps

\* A part gets its row.
LEMMA DeviceInserts ==
  ASSUME DeviceInv, NEW h \in Handlers, request[h].pc # "mark", NEW p \in Pieces,
         Device!KeysFree(p), NEW n, NEW s \in Slots \cup {None}, Device!InsertPart(p, n, s),
         refs \subseteq refs', refs' \subseteq Device!Refs, n \in refs' \cup {0},
         compat' \in [Device!Refs -> {"none", "Zubehoer", "Ersatzteil"}],
         UNCHANGED <<device, boxes, incomplete, lost, budget>>, repeated' \subseteq BOOLEAN,
         FALSE \in repeated' => FALSE \in repeated,
         request' \in [Handlers -> DeviceRequests], request'[h] = Device!Idle(TRUE),
         \A g \in Handlers \ {h} :
           request'[g] = request[g] \/ request'[g] = [request[g] EXCEPT !.overtaken = TRUE],
         \/ scanned' = scanned
         \/ /\ scanned' = scanned \cup {p}
            /\ \A g \in Handlers \ {h} : request[g].op = "intake" => request'[g].overtaken
  PROVE  DeviceInv'
<1>0. /\ DeviceTable /\ DeviceHistory /\ request \in [Handlers -> DeviceRequests]
      /\ \A g \in Handlers : Sound(request[g])
  BY DEF DeviceInv
<1>1. /\ p \notin rows /\ relation[p] = "none"
      /\ excused' = (excused \/ Device!Mistaken(p, n)) /\ rows' = rows \cup {p}
      /\ ref' = [ref EXCEPT ![p] = n] /\ box' = [box EXCEPT ![p] = None]
      /\ relation' = [relation EXCEPT ![p] = "Zerlegt_aus"] /\ slot' = [slot EXCEPT ![p] = s]
  BY DEF Device!KeysFree, Device!InsertPart
<1>2. DeviceTable'
  <2>1. scanned' \subseteq rows' /\ rows' \subseteq Pieces
    BY <1>0, <1>1 DEF DeviceTable
  <2>2. ref' \in [Pieces -> refs' \cup {0}] /\ box' \in [Pieces -> boxes' \cup {None}]
    BY <1>0, <1>1 DEF DeviceTable
  <2>3. relation' \in [Pieces -> Device!Kinds] /\ slot' \in [Pieces -> Slots \cup {None}]
    BY <1>0, <1>1 DEF DeviceTable, Device!Kinds
  <2>. QED BY <1>0, <2>1, <2>2, <2>3 DEF DeviceTable
<1>3. DeviceHistory' /\ (excused => excused')
  BY <1>0, <1>1 DEF DeviceHistory, Device!Mistaken
<1>4. ASSUME NEW g \in Handlers \ {h}
      PROVE  /\ request'[g].op = request[g].op /\ request'[g].pc = request[g].pc
             /\ request'[g].id = request[g].id /\ request'[g].ref = request[g].ref
             /\ request'[g].box = request[g].box /\ request'[g].todo = request[g].todo
             /\ request'[g].mark = request[g].mark
             /\ request[g].overtaken => request'[g].overtaken
  BY <1>0 DEF DeviceRequests
<1>5. Donor => Donor'
  BY <1>3, <1>4 DEF Donor
<1>6. ASSUME NEW g \in Handlers \ {h} PROVE Kept(g)
  <2>. DEFINE r == request[g]
  <2>1. /\ r.op = "unlinkPart" \/ r.op = "move" => r.id \in Device!Id
        /\ r.todo \subseteq Device!Id
    BY <1>0 DEF Sound, Named, DeviceRequests
  <2>2. \A id \in Device!Id : box[id.part] = None => box'[id.part] = None
    BY <1>0, <1>1 DEF Device!Id, DeviceTable
  <2>3. r.op = "intake" /\ ~request'[g].overtaken => scanned' = scanned
    OBVIOUS
  <2>4. ASSUME r.op = "move", ~r.mark, InRow(r.id)' PROVE InRow(r.id) \/ Donor'
    <3>1. r.id \in Device!Id /\ r.id.part \in Pieces
      BY <2>1, <2>4 DEF Device!Id
    <3>2. CASE r.id.part = p
      <4>1. r.id = [part |-> p, final |-> n # 0]
        BY <1>0, <1>1, <1>4, <2>4, <3>2 DEF InRow, Device!Current, Device!IdOf, DeviceTable
      <4>2. Device!Mistaken(p, n)
        BY <2>4, <4>1 DEF Device!Mistaken
      <4>. QED BY <1>1, <4>2 DEF Donor
    <3>3. CASE r.id.part # p
      BY <1>0, <1>1, <1>4, <2>4, <3>1, <3>3
         DEF InRow, Device!Current, Device!IdOf, DeviceTable
    <3>. QED BY <3>2, <3>3
  <2>. HIDE DEF Donor
  <2>. QED BY <1>4, <2>1, <2>2, <2>3, <2>4 DEF Kept
<1>7. Sound(request[h])'
  <2>1. Sound(Device!Idle(TRUE))'
    BY IdleRequest
  <2>. QED BY <2>1 DEF Sound, Named, Doomed, First, Silent, InRow, Device!Current, Device!IdOf
<1>8. \A q \in rows' : Outside(q)' => Outside(q)
  BY <1>0, <1>1 DEF Outside, DeviceTable
<1>. QED BY <1>2, <1>3, <1>5, <1>6, <1>7, <1>8, DeviceKeeps

\* A part is placed in a box: if it was inside, the device is or will be marked, and who
\* read it before is overtaken.
LEMMA DevicePlaces ==
  ASSUME DeviceInv, NEW p \in Pieces, NEW b \in boxes, Device!PlacePart(p, b),
         relation[p] = "Zerlegt_aus" => Donor', Donor => Donor',
         DeviceTable', DeviceHistory',
         \A q \in Pieces \ {p} : ref'[q] = ref[q],
         UNCHANGED <<rows, relation, scanned, boxes, refs, lost, repeated>>,
         request' \in [Handlers -> DeviceRequests],
         \A g \in Handlers :
           Sound(request[g])' \/ request'[g] = Device!Overtaking(request[g], p)
  PROVE  DeviceInv'
<1>0. /\ DeviceTable /\ request \in [Handlers -> DeviceRequests]
      /\ \A g \in Handlers : Sound(request[g])
  BY DEF DeviceInv
<1>1. \A q \in Pieces \ {p} : box'[q] = box[q]
  BY <1>0 DEF Device!PlacePart, DeviceTable
<1>2. ASSUME NEW g \in Handlers, request'[g] = Device!Overtaking(request[g], p) PROVE Kept(g)
  <2>. DEFINE r == request[g]
  <2>0. request[g] \in DeviceRequests
    BY <1>0
  <2>1. /\ request'[g].op = r.op /\ request'[g].pc = r.pc
        /\ request'[g].id = r.id /\ request'[g].ref = r.ref
        /\ request'[g].box = r.box /\ request'[g].todo = r.todo /\ request'[g].mark = r.mark
        /\ request'[g].overtaken <=> r.overtaken \/ r.id.part = p \/ \E id \in r.todo : id.part = p
    BY <1>2, <2>0 DEF DeviceRequests, Device!Overtaking
  <2>2. /\ r.op = "unlinkPart" \/ r.op = "move" => r.id \in Device!Id
        /\ r.todo \subseteq Device!Id
    BY <1>0 DEF Sound, Named, DeviceRequests
  <2>3. \A id \in Device!Id : id.part # p => box'[id.part] = box[id.part]
    BY <1>1 DEF Device!Id
  <2>4. ASSUME r.op = "move", InRow(r.id)' PROVE InRow(r.id) \/ Donor'
    <3>1. r.id \in Device!Id /\ r.id.part \in Pieces
      BY <2>2, <2>4 DEF Device!Id
    <3>2. CASE r.id.part = p
      BY <2>1, <2>4, <3>2 DEF InRow
    <3>3. CASE r.id.part # p
      BY <2>1, <2>4, <3>1, <3>3 DEF InRow, Device!Current, Device!IdOf
    <3>. QED BY <3>2, <3>3
  <2>. QED BY <2>1, <2>2, <2>3, <2>4 DEF Kept
<1>3. \A q \in rows' : Outside(q)' => Outside(q) \/ Donor'
  BY <1>0, <1>1 DEF Outside, DeviceTable
<1>. QED BY <1>0, <1>2, <1>3, DeviceKeeps

\* Nothing happens but that a request ends.
LEMMA DeviceAnswers ==
  ASSUME DeviceInv, NEW h \in Handlers, request[h].pc # "mark", NEW ok \in BOOLEAN,
         Device!Answer(h, ok), refs \subseteq refs', refs' \subseteq Device!Refs,
         UNCHANGED <<device, rows, ref, box, relation, slot, scanned, boxes, compat, incomplete,
                     excused, lost, repeated, budget>>
  PROVE  DeviceInv'
<1>1. DeviceTable' /\ DeviceHistory' /\ rows \subseteq Pieces
  BY DEF DeviceInv, DeviceTable, DeviceHistory
<1>2. \A l \in lost' : l \in lost \/ l.raced
  OBVIOUS
<1>. QED BY <1>1, <1>2, DeviceLoses

\* A request goes on, and so do the fields it is not about.
LEMMA DeviceGoesOn ==
  ASSUME DeviceInv, NEW h \in Handlers, NEW pc \in Device!Steps, request[h].pc # "mark",
         Device!Step(h, pc), request[h].op \notin {"none", "intake"},
         request[h].op = "take" /\ pc = "graduate" => request[h].ref \in refs',
         request[h].op = "take" => pc # "mint", refs \subseteq refs', refs' \subseteq Device!Refs,
         UNCHANGED <<device, rows, ref, box, relation, slot, scanned, boxes, compat, incomplete,
                     excused, lost, repeated, budget>>
  PROVE  DeviceInv'
<1>. DEFINE r == [request[h] EXCEPT !.pc = pc]
<1>1. request[h] \in DeviceRequests /\ Sound(request[h])
      /\ DeviceTable /\ request \in [Handlers -> DeviceRequests] /\ DeviceHistory
  BY DEF DeviceInv
<1>2. /\ r \in DeviceRequests /\ r.op = request[h].op /\ r.pc = pc /\ r.id = request[h].id
      /\ r.ref = request[h].ref /\ r.box = request[h].box /\ r.todo = request[h].todo
      /\ r.mark = request[h].mark /\ r.overtaken = request[h].overtaken
  BY <1>1 DEF DeviceRequests
<1>3. request' = [request EXCEPT ![h] = r]
  BY <1>1 DEF Device!Step
<1>. HIDE DEF r
<1>4. /\ request' \in [Handlers -> DeviceRequests] /\ request'[h] = r
      /\ \A g \in Handlers \ {h} : request'[g] = request[g]
  BY <1>1, <1>2, <1>3
<1>5. Donor => Donor'
  BY <1>4 DEF Donor
<1>6. Sound(request[h])'
  <2>1. Named(request[h])'
    BY <1>1, <1>2, <1>4 DEF Sound, Named
  <2>2. Doomed(request[h])' /\ First(request[h])'
    BY <1>1, <1>2, <1>4 DEF Sound, Doomed, First
  <2>3. Silent(request[h])'
    BY <1>1, <1>2, <1>4, <1>5 DEF Sound, Silent, InRow, Device!Current, Device!IdOf
  <2>. QED BY <2>1, <2>2, <2>3 DEF Sound
<1>7. \A g \in Handlers \ {h} : Kept(g)
  BY <1>4 DEF Kept, InRow, Device!Current, Device!IdOf
<1>8. \A p \in rows' : Outside(p)' => Outside(p)
  BY DEF Outside
<1>9. DeviceTable' /\ DeviceHistory'
  BY <1>1 DEF DeviceTable, DeviceHistory
<1>. QED BY <1>1, <1>4, <1>5, <1>6, <1>7, <1>8, <1>9, DeviceKeeps

LEMMA ProvenanceTyped ==
  ASSUME DeviceInv, NEW n \in Device!Refs, Device!Provenance(n)
  PROVE  compat' \in [Device!Refs -> {"none", "Zubehoer", "Ersatzteil"}]
BY DEF DeviceInv, DeviceTable, Device!Provenance

\* The part a request names is catalogued.
LEMMA DeviceCatalogs ==
  ASSUME DeviceInv, NEW h \in Handlers, Device!Catalog(h) \/ Device!NewRef(h)
  PROVE  DeviceInv'
<1>. DEFINE p == request[h].id.part
            n == request[h].ref
            s == request[h].slot
<1>0. /\ request[h] \in DeviceRequests /\ Sound(request[h]) /\ refs \subseteq Device!Refs
      /\ request \in [Handlers -> DeviceRequests] /\ repeated \subseteq BOOLEAN
  BY DEF DeviceInv, DeviceTable, DeviceHistory
<1>1. /\ request[h].op \in {"catalog", "newRef"} /\ request[h].pc = "write"
      /\ UNCHANGED <<incomplete, lost, repeated, budget>>
  BY DEF Device!Catalog, Device!NewRef, Device!At, Device!NoLoss
<1>2. p \in Pieces /\ s \in Slots \cup {None} /\ n \in Device!Refs
      /\ (request[h].op = "catalog" => n \in refs)
  BY <1>0, <1>1 DEF Sound, Named, Device!Id, DeviceRequests
<1>3. CASE Device!Answer(h, FALSE) /\ UNCHANGED <<Device!table, excused>>
  BY <1>0, <1>1, <1>3, DeviceAnswers DEF Device!table
<1>4. CASE /\ Device!KeysFree(p) /\ Device!InsertPart(p, n, s) /\ Device!Provenance(n)
           /\ Device!Answer(h, TRUE) /\ UNCHANGED <<device, scanned, boxes>>
           /\ (refs' = refs /\ n \in refs) \/ refs' = refs \cup {n}
  <2>1. /\ request' \in [Handlers -> DeviceRequests] /\ request'[h] = Device!Idle(TRUE)
        /\ \A g \in Handlers \ {h} : request'[g] = request[g]
    BY <1>0, <1>4, IdleRequest DEF Device!Answer
  <2>2. compat' \in [Device!Refs -> {"none", "Zubehoer", "Ersatzteil"}]
    BY <1>2, <1>4, ProvenanceTyped
  <2>3. refs \subseteq refs' /\ refs' \subseteq Device!Refs /\ n \in refs' \cup {0}
    BY <1>0, <1>2, <1>4
  <2>. HIDE DEF p, n, s
  <2>. QED BY <1>0, <1>1, <1>2, <1>4, <2>1, <2>2, <2>3, DeviceInserts
<1>5. CASE Device!Catalog(h)
  BY <1>1, <1>2, <1>3, <1>4, <1>5 DEF Device!Catalog, Device!At
<1>6. CASE Device!NewRef(h)
  BY <1>1, <1>2, <1>3, <1>4, <1>6 DEF Device!NewRef, Device!At
<1>. QED BY <1>5, <1>6

\* Parts are deleted by their ids.
LEMMA DropsTyped ==
  ASSUME DeviceInv, NEW S \in SUBSET Pieces, Device!DropRows(S),
         relation' \in [Pieces -> Device!Kinds], slot' \in [Pieces -> Slots \cup {None}],
         \A p \in Pieces : relation'[p] \in {relation[p], "none"},
         UNCHANGED <<device, boxes, refs, compat>>
  PROVE  /\ DeviceTable' /\ rows' \subseteq rows /\ \A p \in rows' : ref'[p] = ref[p]
         /\ \A p \in Pieces : box'[p] \in {box[p], None}
         /\ \A p \in Pieces : relation'[p] = "Zerlegt_aus" => relation[p] = "Zerlegt_aus"
         /\ scanned' \subseteq scanned
<1>1. DeviceTable
  BY DEF DeviceInv
<1>2. /\ rows' \subseteq rows /\ rows \subseteq Pieces /\ scanned' \subseteq scanned
      /\ scanned' \subseteq rows'
  BY <1>1 DEF Device!DropRows, DeviceTable
<1>3. /\ ref' \in [Pieces -> refs \cup {0}] /\ box' \in [Pieces -> boxes \cup {None}]
      /\ \A p \in rows' : ref'[p] = ref[p]
      /\ \A p \in Pieces : box'[p] \in {box[p], None}
  BY <1>1 DEF Device!DropRows, DeviceTable
<1>. QED BY <1>1, <1>2, <1>3 DEF DeviceTable

LEMMA RelationsDropped ==
  ASSUME DeviceInv, NEW S \in SUBSET Pieces, Device!DropRelations(S)
  PROVE  /\ relation' \in [Pieces -> Device!Kinds] /\ slot' \in [Pieces -> Slots \cup {None}]
         /\ \A p \in Pieces : relation'[p] \in {relation[p], "none"}
BY DEF DeviceInv, DeviceTable, Device!DropRelations, Device!Kinds

\* ... a request that was not overtaken deletes none that is in a box.
LEMMA DeviceDeletes ==
  ASSUME DeviceInv, NEW h \in Handlers, request[h].pc # "mark", NEW S \in SUBSET Pieces,
         Device!DropRows(S), Device!DropRelations(Device!ZerlegtAus(S)),
         lost' = lost \cup Device!Mislaid(S, h), Device!Answer(h, TRUE),
         ~request[h].overtaken => \A p \in S : box[p] = None,
         UNCHANGED <<device, boxes, refs, compat, repeated, budget, incomplete, excused>>
  PROVE  DeviceInv'
<1>1. Device!ZerlegtAus(S) \in SUBSET Pieces
  BY DEF Device!ZerlegtAus
<1>2. /\ relation' \in [Pieces -> Device!Kinds] /\ slot' \in [Pieces -> Slots \cup {None}]
      /\ \A p \in Pieces : relation'[p] \in {relation[p], "none"}
  BY <1>1, RelationsDropped
<1>3. /\ DeviceTable' /\ rows' \subseteq rows /\ \A p \in rows' : ref'[p] = ref[p]
      /\ \A p \in Pieces : box'[p] \in {box[p], None}
      /\ \A p \in Pieces : relation'[p] = "Zerlegt_aus" => relation[p] = "Zerlegt_aus"
      /\ scanned' \subseteq scanned
  BY <1>2, DropsTyped
<1>4. /\ request[h].overtaken \in BOOLEAN /\ DeviceHistory
  BY DEF DeviceInv, DeviceRequests
<1>5. \A l \in Device!Mislaid(S, h) : l \in [part : Pieces, raced : BOOLEAN] /\ l.raced
  BY <1>4 DEF Device!Mislaid
<1>6. DeviceHistory' /\ \A l \in lost' : l \in lost \/ l.raced
  BY <1>4, <1>5 DEF DeviceHistory
<1>. QED BY <1>3, <1>6, DeviceLoses

LEMMA DeviceUnlinks ==
  ASSUME DeviceInv, NEW h \in Handlers, Device!UnlinkPart(h) \/ Device!DeleteUnextracted(h)
  PROVE  DeviceInv'
<1>0. request[h] \in DeviceRequests /\ Sound(request[h])
  BY DEF DeviceInv
<1>1. CASE Device!UnlinkPart(h)
  <2>. DEFINE S == IF Device!Current(request[h].id) THEN {request[h].id.part} ELSE {}
  <2>1. /\ request[h].op = "unlinkPart" /\ request[h].pc = "write" /\ Device!DropRows(S)
        /\ Device!DropRelations(Device!ZerlegtAus(S)) /\ lost' = lost \cup Device!Mislaid(S, h)
        /\ Device!Answer(h, TRUE)
        /\ UNCHANGED <<device, boxes, refs, compat, repeated, budget, incomplete, excused>>
    BY <1>1 DEF Device!UnlinkPart, Device!At, Device!NoMarks
  <2>2. S \in SUBSET Pieces
    BY <1>0, <2>1 DEF Sound, Named, Device!Id
  <2>3. ~request[h].overtaken => \A p \in S : box[p] = None
    BY <1>0, <2>1 DEF Sound, Doomed
  <2>. HIDE DEF S
  <2>. QED BY <2>1, <2>2, <2>3, DeviceDeletes
<1>2. CASE Device!DeleteUnextracted(h)
  <2>. DEFINE S == {id.part : id \in {d \in request[h].todo : Device!Current(d)}}
  <2>1. /\ request[h].pc = "delete" /\ Device!DropRows(S)
        /\ Device!DropRelations(Device!ZerlegtAus(S)) /\ lost' = lost \cup Device!Mislaid(S, h)
        /\ Device!Answer(h, TRUE)
        /\ UNCHANGED <<device, boxes, refs, compat, repeated, budget, incomplete, excused>>
    BY <1>2 DEF Device!DeleteUnextracted, Device!At, Device!NoMarks
  <2>2. request[h].todo \subseteq Device!Id
    BY <1>0 DEF DeviceRequests
  <2>3. S \in SUBSET Pieces
    BY <2>2 DEF Device!Id
  <2>4. ~request[h].overtaken => \A p \in S : box[p] = None
    BY <1>0 DEF Sound, Doomed
  <2>. HIDE DEF S
  <2>. QED BY <2>1, <2>3, <2>4, DeviceDeletes
<1>. QED BY <1>1, <1>2

\* The parts inside are listed: none of them is in a box.
LEMMA DeviceLists ==
  ASSUME DeviceInv, NEW h \in Handlers, Device!ListUnextracted(h) PROVE DeviceInv'
<1>. DEFINE S == {Device!IdOf(p) : p \in {q \in rows : Device!InDevice(q)}}
            r == [request[h] EXCEPT !.pc = "delete", !.todo = S]
<1>1. /\ request[h] \in DeviceRequests /\ Sound(request[h]) /\ rows \subseteq Pieces
      /\ request \in [Handlers -> DeviceRequests] /\ DeviceTable /\ budget \in 0..MaxIssued
  BY DEF DeviceInv, DeviceTable, DeviceHistory
<1>2. /\ request[h].op = "removeDevice" /\ request[h].pc = "list"
      /\ request' = [request EXCEPT ![h] = r]
      /\ UNCHANGED <<device, rows, ref, box, relation, slot, scanned, boxes, refs, compat,
                     incomplete, excused, lost, repeated, budget>>
  BY <1>1 DEF Device!ListUnextracted, Device!At, Device!Reads, Device!table
<1>3. S \subseteq Device!Id /\ \A id \in S : box[id.part] = None
  BY <1>1, NamesPart DEF Device!InDevice
<1>. HIDE DEF S
<1>4. "delete" \in Device!Steps
  BY DEF Device!Steps
<1>5. r \in DeviceRequests /\ r.op = "removeDevice" /\ r.pc = "delete" /\ r.todo = S
  BY <1>1, <1>2, <1>3, <1>4 DEF DeviceRequests
<1>. HIDE DEF r
<1>6. Sound(r)
  BY <1>3, <1>5 DEF Sound, Named, Doomed, First, Silent
<1>7. DeviceTable'
  BY <1>1, <1>2 DEF DeviceTable
<1>. QED BY <1>1, <1>2, <1>5, <1>6, <1>7, DeviceQuiet

LEMMA DeviceResolves ==
  ASSUME DeviceInv, NEW h \in Handlers, Device!resolveGraduationRef(h) PROVE DeviceInv'
<1>1. /\ request[h] \in DeviceRequests /\ Sound(request[h])
      /\ request \in [Handlers -> DeviceRequests] /\ DeviceTable /\ budget \in 0..MaxIssued
      /\ refs \subseteq Device!Refs /\ Device!Refs \subseteq 0..MaxRef
  BY DeviceAssumption DEF DeviceInv, DeviceTable, DeviceHistory, Device!Refs
<1>2. PICK n, pc : /\ \/ n \in refs /\ pc = "graduate"
                      \/ n \in Device!Refs /\ pc = "mint"
                   /\ request' = [request EXCEPT ![h].ref = n, ![h].pc = pc]
  BY <1>1, NextIsRef DEF Device!resolveGraduationRef
<1>3. /\ request[h].op = "take" /\ request[h].pc = "resolve"
      /\ UNCHANGED <<device, rows, ref, box, relation, slot, scanned, boxes, refs, compat,
                     incomplete, excused, lost, repeated, budget>>
  BY DEF Device!resolveGraduationRef, Device!At, Device!Reads, Device!table
<1>. DEFINE r == [request[h] EXCEPT !.ref = n, !.pc = pc]
<1>4. pc \in Device!Steps /\ n \in 0..MaxRef
  BY <1>1, <1>2 DEF Device!Steps
<1>5. /\ r \in DeviceRequests /\ r.op = "take" /\ r.pc = pc /\ r.ref = n
      /\ r.id = request[h].id /\ r.box = request[h].box /\ r.todo = request[h].todo
      /\ r.overtaken = request[h].overtaken
  BY <1>1, <1>3, <1>4 DEF DeviceRequests
<1>6. request' = [request EXCEPT ![h] = r]
  BY <1>1, <1>2
<1>. HIDE DEF r
<1>7. Sound(r)
  BY <1>1, <1>2, <1>3, <1>5 DEF Sound, Named, Doomed, First, Silent
<1>8. DeviceTable'
  BY <1>1, <1>3 DEF DeviceTable
<1>. QED BY <1>1, <1>3, <1>5, <1>6, <1>7, <1>8, DeviceQuiet

LEMMA DeviceMints ==
  ASSUME DeviceInv, NEW h \in Handlers, Device!MintRef(h) PROVE DeviceInv'
<1>1. request[h] \in DeviceRequests /\ Sound(request[h]) /\ refs \subseteq Device!Refs
  BY DEF DeviceInv, DeviceTable
<1>2. /\ request[h].op = "take" /\ request[h].pc = "mint"
      /\ UNCHANGED <<device, rows, ref, box, relation, slot, scanned, boxes, compat,
                     incomplete, excused, lost, repeated, budget>>
  BY DEF Device!MintRef, Device!At, Device!NoMarks, Device!NoLoss
<1>3. request[h].ref \in Device!Refs /\ "graduate" \in Device!Steps
  BY <1>1, <1>2 DEF Sound, Named, Device!Steps
<1>4. CASE Device!Answer(h, FALSE) /\ UNCHANGED refs
  BY <1>1, <1>2, <1>4, DeviceAnswers
<1>5. CASE refs' = refs \cup {request[h].ref} /\ Device!Step(h, "graduate")
  BY <1>1, <1>2, <1>3, <1>5, DeviceGoesOn
<1>. QED BY <1>4, <1>5 DEF Device!MintRef

LEMMA OvertakingTyped ==
  ASSUME NEW r \in DeviceRequests, NEW p
  PROVE  Device!Overtaking(r, p) \in DeviceRequests /\ Device!Overtaking(r, p).pc = r.pc
<1>. DEFINE b == r.overtaken \/ r.id.part = p \/ \E id \in r.todo : id.part = p
<1>1. b \in BOOLEAN
  BY DEF DeviceRequests
<1>2. Device!Overtaking(r, p) = [r EXCEPT !.overtaken = b]
  BY DEF Device!Overtaking, DeviceRequests
<1>. HIDE DEF b
<1>3. [r EXCEPT !.overtaken = b] \in DeviceRequests /\ [r EXCEPT !.overtaken = b].pc = r.pc
  BY <1>1 DEF DeviceRequests
<1>. QED BY <1>2, <1>3

\* The request that places a part: it will mark the device, or the device is marked.
LEMMA DevicePlacer ==
  ASSUME DeviceInv, NEW h \in Handlers, request[h].op \in {"take", "move"},
         request[h].pc # "mark", NEW pc \in {"mark", "rest"},
         pc = "rest" => request[h].op = "move" /\ ~request[h].mark,
         pc = "rest" => Device!Current(request[h].id),
         NEW p \in Pieces, p = request[h].id.part, p \in rows,
         Device!PlacePart(p, request[h].box), Device!AnswerPlaced(h, pc, p),
         ref' \in [Pieces -> refs \cup {0}], \A q \in Pieces \ {p} : ref'[q] = ref[q],
         compat' \in [Device!Refs -> {"none", "Zubehoer", "Ersatzteil"}],
         UNCHANGED <<device, rows, relation, slot, scanned, boxes, refs, incomplete, excused,
                     lost, repeated, budget>>
  PROVE  DeviceInv'
<1>0. /\ request[h] \in DeviceRequests /\ request \in [Handlers -> DeviceRequests]
      /\ DeviceTable /\ DeviceHistory /\ \A g \in Handlers : Sound(request[g])
  BY DEF DeviceInv
<1>1. request[h].box \in boxes
  BY <1>0 DEF Sound, Named
<1>2. DeviceTable' /\ DeviceHistory'
  <2>1. box' \in [Pieces -> boxes \cup {None}]
    BY <1>0, <1>1 DEF DeviceTable, Device!PlacePart
  <2>. QED BY <1>0, <2>1 DEF DeviceTable, DeviceHistory
<1>3. request' = [g \in Handlers |-> IF g # h THEN Device!Overtaking(request[g], p)
                                     ELSE IF pc = "rest" THEN Device!Idle(TRUE)
                                     ELSE [request[h] EXCEPT !.pc = pc]]
  BY DEF Device!AnswerPlaced
<1>4. \A g \in Handlers : /\ Device!Overtaking(request[g], p) \in DeviceRequests
                         /\ Device!Overtaking(request[g], p).pc = request[g].pc
  BY <1>0, OvertakingTyped
<1>. DEFINE r == [request[h] EXCEPT !.pc = "mark"]
<1>5. "mark" \in Device!Steps
  BY DEF Device!Steps
<1>6. /\ r \in DeviceRequests /\ r.pc = "mark" /\ r.op = request[h].op /\ r.id = request[h].id
      /\ r.box = request[h].box /\ r.todo = request[h].todo /\ r.mark = request[h].mark
  BY <1>0, <1>5 DEF DeviceRequests
<1>7. request'[h] = IF pc = "rest" THEN Device!Idle(TRUE) ELSE r
  BY <1>3
<1>. HIDE DEF r
<1>8. request' \in [Handlers -> DeviceRequests]
  <2>1. \A g \in Handlers : request'[g] \in DeviceRequests
    BY <1>3, <1>4, <1>6, <1>7, IdleRequest
  <2>. QED BY <1>3, <2>1
<1>9. Donor => Donor'
  <2>1. \A g \in Handlers \ {h} : request'[g].pc = request[g].pc
    BY <1>3, <1>4
  <2>. QED BY <2>1 DEF Donor
<1>10. relation[p] = "Zerlegt_aus" => Donor'
  <2>1. CASE pc = "mark"
    BY <1>6, <1>7, <2>1 DEF Donor
  <2>2. CASE pc = "rest"
    BY <1>0, <1>9, <2>2 DEF Sound, Silent, InRow
  <2>. QED BY <2>1, <2>2
<1>11. Sound(request[h])'
  <2>1. CASE pc = "rest"
    <3>1. Sound(Device!Idle(TRUE))' /\ request'[h] = Device!Idle(TRUE)
      BY <1>7, <2>1, IdleRequest
    <3>. QED BY <3>1 DEF Sound, Named, Doomed, First, Silent, InRow, Device!Current, Device!IdOf
  <2>2. CASE pc = "mark"
    <3>1. request'[h] = r
      BY <1>7, <2>2
    <3>2. Named(request[h])'
      BY <1>0, <1>6, <3>1 DEF Sound, Named
    <3>3. Doomed(request[h])' /\ First(request[h])'
      BY <1>0, <1>6, <3>1 DEF Sound, Named, Doomed, First
    <3>4. Silent(request[h])'
      BY <1>6, <3>1 DEF Silent, Donor
    <3>. QED BY <3>2, <3>3, <3>4 DEF Sound
  <2>. QED BY <2>1, <2>2
<1>12. \A g \in Handlers :
         Sound(request[g])' \/ request'[g] = Device!Overtaking(request[g], p)
  BY <1>3, <1>11
<1>. QED BY <1>1, <1>2, <1>8, <1>9, <1>10, <1>12, DevicePlaces

LEMMA DeviceTakesOut ==
  ASSUME DeviceInv, NEW h \in Handlers,
         Device!graduateComponentInTx(h) \/ Device!Relocate(h) \/ Device!Move(h)
  PROVE  DeviceInv'
<1>. DEFINE p == request[h].id.part
<1>0. /\ request[h] \in DeviceRequests /\ Sound(request[h]) /\ DeviceTable
      /\ refs \subseteq Device!Refs
      /\ ref \in [Pieces -> refs \cup {0}]
      /\ compat \in [Device!Refs -> {"none", "Zubehoer", "Ersatzteil"}]
      /\ "mark" \in Device!Steps
  BY DEF DeviceInv, DeviceTable, Device!Steps
<1>1. /\ request[h].op \in {"take", "move"} /\ request[h].pc \in {"write", "graduate"}
      /\ UNCHANGED <<device, rows, relation, slot, scanned, boxes, refs, incomplete, excused,
                     lost, repeated, budget>>
  BY DEF Device!graduateComponentInTx, Device!Relocate, Device!Move, Device!At, Device!NoMarks,
         Device!NoLoss
<1>2. p \in Pieces
  BY <1>0, <1>1 DEF Sound, Named, Device!Id
<1>3. Device!Current(request[h].id) => p \in rows
  BY DEF Device!Current
<1>4. CASE Device!graduateComponentInTx(h)
  <2>1. request[h].op = "take" /\ request[h].ref \in refs
    BY <1>0, <1>4 DEF Sound, Named, Device!graduateComponentInTx, Device!At
  <2>2. CASE Device!Answer(h, FALSE) /\ UNCHANGED <<ref, box, compat>>
    BY <1>0, <1>1, <2>2, DeviceAnswers
  <2>3. CASE /\ Device!Current(request[h].id) /\ ref' = [ref EXCEPT ![p] = request[h].ref]
             /\ Device!PlacePart(p, request[h].box) /\ Device!AnswerPlaced(h, "mark", p)
             /\ Device!Provenance(request[h].ref) \/ UNCHANGED compat
    <3>1. ref' \in [Pieces -> refs \cup {0}] /\ \A q \in Pieces \ {p} : ref'[q] = ref[q]
      BY <1>0, <2>1, <2>3
    <3>2. compat' \in [Device!Refs -> {"none", "Zubehoer", "Ersatzteil"}]
      BY <1>0, <2>1, <2>3, ProvenanceTyped
    <3>. HIDE DEF p
    <3>. QED BY <1>1, <1>2, <1>3, <2>3, <3>1, <3>2, DevicePlacer DEF p
  <2>. QED BY <1>4, <2>2, <2>3 DEF Device!graduateComponentInTx
<1>5. CASE Device!Relocate(h)
  <2>0. request[h].op = "take" /\ request[h].pc = "write" /\ UNCHANGED <<ref, compat>>
    BY <1>5 DEF Device!Relocate, Device!At
  <2>1. CASE Device!Step(h, "mark") /\ UNCHANGED box
    BY <1>0, <1>1, <2>0, <2>1, DeviceGoesOn
  <2>2. CASE Device!Current(request[h].id) /\ Device!PlacePart(p, request[h].box)
             /\ Device!AnswerPlaced(h, "mark", p)
    BY <1>0, <1>1, <1>2, <1>3, <2>0, <2>2, DevicePlacer
  <2>. QED BY <1>5, <2>1, <2>2 DEF Device!Relocate
<1>6. CASE Device!Move(h)
  <2>0. request[h].op = "move" /\ request[h].pc = "write" /\ UNCHANGED <<ref, compat>>
    BY <1>6 DEF Device!Move, Device!At
  <2>1. CASE Device!Answer(h, TRUE) /\ UNCHANGED box
    BY <1>0, <1>1, <2>0, <2>1, DeviceAnswers
  <2>2. CASE Device!Step(h, "mark") /\ UNCHANGED box
    BY <1>0, <1>1, <2>0, <2>2, DeviceGoesOn
  <2>. DEFINE next == IF request[h].mark THEN "mark" ELSE "rest"
  <2>3. CASE Device!Current(request[h].id) /\ Device!PlacePart(p, request[h].box)
             /\ Device!AnswerPlaced(h, next, p)
    <3>1. next \in {"mark", "rest"} /\ (next = "rest" => ~request[h].mark)
      OBVIOUS
    <3>. HIDE DEF next
    <3>. QED BY <1>0, <1>1, <1>2, <1>3, <2>0, <2>3, <3>1, DevicePlacer
  <2>4. next \in {"mark", "rest"}
    OBVIOUS
  <2>. QED BY <1>6, <2>1, <2>2, <2>3, <2>4 DEF Device!Move
<1>. QED BY <1>4, <1>5, <1>6

LEMMA DeviceMarks ==
  ASSUME DeviceInv, NEW h \in Handlers, Device!MarkParent(h) PROVE DeviceInv'
<1>0. /\ request \in [Handlers -> DeviceRequests] /\ DeviceTable /\ DeviceHistory
  BY DEF DeviceInv
<1>1. /\ request' = [request EXCEPT ![h] = Device!Idle(TRUE)] /\ Donor'
      /\ incomplete' \in BOOLEAN /\ excused' \in BOOLEAN
      /\ UNCHANGED <<device, rows, ref, box, relation, slot, scanned, boxes, refs, compat,
                     lost, repeated, budget>>
  BY <1>0 DEF Device!MarkParent, Device!Answer, Device!NoLoss, Device!table, Donor, DeviceHistory
<1>2. /\ request' \in [Handlers -> DeviceRequests] /\ request'[h] = Device!Idle(TRUE)
      /\ \A g \in Handlers \ {h} : request'[g] = request[g]
  BY <1>0, <1>1, IdleRequest
<1>3. Sound(request[h])'
  <2>1. Sound(Device!Idle(TRUE))'
    BY IdleRequest
  <2>. QED BY <1>2, <2>1 DEF Sound, Named, Doomed, First, Silent, InRow, Device!Current, Device!IdOf
<1>4. \A g \in Handlers \ {h} : Kept(g)
  BY <1>1, <1>2 DEF Kept
<1>5. DeviceTable' /\ DeviceHistory'
  BY <1>0, <1>1 DEF DeviceTable, DeviceHistory
<1>. QED BY <1>1, <1>2, <1>3, <1>4, <1>5, DeviceKeeps

LEMMA DeviceLinks ==
  ASSUME DeviceInv, NEW h \in Handlers, Device!Link(h) PROVE DeviceInv'
<1>0. /\ DeviceTable /\ DeviceHistory /\ request[h] \in DeviceRequests /\ Sound(request[h])
      /\ relation \in [Pieces -> Device!Kinds]
  BY DEF DeviceInv, DeviceTable
<1>1. /\ request[h].op = "link" /\ request[h].pc = "write"
      /\ UNCHANGED <<device, rows, ref, box, slot, scanned, boxes, refs, compat, budget,
                     incomplete, excused, lost, repeated>>
      /\ \E ok \in BOOLEAN : Device!Answer(h, ok)
      /\ relation' \in {relation, [relation EXCEPT ![request[h].id.part] = "Zubehoer"]}
  BY DEF Device!Link, Device!At, Device!NoMarks, Device!NoLoss
<1>2. relation' \in [Pieces -> Device!Kinds]
      /\ \A p \in Pieces : relation'[p] = "Zerlegt_aus" => relation[p] = "Zerlegt_aus"
  BY <1>0, <1>1 DEF Device!Kinds
<1>3. DeviceTable' /\ DeviceHistory' /\ rows \subseteq Pieces
  BY <1>0, <1>1, <1>2 DEF DeviceTable, DeviceHistory
<1>. QED BY <1>1, <1>2, <1>3, DeviceLoses

\* A scan stores its component where it found none, or is overtaken by one that did.
LEMMA DeviceScans ==
  ASSUME DeviceInv, NEW h \in Handlers, Device!LookSerial(h) \/ Device!InsertComponent(h)
  PROVE  DeviceInv'
<1>0. /\ DeviceTable /\ DeviceHistory /\ request[h] \in DeviceRequests /\ Sound(request[h])
      /\ request \in [Handlers -> DeviceRequests] /\ scanned \subseteq rows
      /\ refs \subseteq Device!Refs /\ budget \in 0..MaxIssued /\ repeated \subseteq BOOLEAN
      /\ FALSE \notin repeated
  BY DEF DeviceInv, DeviceTable, DeviceHistory, Device!SerialTwiceOnlyByRace
<1>1. CASE Device!LookSerial(h)
  <2>0. /\ request[h].op = "intake" /\ request[h].pc = "look"
        /\ UNCHANGED <<device, rows, ref, box, relation, slot, scanned, boxes, refs, compat,
                       incomplete, excused, lost, repeated, budget>>
    BY <1>1 DEF Device!LookSerial, Device!At, Device!Reads, Device!table
  <2>1. CASE Device!Answer(h, TRUE)
    BY <1>0, <2>0, <2>1, DeviceAnswers
  <2>2. CASE rows \cap scanned = {} /\ Device!Step(h, "insert")
    <3>. DEFINE r == [request[h] EXCEPT !.pc = "insert"]
    <3>0. "insert" \in Device!Steps
      BY DEF Device!Steps
    <3>1. /\ r \in DeviceRequests /\ r.op = "intake" /\ r.pc = "insert"
          /\ r.todo = request[h].todo
      BY <1>0, <2>0, <3>0 DEF DeviceRequests
    <3>2. request' = [request EXCEPT ![h] = r]
      BY <1>0, <2>2 DEF Device!Step
    <3>. HIDE DEF r
    <3>3. scanned = {}
      BY <1>0, <2>2
    <3>4. Sound(r)
      BY <1>0, <2>0, <3>1, <3>3 DEF Sound, Named, Doomed, First, Silent
    <3>5. DeviceTable'
      BY <1>0, <2>0 DEF DeviceTable
    <3>. QED BY <1>0, <2>0, <3>1, <3>2, <3>4, <3>5, DeviceQuiet
  <2>. QED BY <1>1, <2>1, <2>2 DEF Device!LookSerial
<1>2. CASE Device!InsertComponent(h)
  <2>0. /\ request[h].op = "intake" /\ request[h].pc = "insert"
        /\ UNCHANGED <<device, boxes, refs, compat, incomplete, lost, budget>>
    BY <1>2 DEF Device!InsertComponent, Device!At
  <2>1. CASE Device!Answer(h, TRUE)
             /\ UNCHANGED <<rows, ref, box, relation, slot, scanned, repeated, excused>>
    BY <1>0, <2>0, <2>1, DeviceAnswers
  <2>2. ASSUME NEW p \in Pieces, Device!KeysFree(p), Device!InsertPart(p, 0, None),
               scanned' = scanned \cup {p},
               repeated' = IF rows \cap scanned # {} THEN repeated \cup {request[h].overtaken}
                           ELSE repeated,
               request' = [g \in Handlers |->
                             IF g = h THEN Device!Idle(TRUE)
                             ELSE [request[g] EXCEPT !.overtaken = @ \/ request[g].op = "intake"]]
        PROVE  DeviceInv'
    <3>1. request[h].overtaken \in BOOLEAN /\ (rows \cap scanned # {} => request[h].overtaken)
      BY <1>0, <2>0 DEF Sound, First, DeviceRequests
    <3>2. repeated' \subseteq BOOLEAN /\ FALSE \notin repeated'
      BY <1>0, <2>2, <3>1
    <3>3. ASSUME NEW g \in Handlers \ {h}
          PROVE  /\ request'[g] \in DeviceRequests
                 /\ request'[g] = request[g] \/ request'[g] = [request[g] EXCEPT !.overtaken = TRUE]
                 /\ request[g].op = "intake" => request'[g].overtaken
      <4>0. request[g] \in DeviceRequests
            /\ request'[g] = [request[g] EXCEPT !.overtaken = @ \/ request[g].op = "intake"]
        BY <1>0, <2>2
      <4>1. CASE request[g].overtaken \/ request[g].op = "intake"
        <5>1. request'[g] = [request[g] EXCEPT !.overtaken = TRUE]
          BY <4>0, <4>1 DEF DeviceRequests
        <5>. QED BY <4>0, <5>1 DEF DeviceRequests
      <4>2. CASE ~(request[g].overtaken \/ request[g].op = "intake")
        <5>1. request[g].overtaken = FALSE
          BY <4>0, <4>2 DEF DeviceRequests
        <5>2. request'[g] = request[g]
          BY <4>0, <4>2, <5>1 DEF DeviceRequests
        <5>. QED BY <4>0, <4>2, <5>2
      <4>. QED BY <4>1, <4>2
    <3>4. request' \in [Handlers -> DeviceRequests] /\ request'[h] = Device!Idle(TRUE)
      <4>1. \A g \in Handlers : request'[g] \in DeviceRequests
        BY <2>2, <3>3, IdleRequest
      <4>. QED BY <2>2, <4>1
    <3>5. compat' \in [Device!Refs -> {"none", "Zubehoer", "Ersatzteil"}]
      BY <1>0, <2>0 DEF DeviceTable
    <3>. QED BY <1>0, <2>0, <2>2, <3>2, <3>3, <3>4, <3>5, DeviceInserts
  <2>. QED BY <1>2, <2>1, <2>2 DEF Device!InsertComponent
<1>. QED BY <1>1, <1>2

LEMMA DeviceElsewhere == DeviceInv /\ Device!Elsewhere => DeviceInv'
<1>. SUFFICES ASSUME DeviceInv, Device!Elsewhere PROVE DeviceInv'
  OBVIOUS
<1>0. /\ DeviceTable /\ DeviceHistory /\ request \in [Handlers -> DeviceRequests]
      /\ \A g \in Handlers : Sound(request[g])
      /\ rows \subseteq Pieces /\ refs \subseteq Device!Refs /\ boxes \subseteq DeviceBoxes
      /\ box \in [Pieces -> boxes \cup {None}] /\ budget \in 0..MaxIssued
      /\ relation \in [Pieces -> Device!Kinds] /\ slot \in [Pieces -> Slots \cup {None}]
      /\ compat \in [Device!Refs -> {"none", "Zubehoer", "Ersatzteil"}]
  BY DEF DeviceInv, DeviceTable, DeviceHistory
<1>. USE DEF Device!NoMarks, Device!NoLoss
<1>1. budget' = budget - 1 /\ budget > 0 => budget' \in 0..MaxIssued
  BY <1>0, DeviceAssumption
<1>2. ASSUME NEW p \in Pieces, Device!Unlink(p) PROVE DeviceInv'
  <2>1. /\ relation' \in [Pieces -> Device!Kinds] /\ slot' \in [Pieces -> Slots \cup {None}]
        /\ \A q \in Pieces : relation'[q] \in {relation[q], "none"}
    BY <1>2, RelationsDropped DEF Device!Unlink
  <2>2. DeviceTable' /\ DeviceHistory'
    BY <1>0, <1>1, <1>2, <2>1 DEF DeviceTable, DeviceHistory, Device!Unlink
  <2>. QED BY <1>2, <2>1, <2>2, DeviceLoses DEF Device!Unlink
<1>3. ASSUME NEW p \in Pieces, Device!Unplace(p) PROVE DeviceInv'
  <2>1. /\ box' \in [Pieces -> boxes \cup {None}]
        /\ \A q \in Pieces : box'[q] \in {box[q], None}
    BY <1>0, <1>3 DEF Device!Unplace
  <2>2. DeviceTable' /\ DeviceHistory'
    BY <1>0, <1>1, <1>3, <2>1 DEF DeviceTable, DeviceHistory, Device!Unplace
  <2>. QED BY <1>3, <2>1, <2>2, DeviceLoses DEF Device!Unplace
<1>4. ASSUME NEW p \in Pieces, Device!PlaceInBulk(p) PROVE DeviceInv'
  <2>1. PICK b \in boxes : Device!PlacePart(p, b)
    BY <1>4 DEF Device!PlaceInBulk
  <2>2. /\ request' = [g \in Handlers |-> Device!Overtaking(request[g], p)]
        /\ Donor' /\ excused' = TRUE
        /\ UNCHANGED <<device, rows, ref, relation, slot, scanned, boxes, refs, compat, incomplete,
                       lost, repeated>>
    BY <1>4 DEF Device!PlaceInBulk, Donor
  <2>3. request' \in [Handlers -> DeviceRequests]
    BY <1>0, <2>2, OvertakingTyped
  <2>4. box' \in [Pieces -> boxes \cup {None}]
    BY <1>0, <2>1 DEF Device!PlacePart
  <2>5. DeviceTable' /\ DeviceHistory'
    BY <1>0, <1>1, <1>4, <2>2, <2>4 DEF DeviceTable, DeviceHistory, Device!PlaceInBulk
  <2>6. \A g \in Handlers : request'[g] = Device!Overtaking(request[g], p)
    BY <2>2
  <2>. QED BY <2>1, <2>2, <2>3, <2>5, <2>6, DevicePlaces
<1>5. ASSUME NEW p \in Pieces, Device!DeleteItem(p) PROVE DeviceInv'
  <2>1. {p} \in SUBSET Pieces /\ UNCHANGED <<device, relation, slot, boxes, refs, compat>>
        /\ Device!DropRows({p})
    BY <1>5 DEF Device!DeleteItem
  <2>2. /\ DeviceTable' /\ rows' \subseteq rows /\ \A q \in rows' : ref'[q] = ref[q]
        /\ \A q \in Pieces : box'[q] \in {box[q], None}
        /\ \A q \in Pieces : relation'[q] = "Zerlegt_aus" => relation[q] = "Zerlegt_aus"
        /\ scanned' \subseteq scanned
    BY <1>0, <2>1, DropsTyped
  <2>3. DeviceHistory'
    BY <1>0, <1>1, <1>5 DEF DeviceHistory, Device!DeleteItem
  <2>. QED BY <1>5, <2>1, <2>2, <2>3, DeviceLoses DEF Device!DeleteItem
<1>6. ASSUME NEW n \in Device!Refs, Device!LinkRef(n) \/ Device!UnlinkRef(n) PROVE DeviceInv'
  <2>1. /\ UNCHANGED <<device, rows, ref, box, relation, slot, scanned, boxes, refs, request,
                       incomplete, excused, lost, repeated>>
        /\ compat' \in [Device!Refs -> {"none", "Zubehoer", "Ersatzteil"}]
        /\ budget' \in 0..MaxIssued
    BY <1>0, <1>1, <1>6 DEF Device!LinkRef, Device!UnlinkRef
  <2>2. DeviceTable' /\ DeviceHistory'
    BY <1>0, <2>1 DEF DeviceTable, DeviceHistory
  <2>. QED BY <1>0, <2>1, <2>2, DeviceLoses
<1>7. ASSUME NEW b \in DeviceBoxes, Device!CreateBox(b) PROVE DeviceInv'
  <2>1. /\ UNCHANGED <<device, rows, ref, box, relation, slot, scanned, refs, compat, request,
                       incomplete, excused, lost, repeated>>
        /\ boxes \subseteq boxes' /\ boxes' \subseteq DeviceBoxes /\ budget' \in 0..MaxIssued
    BY <1>0, <1>1, <1>7 DEF Device!CreateBox
  <2>2. DeviceTable' /\ DeviceHistory'
    BY <1>0, <2>1 DEF DeviceTable, DeviceHistory
  <2>. QED BY <1>0, <2>1, <2>2, DeviceLoses
<1>8. ASSUME NEW value \in BOOLEAN, Device!Review(value) PROVE DeviceInv'
  <2>1. /\ UNCHANGED <<device, rows, ref, box, relation, slot, scanned, boxes, refs, compat,
                       request, lost, repeated>>
        /\ incomplete' \in BOOLEAN /\ excused' = TRUE /\ budget' \in 0..MaxIssued
    BY <1>0, <1>1, <1>8 DEF Device!Review, Device!table
  <2>2. DeviceTable' /\ DeviceHistory'
    BY <1>0, <2>1 DEF DeviceTable, DeviceHistory
  <2>. QED BY <1>0, <2>1, <2>2, DeviceLoses
<1>. QED BY <1>2, <1>3, <1>4, <1>5, <1>6, <1>7, <1>8 DEF Device!Elsewhere

LEMMA DeviceStep == DeviceInv /\ [Device!Next]_assembly => DeviceInv'
<1>. SUFFICES ASSUME DeviceInv, [Device!Next]_assembly PROVE DeviceInv'
  OBVIOUS
<1>1. ASSUME UNCHANGED assembly PROVE DeviceInv'
  BY <1>1 DEF assembly, DeviceInv, DeviceTable, DeviceHistory, Sound, Named, Doomed, First, Silent,
              InRow, Donor, Device!Current, Device!IdOf, Device!DonorMarked,
              Device!LostOnlyByRace, Device!SerialTwiceOnlyByRace
<1>2. ASSUME NEW h \in Handlers, Device!Serve(h) PROVE DeviceInv'
  BY <1>2, DeviceCatalogs, DeviceUnlinks, DeviceLists, DeviceResolves, DeviceMints,
     DeviceTakesOut, DeviceMarks, DeviceLinks, DeviceScans DEF Device!Serve
<1>. QED BY <1>1, <1>2, DeviceReads, DeviceElsewhere DEF Device!Next

LEMMA DeviceSafe ==
  DeviceInv => /\ Device!TypeOK /\ Device!LostOnlyByRace
               /\ Device!SerialTwiceOnlyByRace /\ Device!DonorMarked
BY DEF DeviceInv, DeviceTable, DeviceHistory, DeviceRequests, Device!TypeOK

-----------------------------------------------------------------------------
(* The warehouse: MCWarehouse *)

\* The flow that runs keeps the invariant of its component.
FlowInv ==
  /\ flow = "article" => Inv
  /\ flow = "ids" => MintInv
  /\ flow = "shop" => ShopInv
  /\ flow = "device" => DeviceInv
  /\ flow = "box" => BoxInv
  /\ flow = "parts" => PartInv
  /\ flow = "answers" => AnswerInv

LEMMA FlowInit == MCInit => FlowInv
BY InitInv, MintInit, ShopInit, DeviceInit, BoxInit, PartInit, AnswerInit DEF MCInit, FlowInv

LEMMA FlowStep == FlowInv /\ [MCNext]_warehouse => FlowInv'
<1>. SUFFICES ASSUME FlowInv, [MCNext]_warehouse PROVE FlowInv'
  OBVIOUS
<1>1. UNCHANGED flow
  BY DEF MCNext, warehouse
<1>2. CASE flow = "article"
  <2>1. [Next]_vars
    BY <1>2 DEF MCNext, warehouse, article, Describe
  <2>. QED BY <1>1, <1>2, <2>1, NextInv DEF FlowInv
<1>3. CASE flow = "ids"
  <2>1. [Minting!Next]_ids
    BY <1>3 DEF MCNext, warehouse
  <2>. QED BY <1>1, <1>3, <2>1, MintNext DEF FlowInv
<1>4. CASE flow = "shop"
  <2>1. [Shop!Next]_shop
    BY <1>4 DEF MCNext, warehouse
  <2>. QED BY <1>1, <1>4, <2>1, ShopStep DEF FlowInv
<1>5. CASE flow = "device"
  <2>1. [Device!Next]_assembly
    BY <1>5 DEF MCNext, warehouse
  <2>. QED BY <1>1, <1>5, <2>1, DeviceStep DEF FlowInv
<1>6. CASE flow = "box"
  <2>1. [BoxPage!Next]_boxPage
    BY <1>6 DEF MCNext, warehouse
  <2>. QED BY <1>1, <1>6, <2>1, BoxStep DEF FlowInv
<1>7. CASE flow = "parts"
  <2>1. [PartPage!Next]_partPage
    BY <1>7 DEF MCNext, warehouse
  <2>. QED BY <1>1, <1>7, <2>1, PartStep DEF FlowInv
<1>8. CASE flow = "answers"
  <2>1. [AnswerPage!Next]_answerPage
    BY <1>8 DEF MCNext, warehouse
  <2>. QED BY <1>1, <1>8, <2>1, AnswerStep DEF FlowInv
<1>. QED BY <1>1, <1>2, <1>3, <1>4, <1>5, <1>6, <1>7, <1>8 DEF FlowInv

LEMMA FlowHolds == MCSpec => []FlowInv
<1>. QED BY FlowInit, FlowStep, PTL DEF MCSpec

-----------------------------------------------------------------------------
(* What the runs of the warehouse check, for any constants *)

\* The variables of each flow keep their types.
THEOREM WarehouseTyped == MCSpec => []TypesOK
<1>1. FlowInv => TypesOK
  BY DeviceSafe, BoxSafe, PartSafe
     DEF FlowInv, TypesOK, Inv, MintInv, ShopInv, AnswerInv
<1>. QED BY <1>1, FlowHolds, PTL

\* The ERP is given a description no human approved by the listed races only.
THEOREM EscapesAreRaces == MCSpec => []EscapedOnlyByRace
<1>1. Inv => OnlyRacesEscape
  BY DEF Inv, Gated, Explained, OnlyRacesEscape
<1>2. FlowInv => EscapedOnlyByRace
  BY <1>1 DEF FlowInv, EscapedOnlyByRace
<1>. QED BY <1>2, FlowHolds, PTL

\* Minting never writes over a box or an item that was there when the request came and
\* still is, whatever the highest id looks like.
THEOREM KnownIdsAreSafe == MCSpec => []KnownIdsSafe
<1>1. FlowInv => KnownIdsSafe
  BY DEF FlowInv, MintInv, KnownIdsSafe
<1>. QED BY <1>1, FlowHolds, PTL

\* A job of the shop is in one hand at a time, and stranded only by a crash.
THEOREM JobsInOneHand == MCSpec => []InOneHand
<1>1. FlowInv => InOneHand
  BY ShopSafe DEF FlowInv, InOneHand
<1>. QED BY <1>1, FlowHolds, PTL

\* A part in a box is deleted with its device, or by unlinking it, only when it was put
\* there after the request had read that it was inside.
THEOREM LossesAreRaces == MCSpec => []LostOnlyByRace
<1>1. FlowInv => LostOnlyByRace
  BY DeviceSafe DEF FlowInv, LostOnlyByRace
<1>. QED BY <1>1, FlowHolds, PTL

\* A scanned component is stored twice only by scans that looked before either stored it.
THEOREM SerialsTwiceAreRaces == MCSpec => []SerialTwiceOnlyByRace
<1>1. FlowInv => SerialTwiceOnlyByRace
  BY DeviceSafe DEF FlowInv, SerialTwiceOnlyByRace
<1>. QED BY <1>1, FlowHolds, PTL

\* A device whose part was taken out is marked as a donor, or will be, or is excused.
THEOREM DonorsAreMarked == MCSpec => []DonorMarked
<1>1. FlowInv => DonorMarked
  BY DeviceSafe DEF FlowInv, DonorMarked
<1>. QED BY <1>1, FlowHolds, PTL

\* Saving the notes of a box puts it back where it was only if the operator could not
\* have known that it had been moved.
THEOREM PlacesUndoneUnseen == MCSpec => []PlaceUndoneOnlyUnseen
<1>1. FlowInv => PlaceUndoneOnlyUnseen
  BY BoxSafe DEF FlowInv, PlaceUndoneOnlyUnseen
<1>. QED BY <1>1, FlowHolds, PTL

\* Once everything it started has ended, the page shows where the box stands and what is
\* in it, unless an answer was lost or others changed it.
THEOREM RestIsTruth == MCSpec => []RestShowsStored
<1>1. FlowInv => RestShowsStored
  BY BoxSafe DEF FlowInv, RestShowsStored
<1>. QED BY <1>1, FlowHolds, PTL

\* A second part is recorded for a slot whose part is still in the device only where the
\* operator could not have known of the first.
THEOREM DoublesUnseen == MCSpec => []DoubledOnlyUnseen
<1>1. FlowInv => DoubledOnlyUnseen
  BY PartSafe DEF FlowInv, DoubledOnlyUnseen
<1>. QED BY <1>1, FlowHolds, PTL

\* The stored answer to a question is the last one the operator gave and the card shows
\* it, unless that answer was lost or refused, crossed with another or with a load, or
\* others answered the question.
THEOREM AnswersStay == MCSpec => []AnswersKept
<1>1. FlowInv => AnswersKept
  BY AnswerSafe DEF FlowInv, AnswersKept
<1>. QED BY <1>1, FlowHolds, PTL

LEMMA FlowJobsStart == MCInit => ShopContract!Init
<1>1. Shop!Init => Shop!job = [j \in Jobs |-> "none"]
  BY DEF Shop!Init, Shop!job, Shop!Ended
<1>2. MCInit /\ flow = "shop" => Shop!Init
  BY DEF MCInit
<1>. HIDE DEF Shop!job
<1>. QED BY <1>1, <1>2 DEF ShopContract!Init

LEMMA FlowJobs == FlowInv /\ [MCNext]_warehouse =>
  [ShopContract!Next]_(IF flow = "shop" THEN Shop!job ELSE [j \in Jobs |-> "none"])
<1>. SUFFICES ASSUME FlowInv, [MCNext]_warehouse
              PROVE  [ShopContract!Next]_(IF flow = "shop" THEN Shop!job
                                          ELSE [j \in Jobs |-> "none"])
  OBVIOUS
<1>1. UNCHANGED flow
  BY DEF MCNext, warehouse
<1>2. CASE flow = "shop"
  <2>1. [Shop!Next]_shop
    BY <1>2 DEF MCNext, warehouse
  <2>2. [Shop!Contract!Next]_(Shop!job)
    BY <1>2, <2>1, ShopJobs DEF FlowInv
  <2>. QED BY <1>1, <1>2, <2>2
       DEF Shop!Contract!Next, Shop!Contract!Change, Shop!Contract!Enqueue, Shop!Contract!End,
           Shop!Contract!Claim, Shop!Contract!GiveBack, ShopContract!Next, ShopContract!Change,
           ShopContract!Enqueue, ShopContract!End, ShopContract!Claim, ShopContract!GiveBack
<1>3. CASE flow # "shop"
  BY <1>1, <1>3
<1>. QED BY <1>2, <1>3

\* The queue of the shop keeps the contract of a queue table: an update that comes late
\* never brings an ended job back.
THEOREM SyncImplementsContract == MCSpec => SyncKeepsContract
<1>. QED BY FlowJobsStart, FlowJobs, FlowHolds, PTL
     DEF MCSpec, SyncKeepsContract, ShopContract!Safe

=============================================================================
