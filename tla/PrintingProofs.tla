------------------------------ MODULE PrintingProofs ------------------------------
(***************************************************************************)
(* What holds of the labels for any number of rows, of runs of the print    *)
(* worker, of attempts and of crashes: what is called printed was printed,  *)
(* no page comes out without a claim or a cut-off call of lp behind it, and *)
(* the label queue keeps the safety part of the contract of a queue table.  *)
(***************************************************************************)
EXTENDS Printing, FiniteSetTheorems, TLAPS

-----------------------------------------------------------------------------
(* The inductive invariant *)

Busy == {"load", "print"}

\* A run of the worker holds a row only between its claim and its outcome, and what is
\* held or written was queued.
Attached ==
  /\ \A w \in Workers : worker[w].at \in Busy <=> worker[w].job # NoJob
  /\ \A w \in Workers : worker[w].at \in Busy => status[worker[w].job] # "none"
  /\ \A u \in writes : status[u.job] # "none"

Holders(j) == {w \in Workers : worker[w].job = j}

\* A page that no attempt without an answer explains has used up the claim it came from.
PagesAccounted ==
  \A j \in Jobs : /\ IsFiniteSet(Holders(j))
                  /\ pages[j] + Cardinality(Holders(j)) <= claims[j] + doubts[j]

\* The request is out of "print" with its one page.
DirectAccounted ==
  /\ direct.at = "none" => pages[Direct] = 0
  /\ direct.at \in {"none", "print", "failed"} => pages[Direct] <= doubts[Direct]
  /\ pages[Direct] <= 1 + doubts[Direct]

Inv == TypeOK /\ Attached /\ DonePrinted /\ PagesAccounted /\ DirectAccounted

LEMMA Constants ==
  /\ MaxAttempts \in Nat /\ MaxAttempts >= 1
  /\ Jobs \subseteq Nat /\ Direct \notin Jobs /\ NoJob \notin Jobs
BY CountAssumption, BoundsAssumption, NoJobAssumption DEF Jobs, Direct

LEMMA InitInv == Init => Inv
<1>. SUFFICES ASSUME Init PROVE Inv
  OBVIOUS
<1>. USE Constants DEF Init, Idle
<1>1. TypeOK
  BY DEF TypeOK, Ended
<1>2. Attached /\ DonePrinted
  BY DEF Attached, DonePrinted, Busy
<1>3. PagesAccounted
  <2>. SUFFICES ASSUME NEW j \in Jobs
                PROVE  /\ IsFiniteSet(Holders(j))
                       /\ pages[j] + Cardinality(Holders(j)) <= claims[j] + doubts[j]
    BY DEF PagesAccounted
  <2>1. Holders(j) = {}
    BY DEF Holders
  <2>. QED BY <2>1, FS_EmptySet
<1>4. DirectAccounted
  BY DEF DirectAccounted
<1>. QED BY <1>1, <1>2, <1>3, <1>4 DEF Inv

-----------------------------------------------------------------------------
(* Who holds a row *)

\* A run that takes a row is one more that holds it.
LEMMA HolderJoins ==
  ASSUME Inv, NEW w \in Workers, NEW j \in Jobs, worker[w].job = NoJob,
         worker'[w].job = j, \A v \in Workers \ {w} : worker'[v] = worker[v]
  PROVE  \A k \in Jobs : /\ IsFiniteSet(Holders(k))'
                         /\ Cardinality(Holders(k))'
                              = Cardinality(Holders(k)) + (IF k = j THEN 1 ELSE 0)
                         /\ Cardinality(Holders(k)) \in Nat
<1>. SUFFICES ASSUME NEW k \in Jobs
              PROVE  /\ IsFiniteSet(Holders(k))'
                     /\ Cardinality(Holders(k))'
                          = Cardinality(Holders(k)) + (IF k = j THEN 1 ELSE 0)
                     /\ Cardinality(Holders(k)) \in Nat
  OBVIOUS
<1>1. IsFiniteSet(Holders(k)) /\ Cardinality(Holders(k)) \in Nat
  BY FS_CardinalityType DEF Inv, PagesAccounted
<1>2. w \notin Holders(k)
  BY Constants DEF Holders
<1>3. Holders(k)' = IF k = j THEN Holders(k) \cup {w} ELSE Holders(k)
  BY <1>2 DEF Holders
<1>. QED BY <1>1, <1>2, <1>3, FS_AddElement

\* A run that lets its row go is one less, and no other run is affected.
LEMMA HolderLeaves ==
  ASSUME Inv, NEW w \in Workers, NEW j \in Jobs, worker[w].job = j,
         worker'[w].job = NoJob, \A v \in Workers \ {w} : worker'[v] = worker[v]
  PROVE  \A k \in Jobs : /\ IsFiniteSet(Holders(k))'
                         /\ Cardinality(Holders(k))
                              = Cardinality(Holders(k))' + (IF k = j THEN 1 ELSE 0)
                         /\ Cardinality(Holders(k))' \in Nat
<1>. SUFFICES ASSUME NEW k \in Jobs
              PROVE  /\ IsFiniteSet(Holders(k))'
                     /\ Cardinality(Holders(k))
                          = Cardinality(Holders(k))' + (IF k = j THEN 1 ELSE 0)
                     /\ Cardinality(Holders(k))' \in Nat
  OBVIOUS
<1>1. IsFiniteSet(Holders(k)) /\ Cardinality(Holders(k)) \in Nat
  BY FS_CardinalityType DEF Inv, PagesAccounted
<1>2. w \in Holders(j)
  BY DEF Holders
<1>3. Holders(k)' = IF k = j THEN Holders(k) \ {w} ELSE Holders(k)
  BY Constants DEF Holders
<1>4. CASE k = j
  <2>1. IsFiniteSet(Holders(k) \ {w}) /\ Cardinality(Holders(k) \ {w}) = Cardinality(Holders(k)) - 1
    BY <1>1, <1>2, <1>4, FS_RemoveElement
  <2>2. Cardinality(Holders(k) \ {w}) \in Nat
    BY <2>1, FS_CardinalityType
  <2>. QED BY <1>1, <1>3, <1>4, <2>1, <2>2
<1>5. CASE k # j
  BY <1>1, <1>3, <1>5
<1>. QED BY <1>4, <1>5

\* A run that goes on with what it holds changes nobody's hold.
LEMMA HoldersStay ==
  ASSUME Inv, \A v \in Workers : worker'[v].job = worker[v].job
  PROVE  \A k \in Jobs : /\ Holders(k)' = Holders(k)
                         /\ IsFiniteSet(Holders(k)) /\ Cardinality(Holders(k)) \in Nat
BY FS_CardinalityType DEF Inv, PagesAccounted, Holders

-----------------------------------------------------------------------------
(* The steps of the queue *)

\* A step that prints nothing, moves no run to another row and drops no row.
LEMMA Quiet ==
  ASSUME Inv, TypeOK', UNCHANGED <<pages, doubts, claims>>,
         \A w \in Workers : worker'[w].job = worker[w].job,
         \A w \in Workers : worker'[w].at \in Busy <=> worker[w].at \in Busy,
         \A j \in Jobs : status'[j] = "none" => status[j] = "none",
         \A j \in Jobs : status'[j] = "Done" =>
           status[j] = "Done" \/ [job |-> j, status |-> "Done"] \in writes,
         writes' \subseteq writes,
         direct' = direct
  PROVE  Inv'
<1>1. Attached'
  <2>1. \A w \in Workers : worker[w].at \in Busy => worker[w].job \in Jobs
    BY DEF Inv, Attached, TypeOK
  <2>2. \A u \in writes : u.job \in Jobs
    BY DEF Inv, TypeOK
  <2>. QED BY <2>1, <2>2 DEF Inv, Attached
<1>2. DonePrinted'
  <2>1. \A j \in Jobs : status'[j] = "Done" => pages'[j] > 0
    <3>. SUFFICES ASSUME NEW j \in Jobs, status'[j] = "Done" PROVE pages[j] > 0
      OBVIOUS
    <3>1. CASE status[j] = "Done"
      BY <3>1 DEF Inv, DonePrinted
    <3>2. CASE [job |-> j, status |-> "Done"] \in writes
      <4>. DEFINE u == [job |-> j, status |-> "Done"]
      <4>1. u \in writes /\ u.job = j /\ u.status = "Done"
        BY <3>2
      <4>. HIDE DEF u
      <4>. QED BY <4>1 DEF Inv, DonePrinted
    <3>. QED BY <3>1, <3>2
  <2>. QED BY <2>1 DEF Inv, DonePrinted
<1>3. PagesAccounted'
  BY HoldersStay DEF Inv, PagesAccounted
<1>4. DirectAccounted'
  BY DEF Inv, DirectAccounted
<1>. QED BY <1>1, <1>2, <1>3, <1>4 DEF Inv

LEMMA QueueInv ==
  ASSUME Inv,
         \/ \E j \in Jobs : QueueLabel(j) \/ ClaimAges(j)
         \/ WriteStep
         \/ \E w \in Workers : RecoverStaleLabelJobs(w)
         \/ \E i \in Items : ItemChanges(i)
  PROVE  Inv'
<1>. USE DEF jobVars
<1>t. /\ status \in [Jobs -> {"none", "Queued", "Processing"} \cup Ended]
      /\ worker \in [Workers -> [at : {"idle", "claim", "load", "print"},
                                 job : Jobs \cup {NoJob}, attempt : 0..MaxAttempts]]
      /\ writes \subseteq [job : Jobs, status : Ended]
  BY DEF Inv, TypeOK
<1>1. ASSUME NEW j \in Jobs, QueueLabel(j) PROVE Inv'
  <2>1. TypeOK'
    BY <1>1 DEF QueueLabel, Inv, TypeOK
  <2>. QED BY <1>1, <1>t, <2>1, Quiet DEF QueueLabel
<1>2. ASSUME NEW j \in Jobs, ClaimAges(j) PROVE Inv'
  <2>1. TypeOK'
    BY <1>2 DEF ClaimAges, Inv, TypeOK
  <2>. QED BY <1>2, <2>1, Quiet DEF ClaimAges
<1>3. ASSUME WriteStep PROVE Inv'
  <2>1. PICK j \in Jobs, s \in Ended : UpdateLabelJobStatus([job |-> j, status |-> s])
    BY <1>3 DEF WriteStep
  <2>2. /\ [job |-> j, status |-> s] \in writes
        /\ writes' = writes \ {[job |-> j, status |-> s]}
        /\ status' = [status EXCEPT ![j] = s]
        /\ UNCHANGED <<item, claim, worker, claims, slow, direct, pages, doubts, faults>>
    BY <2>1 DEF UpdateLabelJobStatus
  <2>3. status' \in [Jobs -> {"none", "Queued", "Processing"} \cup Ended]
        /\ status'[j] = s /\ \A k \in Jobs \ {j} : status'[k] = status[k]
    BY <2>2, <1>t
  <2>4. TypeOK'
    BY <2>2, <2>3 DEF Inv, TypeOK
  <2>5. s # "none"
    BY DEF Ended
  <2>. QED BY <2>2, <2>3, <2>4, <2>5, Quiet
<1>4. ASSUME NEW w \in Workers, RecoverStaleLabelJobs(w) PROVE Inv'
  <2>1. /\ worker[w] = Idle /\ worker' = [worker EXCEPT ![w].at = "claim"]
        /\ status' = [j \in Jobs |-> IF j \in Stale THEN "Queued" ELSE status[j]]
        /\ claim' = [j \in Jobs |-> IF j \in Stale THEN "none" ELSE claim[j]]
        /\ UNCHANGED <<item, writes, claims, slow, direct, pages, doubts, faults>>
    BY <1>4 DEF RecoverStaleLabelJobs
  <2>2. /\ worker' \in [Workers -> [at : {"idle", "claim", "load", "print"},
                                     job : Jobs \cup {NoJob}, attempt : 0..MaxAttempts]]
        /\ worker'[w].at = "claim" /\ worker'[w].job = worker[w].job
        /\ worker[w].at = "idle"
        /\ \A v \in Workers \ {w} : worker'[v] = worker[v]
    BY <2>1, <1>t DEF Idle
  <2>3. TypeOK'
    BY <2>1, <2>2 DEF Inv, TypeOK
  <2>4. \A j \in Jobs : status'[j] \in {"none", "Done"} => status[j] = status'[j]
    BY <2>1
  <2>. QED BY <2>1, <2>2, <2>3, <2>4, Quiet DEF Busy
<1>5. ASSUME NEW i \in Items, ItemChanges(i) PROVE Inv'
  <2>1. TypeOK'
    BY <1>5 DEF ItemChanges, Inv, TypeOK
  <2>. QED BY <1>5, <2>1, Quiet DEF ItemChanges
<1>. QED BY <1>1, <1>2, <1>3, <1>4, <1>5

\* A claim takes a row and pays for one page of it.
LEMMA ClaimInv ==
  ASSUME Inv, NEW w \in Workers, ClaimNextLabelJob(w)
  PROVE  Inv'
<1>t. /\ status \in [Jobs -> {"none", "Queued", "Processing"} \cup Ended]
      /\ claim \in [Jobs -> {"none", "new", "old"}]
      /\ claims \in [Jobs -> Nat] /\ pages \in [Jobs \cup {Direct} -> Nat]
      /\ doubts \in [Jobs \cup {Direct} -> Nat]
      /\ worker \in [Workers -> [at : {"idle", "claim", "load", "print"},
                                 job : Jobs \cup {NoJob}, attempt : 0..MaxAttempts]]
      /\ writes \subseteq [job : Jobs, status : Ended]
  BY DEF Inv, TypeOK
<1>0. /\ worker[w].at = "claim" /\ worker[w].job = NoJob
      /\ UNCHANGED <<item, writes, slow, direct, pages, doubts, faults>>
  BY <1>t DEF ClaimNextLabelJob, Inv, Attached, Busy
<1>1. CASE worker' = [worker EXCEPT ![w] = Idle] /\ UNCHANGED <<status, claim, claims>>
  <2>1. /\ worker' \in [Workers -> [at : {"idle", "claim", "load", "print"},
                                    job : Jobs \cup {NoJob}, attempt : 0..MaxAttempts]]
        /\ worker'[w] = Idle /\ \A v \in Workers \ {w} : worker'[v] = worker[v]
    BY <1>1, <1>t, Constants DEF Idle
  <2>2. TypeOK'
    BY <1>0, <1>1, <2>1 DEF Inv, TypeOK
  <2>. QED BY <1>0, <1>1, <2>1, <2>2, Quiet DEF Busy, Idle
<1>2. ASSUME NEW j \in Jobs, IsNext(j),
             status' = [status EXCEPT ![j] = "Processing"],
             claim' = [claim EXCEPT ![j] = "new"],
             claims' = [claims EXCEPT ![j] = @ + 1],
             worker' = [worker EXCEPT ![w] = [at |-> "load", job |-> j, attempt |-> 0]]
      PROVE  Inv'
  <2>1. /\ worker' \in [Workers -> [at : {"idle", "claim", "load", "print"},
                                    job : Jobs \cup {NoJob}, attempt : 0..MaxAttempts]]
        /\ worker'[w].at = "load" /\ worker'[w].job = j
        /\ \A v \in Workers \ {w} : worker'[v] = worker[v]
    BY <1>2, <1>t, Constants
  <2>2. /\ status' \in [Jobs -> {"none", "Queued", "Processing"} \cup Ended]
        /\ status'[j] = "Processing" /\ \A k \in Jobs \ {j} : status'[k] = status[k]
    BY <1>2, <1>t
  <2>3. /\ claims' \in [Jobs -> Nat] /\ claims'[j] = claims[j] + 1
        /\ \A k \in Jobs \ {j} : claims'[k] = claims[k]
    BY <1>2, <1>t
  <2>4. TypeOK'
    BY <1>0, <1>2, <1>t, <2>1, <2>2, <2>3 DEF Inv, TypeOK
  <2>5. Attached'
    <3>1. \A v \in Workers : worker'[v].at \in Busy => status'[worker'[v].job] # "none"
      <4>1. \A v \in Workers \ {w} : worker[v].at \in Busy =>
              worker[v].job \in Jobs /\ status[worker[v].job] # "none"
        BY <1>t DEF Inv, Attached
      <4>. QED BY <4>1, <2>1, <2>2
    <3>2. \A v \in Workers : worker'[v].at \in Busy <=> worker'[v].job # NoJob
      BY <2>1, Constants DEF Inv, Attached, Busy
    <3>3. \A u \in writes : status'[u.job] # "none"
      BY <2>2, <1>t DEF Inv, Attached
    <3>. QED BY <3>1, <3>2, <3>3, <1>0 DEF Attached
  <2>6. DonePrinted'
    BY <1>0, <2>2 DEF Inv, DonePrinted
  <2>7. PagesAccounted'
    <3>1. \A k \in Jobs :
            /\ IsFiniteSet(Holders(k))'
            /\ Cardinality(Holders(k))'
                 = Cardinality(Holders(k)) + (IF k = j THEN 1 ELSE 0)
            /\ Cardinality(Holders(k)) \in Nat
      BY <1>0, <2>1, HolderJoins
    <3>2. \A k \in Jobs : pages[k] \in Nat /\ doubts[k] \in Nat /\ claims[k] \in Nat
      BY <1>t
    <3>3. \A k \in Jobs : pages[k] + Cardinality(Holders(k)) <= claims[k] + doubts[k]
      BY DEF Inv, PagesAccounted
    <3>4. \A k \in Jobs : pages[k] + Cardinality(Holders(k))' <= claims'[k] + doubts[k]
      BY <3>1, <3>2, <3>3, <2>3
    <3>. QED BY <3>1, <3>4, <1>0 DEF PagesAccounted
  <2>8. DirectAccounted'
    BY <1>0 DEF Inv, DirectAccounted
  <2>. QED BY <2>4, <2>5, <2>6, <2>7, <2>8 DEF Inv
<1>. QED BY <1>1, <1>2 DEF ClaimNextLabelJob

\* A run that ends with its row: a page it sent has used up the claim, and "Done" comes
\* with that page.
LEMMA LetGo ==
  ASSUME Inv, TypeOK', NEW w \in Workers, worker[w].at \in Busy,
         worker'[w] = Idle, \A v \in Workers \ {w} : worker'[v] = worker[v],
         NEW p \in 0..1,
         pages' = [pages EXCEPT ![worker[w].job] = @ + p],
         doubts' \in [Jobs \cup {Direct} -> Nat],
         \A k \in Jobs \cup {Direct} : doubts'[k] >= doubts[k],
         doubts'[Direct] = doubts[Direct],
         \A u \in writes' \ writes : u.job = worker[w].job /\ (u.status = "Done" => p = 1),
         \A k \in Jobs : status'[k] # status[k] => status'[k] = "Error",
         UNCHANGED <<claims, direct>>
  PROVE  Inv'
<1>. DEFINE j == worker[w].job
<1>t. /\ status \in [Jobs -> {"none", "Queued", "Processing"} \cup Ended]
      /\ claims \in [Jobs -> Nat] /\ pages \in [Jobs \cup {Direct} -> Nat]
      /\ doubts \in [Jobs \cup {Direct} -> Nat]
      /\ worker \in [Workers -> [at : {"idle", "claim", "load", "print"},
                                 job : Jobs \cup {NoJob}, attempt : 0..MaxAttempts]]
      /\ writes \subseteq [job : Jobs, status : Ended]
      /\ j \in Jobs /\ status[j] # "none"
  BY DEF Inv, TypeOK, Attached
<1>p. /\ pages'[j] = pages[j] + p /\ pages'[Direct] = pages[Direct]
      /\ \A k \in Jobs \ {j} : pages'[k] = pages[k]
      /\ \A k \in Jobs : pages'[k] \in Nat /\ pages[k] \in Nat /\ pages'[k] >= pages[k]
  <2>. HIDE DEF j
  <2>1. pages' = [pages EXCEPT ![j] = @ + p]
    BY DEF j
  <2>. QED BY <1>t, <2>1, Constants
<1>. HIDE DEF j
<1>1. Attached'
  <2>1. \A k \in Jobs : status[k] # "none" => status'[k] # "none"
    OBVIOUS
  <2>2. \A v \in Workers : worker'[v].at \in Busy =>
          worker[v].at \in Busy /\ worker'[v] = worker[v] /\ worker[v].job \in Jobs
    BY <1>t DEF Inv, Attached, Idle, Busy
  <2>3. \A v \in Workers : worker'[v].at \in Busy <=> worker'[v].job # NoJob
    BY DEF Inv, Attached, Idle, Busy
  <2>4. \A u \in writes' : u.job \in Jobs /\ status[u.job] # "none"
    BY <1>t DEF j, Inv, Attached
  <2>. QED BY <2>1, <2>2, <2>3, <2>4 DEF Inv, Attached
<1>2. DonePrinted'
  <2>1. \A k \in Jobs : status'[k] = "Done" => pages'[k] > 0
    BY <1>p DEF Inv, DonePrinted
  <2>2. \A u \in writes' : u.status = "Done" => pages'[u.job] > 0
    <3>. SUFFICES ASSUME NEW u \in writes', u.status = "Done" PROVE pages'[u.job] > 0
      OBVIOUS
    <3>1. CASE u \in writes
      <4>1. u.job \in Jobs /\ pages[u.job] > 0
        BY <3>1, <1>t DEF Inv, DonePrinted
      <4>. QED BY <4>1, <1>p
    <3>2. CASE u \notin writes
      <4>1. u.job = j /\ p = 1
        BY <3>2 DEF j
      <4>. QED BY <4>1, <1>p, <1>t
    <3>. QED BY <3>1, <3>2
  <2>. QED BY <2>1, <2>2, <1>p DEF Inv, DonePrinted
<1>3. PagesAccounted'
  <2>1. \A k \in Jobs :
          /\ IsFiniteSet(Holders(k))'
          /\ Cardinality(Holders(k))
               = Cardinality(Holders(k))' + (IF k = j THEN 1 ELSE 0)
          /\ Cardinality(Holders(k))' \in Nat
    BY <1>t, HolderLeaves DEF Idle, j
  <2>2. \A k \in Jobs : /\ claims[k] \in Nat /\ doubts[k] \in Nat
                        /\ doubts'[k] \in Nat /\ doubts'[k] >= doubts[k]
    BY <1>t
  <2>3. \A k \in Jobs : pages[k] + Cardinality(Holders(k)) <= claims[k] + doubts[k]
    BY DEF Inv, PagesAccounted
  <2>4. \A k \in Jobs : pages'[k] + Cardinality(Holders(k))' <= claims[k] + doubts'[k]
    <3>. SUFFICES ASSUME NEW k \in Jobs
                  PROVE  pages'[k] + Cardinality(Holders(k))' <= claims[k] + doubts'[k]
      OBVIOUS
    <3>1. CASE k = j
      BY <3>1, <2>1, <2>2, <2>3, <1>p
    <3>2. CASE k # j
      BY <3>2, <2>1, <2>2, <2>3, <1>p
    <3>. QED BY <3>1, <3>2
  <2>. QED BY <2>1, <2>4 DEF PagesAccounted
<1>4. DirectAccounted'
  BY <1>p DEF Inv, DirectAccounted
<1>. QED BY <1>1, <1>2, <1>3, <1>4 DEF Inv

LEMMA LoadInv ==
  ASSUME Inv, NEW w \in Workers, LoadLabel(w)
  PROVE  Inv'
<1>. DEFINE j == worker[w].job
<1>t. /\ status \in [Jobs -> {"none", "Queued", "Processing"} \cup Ended]
      /\ pages \in [Jobs \cup {Direct} -> Nat] /\ doubts \in [Jobs \cup {Direct} -> Nat]
      /\ worker \in [Workers -> [at : {"idle", "claim", "load", "print"},
                                 job : Jobs \cup {NoJob}, attempt : 0..MaxAttempts]]
      /\ writes \subseteq [job : Jobs, status : Ended]
  BY DEF Inv, TypeOK
<1>0. /\ worker[w].at = "load" /\ j \in Jobs /\ status[j] # "none"
      /\ UNCHANGED <<item, claim, claims, slow, direct, pages, doubts, faults>>
  BY <1>t DEF LoadLabel, Inv, Attached, Busy
<1>i. Idle \in [at : {"idle", "claim", "load", "print"}, job : Jobs \cup {NoJob},
               attempt : 0..MaxAttempts]
  BY Constants DEF Idle
<1>p. pages = [pages EXCEPT ![j] = @ + 0]
  BY <1>t, <1>0
<1>e. "Error" \in Ended /\ "Error" # "Done"
  BY DEF Ended
<1>1. CASE /\ worker' = [worker EXCEPT ![w].at = "print", ![w].attempt = 1]
           /\ UNCHANGED <<status, writes>>
  <2>1. /\ worker' \in [Workers -> [at : {"idle", "claim", "load", "print"},
                                    job : Jobs \cup {NoJob}, attempt : 0..MaxAttempts]]
        /\ worker'[w].at = "print" /\ worker'[w].job = j
        /\ \A v \in Workers \ {w} : worker'[v] = worker[v]
    <3>1. worker[w] \in [at : {"idle", "claim", "load", "print"},
                         job : Jobs \cup {NoJob}, attempt : 0..MaxAttempts] /\ 1 \in 0..MaxAttempts
      BY <1>t, Constants
    <3>2. worker' = [worker EXCEPT ![w] = [worker[w] EXCEPT !.at = "print", !.attempt = 1]]
      BY <1>1, <1>t
    <3>. DEFINE s == [worker[w] EXCEPT !.at = "print", !.attempt = 1]
    <3>3. /\ s \in [at : {"idle", "claim", "load", "print"},
                     job : Jobs \cup {NoJob}, attempt : 0..MaxAttempts]
          /\ s.at = "print" /\ s.job = j
      BY <3>1
    <3>. HIDE DEF s, j
    <3>. QED BY <3>2, <3>3, <1>t DEF s
  <2>2. TypeOK'
    BY <1>0, <1>1, <2>1 DEF Inv, TypeOK
  <2>. QED BY <1>0, <1>1, <2>1, <2>2, Quiet DEF Busy
<1>2. CASE /\ status' = [status EXCEPT ![j] = "Error"] /\ worker' = [worker EXCEPT ![w] = Idle]
           /\ UNCHANGED writes
  <2>1. /\ worker' \in [Workers -> [at : {"idle", "claim", "load", "print"},
                                    job : Jobs \cup {NoJob}, attempt : 0..MaxAttempts]]
        /\ worker'[w] = Idle /\ \A v \in Workers \ {w} : worker'[v] = worker[v]
    BY <1>2, <1>t, <1>i
  <2>2. status' \in [Jobs -> {"none", "Queued", "Processing"} \cup Ended]
        /\ \A k \in Jobs : status'[k] # status[k] => status'[k] = "Error"
    BY <1>2, <1>t, <1>0, <1>e
  <2>3. TypeOK'
    BY <1>0, <1>2, <2>1, <2>2 DEF Inv, TypeOK
  <2>4. \A k \in Jobs \cup {Direct} : doubts'[k] >= doubts[k]
    BY <1>t, <1>0
  <2>. HIDE DEF j
  <2>. QED BY <1>0, <1>2, <1>p, <1>t, <2>1, <2>2, <2>3, <2>4, LetGo DEF Busy, j
<1>3. CASE FinishLater(w, "Error") /\ UNCHANGED status
  <2>1. /\ worker' \in [Workers -> [at : {"idle", "claim", "load", "print"},
                                    job : Jobs \cup {NoJob}, attempt : 0..MaxAttempts]]
        /\ worker'[w] = Idle /\ \A v \in Workers \ {w} : worker'[v] = worker[v]
        /\ writes' = writes \cup {[job |-> j, status |-> "Error"]}
    BY <1>3, <1>t, <1>i DEF FinishLater
  <2>2. [job |-> j, status |-> "Error"] \in [job : Jobs, status : Ended]
    BY <1>0, <1>e
  <2>3. TypeOK'
    BY <1>0, <1>3, <2>1, <2>2 DEF Inv, TypeOK
  <2>4. \A k \in Jobs \cup {Direct} : doubts'[k] >= doubts[k]
    BY <1>t, <1>0
  <2>5. \A u \in writes' \ writes : u.job = j /\ u.status = "Error"
    BY <2>1
  <2>. HIDE DEF j
  <2>. QED BY <1>0, <1>3, <1>p, <1>e, <1>t, <2>1, <2>3, <2>4, <2>5, LetGo DEF Busy, j
<1>. QED BY <1>1, <1>2, <1>3 DEF LoadLabel

\* What a call of lp adds.
LEMMA Spooled ==
  ASSUME TypeOK, NEW id \in Jobs \cup {Direct}, NEW result \in Lp, Spool(id, result)
  PROVE  /\ pages' \in [Jobs \cup {Direct} -> Nat] /\ doubts' \in [Jobs \cup {Direct} -> Nat]
         /\ result.page \in 0..1 /\ pages'[id] = pages[id] + result.page
         /\ \A k \in (Jobs \cup {Direct}) \ {id} : pages'[k] = pages[k] /\ doubts'[k] = doubts[k]
         /\ doubts'[id] = doubts[id] + (IF result.end = "timeout" THEN 1 ELSE 0)
         /\ IsSuccess(result) => result.page = 1
         /\ result.page = 1 => IsSuccess(result) \/ result.end = "timeout"
<1>1. /\ result.page \in 0..1 /\ result.end \in {"sent", "timeout", "transient", "refused"}
      /\ result.end = "sent" => result.page = 1
      /\ result.page = 1 => result.end \in {"sent", "timeout"}
  BY DEF Lp
<1>2. pages \in [Jobs \cup {Direct} -> Nat] /\ doubts \in [Jobs \cup {Direct} -> Nat]
  BY DEF TypeOK
<1>. QED BY <1>1, <1>2 DEF Spool, IsSuccess

LEMMA PrintInv ==
  ASSUME Inv, NEW w \in Workers, PrintJob(w)
  PROVE  Inv'
<1>. DEFINE j == worker[w].job
            n == worker[w].attempt
<1>t. /\ pages \in [Jobs \cup {Direct} -> Nat] /\ doubts \in [Jobs \cup {Direct} -> Nat]
      /\ claims \in [Jobs -> Nat]
      /\ worker \in [Workers -> [at : {"idle", "claim", "load", "print"},
                                 job : Jobs \cup {NoJob}, attempt : 0..MaxAttempts]]
      /\ writes \subseteq [job : Jobs, status : Ended]
  BY DEF Inv, TypeOK
<1>0. /\ worker[w].at = "print" /\ j \in Jobs /\ n \in 0..MaxAttempts
      /\ UNCHANGED <<item, status, claim, claims, slow, direct, faults>>
  BY <1>t DEF PrintJob, Inv, Attached, Busy
<1>i. Idle \in [at : {"idle", "claim", "load", "print"}, job : Jobs \cup {NoJob},
               attempt : 0..MaxAttempts]
  BY Constants DEF Idle
<1>1. PICK result \in Lp :
        /\ Spool(j, result)
        /\ \/ /\ After(result, n) = "again"
              /\ worker' = [worker EXCEPT ![w].attempt = @ + 1]
              /\ UNCHANGED writes
           \/ After(result, n) # "again" /\ FinishLater(w, After(result, n))
  BY DEF PrintJob
<1>2. /\ pages' \in [Jobs \cup {Direct} -> Nat] /\ doubts' \in [Jobs \cup {Direct} -> Nat]
      /\ result.page \in 0..1 /\ pages'[j] = pages[j] + result.page
      /\ \A k \in (Jobs \cup {Direct}) \ {j} : pages'[k] = pages[k] /\ doubts'[k] = doubts[k]
      /\ doubts'[j] = doubts[j] + (IF result.end = "timeout" THEN 1 ELSE 0)
      /\ IsSuccess(result) => result.page = 1
      /\ result.page = 1 => IsSuccess(result) \/ result.end = "timeout"
  BY <1>0, <1>1, Spooled DEF Inv
<1>3. /\ After(result, n) \in {"Done", "Error", "again"}
      /\ After(result, n) = "Done" => result.page = 1
      /\ After(result, n) = "again" => n < MaxAttempts /\ ~IsSuccess(result)
  BY <1>2 DEF After, Retried
<1>4. CASE /\ After(result, n) = "again" /\ UNCHANGED writes
           /\ worker' = [worker EXCEPT ![w].attempt = @ + 1]
  <2>0. n + 1 \in 0..MaxAttempts
    BY <1>0, <1>3, <1>4, Constants
  <2>1. /\ worker' \in [Workers -> [at : {"idle", "claim", "load", "print"},
                                    job : Jobs \cup {NoJob}, attempt : 0..MaxAttempts]]
        /\ \A v \in Workers : worker'[v].at = worker[v].at /\ worker'[v].job = worker[v].job
    BY <1>4, <1>t, <2>0
  <2>2. TypeOK'
    BY <1>0, <1>2, <1>4, <2>1 DEF Inv, TypeOK
  <2>3. Attached'
    BY <1>0, <1>4, <2>1 DEF Inv, Attached
  <2>4. DonePrinted'
    BY <1>0, <1>2, <1>4, <1>t, Constants DEF Inv, DonePrinted
  <2>5. PagesAccounted'
    <3>1. \A k \in Jobs : /\ Holders(k)' = Holders(k)
                          /\ IsFiniteSet(Holders(k)) /\ Cardinality(Holders(k)) \in Nat
                          /\ pages[k] + Cardinality(Holders(k)) <= claims[k] + doubts[k]
      BY <2>1, HoldersStay DEF Inv, PagesAccounted
    <3>2. pages'[j] - pages[j] <= doubts'[j] - doubts[j]
      BY <1>0, <1>2, <1>3, <1>4, <1>t
    <3>3. \A k \in Jobs : pages'[k] + Cardinality(Holders(k)) <= claims[k] + doubts'[k]
      <4>. HIDE DEF j
      <4>. SUFFICES ASSUME NEW k \in Jobs
                    PROVE  pages'[k] + Cardinality(Holders(k)) <= claims[k] + doubts'[k]
        OBVIOUS
      <4>1. CASE k = j
        BY <4>1, <3>1, <3>2, <1>2, <1>t
      <4>2. CASE k # j
        BY <4>2, <3>1, <1>2, <1>t
      <4>. QED BY <4>1, <4>2
    <3>. QED BY <3>1, <3>3, <1>0 DEF PagesAccounted
  <2>6. DirectAccounted'
    BY <1>0, <1>2, Constants DEF Inv, DirectAccounted
  <2>. QED BY <2>2, <2>3, <2>4, <2>5, <2>6 DEF Inv
<1>5. CASE After(result, n) # "again" /\ FinishLater(w, After(result, n))
  <2>. DEFINE outcome == After(result, n)
  <2>1. /\ worker' \in [Workers -> [at : {"idle", "claim", "load", "print"},
                                    job : Jobs \cup {NoJob}, attempt : 0..MaxAttempts]]
        /\ worker'[w] = Idle /\ \A v \in Workers \ {w} : worker'[v] = worker[v]
        /\ writes' = writes \cup {[job |-> j, status |-> outcome]}
    BY <1>5, <1>t, <1>i DEF FinishLater
  <2>2. outcome \in Ended /\ (outcome = "Done" => result.page = 1)
    BY <1>3, <1>5 DEF Ended
  <2>. HIDE DEF outcome, j
  <2>3. [job |-> j, status |-> outcome] \in [job : Jobs, status : Ended]
    BY <1>0, <2>2
  <2>4. TypeOK'
    BY <1>0, <1>2, <2>1, <2>3 DEF Inv, TypeOK
  <2>5. \A u \in writes' \ writes : u.job = j /\ (u.status = "Done" => result.page = 1)
    BY <2>1, <2>2
  <2>6. pages' = [pages EXCEPT ![j] = @ + result.page]
    BY <1>0, <1>2, <1>t
  <2>7. /\ \A k \in Jobs \cup {Direct} : doubts'[k] >= doubts[k]
        /\ doubts'[Direct] = doubts[Direct]
    <3>1. Direct # j
      BY <1>0, Constants
    <3>2. doubts[j] \in Nat /\ doubts'[j] >= doubts[j]
      BY <1>0, <1>2, <1>t
    <3>. QED BY <3>1, <3>2, <1>2, <1>t
  <2>8. PICK p \in 0..1 : p = result.page
    BY <1>2
  <2>9. /\ pages' = [pages EXCEPT ![worker[w].job] = @ + p]
        /\ \A u \in writes' \ writes : u.job = worker[w].job /\ (u.status = "Done" => p = 1)
    BY <2>5, <2>6, <2>8 DEF j
  <2>10. worker[w].at \in Busy
    BY <1>0 DEF Busy
  <2>. QED BY <1>0, <1>2, <2>1, <2>4, <2>7, <2>9, <2>10, LetGo
<1>. QED BY <1>1, <1>4, <1>5

-----------------------------------------------------------------------------
(* The request, and the end of the process *)

\* A step of the request leaves the rows and what belongs to them alone.
LEMMA RowsApart ==
  ASSUME Inv, TypeOK', UNCHANGED jobVars, DirectAccounted',
         \A k \in Jobs : pages'[k] = pages[k] /\ doubts'[k] = doubts[k],
         direct'.at = "sent" => pages'[Direct] > 0
  PROVE  Inv'
<1>. USE DEF jobVars
<1>1. Attached'
  BY DEF Inv, Attached
<1>2. DonePrinted'
  <2>1. \A u \in writes : u.job \in Jobs
    BY DEF Inv, TypeOK
  <2>. QED BY <2>1 DEF Inv, DonePrinted
<1>3. PagesAccounted'
  BY HoldersStay DEF Inv, PagesAccounted
<1>. QED BY <1>1, <1>2, <1>3 DEF Inv

LEMMA DirectInv ==
  ASSUME Inv, DirectStep
  PROVE  Inv'
<1>. DEFINE Requests == [at : {"none", "rejected", "print", "sent", "failed", "unsent", "lost"},
                         attempt : 0..MaxAttempts, event : BOOLEAN]
<1>t. /\ direct \in Requests /\ direct.attempt \in 0..MaxAttempts
      /\ pages \in [Jobs \cup {Direct} -> Nat] /\ doubts \in [Jobs \cup {Direct} -> Nat]
      /\ item \in [Items -> {"coded", "bare", "gone"}]
  BY DEF Inv, TypeOK
<1>1. CASE RequestPrint \/ PreviewFails \/ LogPrintFailed
  <2>1. UNCHANGED <<item, jobVars, pages, doubts, faults>>
    BY <1>1 DEF RequestPrint, PreviewFails, LogPrintFailed
  <2>2. \/ direct.at \in {"none", "print"} /\ direct' = [direct EXCEPT !.at = "rejected"]
        \/ direct.at = "none" /\ direct' = [direct EXCEPT !.at = "print", !.attempt = 1]
        \/ direct.at = "failed" /\ \E kept \in BOOLEAN :
             direct' = [direct EXCEPT !.at = "unsent", !.event = kept]
    BY <1>1 DEF RequestPrint, PreviewFails, LogPrintFailed
  <2>3. 1 \in 0..MaxAttempts
    BY Constants
  <2>4. /\ direct' \in Requests
        /\ direct'.at \in {"rejected", "unsent"} \/ (direct'.at = "print" /\ direct.at = "none")
    BY <1>t, <2>2, <2>3
  <2>5. TypeOK'
    BY <2>1, <2>4 DEF Inv, TypeOK, jobVars
  <2>6. DirectAccounted'
    BY <2>1, <2>4 DEF Inv, DirectAccounted
  <2>. QED BY <2>1, <2>4, <2>5, <2>6, RowsApart
<1>2. CASE PrintDirect
  <2>1. PICK result \in Lp :
          /\ Spool(Direct, result)
          /\ direct' = CASE After(result, direct.attempt) = "Done"  -> [direct EXCEPT !.at = "sent"]
                         [] After(result, direct.attempt) = "again" -> [direct EXCEPT !.attempt = @ + 1]
                         [] OTHER                                   -> [direct EXCEPT !.at = "failed"]
    BY <1>2 DEF PrintDirect
  <2>2. direct.at = "print" /\ UNCHANGED <<item, jobVars, faults>>
    BY <1>2 DEF PrintDirect
  <2>3. /\ pages' \in [Jobs \cup {Direct} -> Nat] /\ doubts' \in [Jobs \cup {Direct} -> Nat]
        /\ result.page \in 0..1 /\ pages'[Direct] = pages[Direct] + result.page
        /\ \A k \in Jobs : pages'[k] = pages[k] /\ doubts'[k] = doubts[k]
        /\ doubts'[Direct] = doubts[Direct] + (IF result.end = "timeout" THEN 1 ELSE 0)
        /\ IsSuccess(result) => result.page = 1
        /\ result.page = 1 => IsSuccess(result) \/ result.end = "timeout"
    BY <2>1, Spooled, Constants DEF Inv
  <2>4. /\ After(result, direct.attempt) = "Done" => result.page = 1
        /\ After(result, direct.attempt) = "again" => direct.attempt < MaxAttempts
        /\ IsSuccess(result) => After(result, direct.attempt) = "Done"
    BY <2>3 DEF After, Retried
  <2>5. After(result, direct.attempt) = "again" => direct.attempt + 1 \in 0..MaxAttempts
    BY <2>4, <1>t, Constants
  <2>6. /\ direct' \in Requests
        /\ After(result, direct.attempt) = "Done" => direct'.at = "sent"
        /\ After(result, direct.attempt) # "Done" => direct'.at \in {"print", "failed"}
    BY <2>1, <2>2, <2>5, <1>t
  <2>7. TypeOK'
    BY <2>2, <2>3, <2>6 DEF Inv, TypeOK, jobVars
  <2>8. pages[Direct] \in Nat /\ doubts[Direct] \in Nat /\ pages[Direct] <= doubts[Direct]
    BY <2>2, <1>t DEF Inv, DirectAccounted
  <2>9. DirectAccounted'
    <3>1. After(result, direct.attempt) = "Done" => pages'[Direct] <= 1 + doubts'[Direct]
      BY <2>3, <2>8
    <3>2. After(result, direct.attempt) # "Done" => pages'[Direct] <= doubts'[Direct]
      BY <2>3, <2>4, <2>8
    <3>3. pages'[Direct] \in Nat /\ doubts'[Direct] \in Nat
      BY <2>3
    <3>. QED BY <3>1, <3>2, <3>3, <2>6 DEF DirectAccounted
  <2>10. direct'.at = "sent" => pages'[Direct] > 0
    BY <2>3, <2>4, <2>6, <2>8
  <2>. QED BY <2>2, <2>3, <2>7, <2>9, <2>10, RowsApart
<1>. QED BY <1>1, <1>2 DEF DirectStep

\* What lp still delivers counts as an attempt without an answer.
LEMMA CrashInv ==
  ASSUME Inv, Crash
  PROVE  Inv'
<1>. DEFINE Ids == Jobs \cup {Direct}
<1>t. /\ pages \in [Ids -> Nat] /\ doubts \in [Ids -> Nat] /\ claims \in [Jobs -> Nat]
      /\ DOMAIN pages = Ids /\ faults \in Nat
  BY DEF Inv, TypeOK
<1>1. PICK delivered \in [Ids -> {0, 1}] :
        /\ pages' = [id \in Ids |-> pages[id] + delivered[id]]
        /\ doubts' = [id \in Ids |-> doubts[id] + delivered[id]]
        /\ delivered[Direct] = 1 => direct.at = "print"
  BY <1>t DEF Crash
<1>2. /\ worker' = [w \in Workers |-> Idle] /\ writes' = {} /\ faults' = faults + 1
      /\ direct' = IF direct.at \in {"print", "failed"} THEN [direct EXCEPT !.at = "lost"] ELSE direct
      /\ UNCHANGED <<item, status, claim, claims, slow>>
  BY DEF Crash
<1>3. /\ pages' \in [Ids -> Nat] /\ doubts' \in [Ids -> Nat]
      /\ \A id \in Ids : /\ pages'[id] = pages[id] + delivered[id]
                         /\ doubts'[id] = doubts[id] + delivered[id]
                         /\ delivered[id] \in 0..1 /\ pages[id] \in Nat /\ doubts[id] \in Nat
  BY <1>1, <1>t
<1>4. TypeOK'
  BY <1>2, <1>3, <1>t, Constants DEF Inv, TypeOK, Idle
<1>5. Attached'
  BY <1>2 DEF Inv, Attached, Idle, Busy
<1>6. DonePrinted'
  <2>1. \A j \in Jobs : status'[j] = "Done" => pages'[j] > 0
    BY <1>2, <1>3 DEF Inv, DonePrinted
  <2>2. direct'.at = "sent" => pages'[Direct] > 0
    <3>1. direct'.at = "sent" => direct.at = "sent"
      BY <1>2 DEF Inv, TypeOK
    <3>. QED BY <3>1, <1>3 DEF Inv, DonePrinted
  <2>. QED BY <2>1, <2>2, <1>2 DEF DonePrinted
<1>7. PagesAccounted'
  <2>. SUFFICES ASSUME NEW j \in Jobs
                PROVE  /\ IsFiniteSet(Holders(j))'
                       /\ pages'[j] + Cardinality(Holders(j))' <= claims'[j] + doubts'[j]
    BY DEF PagesAccounted
  <2>1. Holders(j)' = {}
    BY <1>2, Constants DEF Holders, Idle
  <2>2. IsFiniteSet(Holders(j))' /\ Cardinality(Holders(j))' = 0
    BY <2>1, FS_EmptySet
  <2>3. pages[j] <= claims[j] + doubts[j]
    <3>1. /\ Cardinality(Holders(j)) \in Nat
          /\ pages[j] + Cardinality(Holders(j)) <= claims[j] + doubts[j]
      BY FS_CardinalityType DEF Inv, PagesAccounted
    <3>. QED BY <3>1, <1>t
  <2>. QED BY <2>2, <2>3, <1>2, <1>3, <1>t
<1>8. DirectAccounted'
  <2>1. direct'.at \notin {"print", "failed"}
    BY <1>2 DEF Inv, TypeOK
  <2>2. direct'.at = "none" => direct.at = "none"
    BY <1>2 DEF Inv, TypeOK
  <2>3. delivered[Direct] = 1 => direct.at = "print"
    BY <1>1
  <2>. QED BY <2>1, <2>2, <2>3, <1>3 DEF Inv, DirectAccounted
<1>. QED BY <1>4, <1>5, <1>6, <1>7, <1>8 DEF Inv

LEMMA NextInv == Inv /\ [Next]_vars => Inv'
<1>. SUFFICES ASSUME Inv, [Next]_vars PROVE Inv'
  OBVIOUS
<1>1. CASE UNCHANGED vars
  <2>1. TypeOK'
    BY <1>1 DEF vars, jobVars, Inv, TypeOK
  <2>. QED BY <1>1, <2>1, Quiet DEF vars, jobVars
<1>. QED BY <1>1, QueueInv, ClaimInv, LoadInv, PrintInv, DirectInv, CrashInv DEF Next, WorkerStep

LEMMA InvHolds == Spec => []Inv
<1>. QED BY InitInv, NextInv, PTL DEF Spec

-----------------------------------------------------------------------------
(* Results *)

\* Every variable of the labels keeps its type.
THEOREM TypeCorrect == Spec => []TypeOK
<1>1. Inv => TypeOK
  BY DEF Inv
<1>. QED BY <1>1, InvHolds, PTL

\* A job is Done and a request sent only with a page that CUPS took, however many runs
\* of the worker share the row and whenever the process ends.
THEOREM DoneIsPrinted == Spec => []DonePrinted
<1>1. Inv => DonePrinted
  BY DEF Inv
<1>. QED BY <1>1, InvHolds, PTL

\* No page comes out without a claim of its own or a call of lp that was cut off.
THEOREM PagesHaveReasons == Spec => []PagesExplained
<1>1. Inv => PagesExplained
  <2>. SUFFICES ASSUME Inv PROVE PagesExplained
    OBVIOUS
  <2>1. ASSUME NEW j \in Jobs PROVE pages[j] <= claims[j] + doubts[j]
    <3>1. /\ Cardinality(Holders(j)) \in Nat
          /\ pages[j] + Cardinality(Holders(j)) <= claims[j] + doubts[j]
      BY FS_CardinalityType DEF Inv, PagesAccounted
    <3>2. pages[j] \in Nat /\ claims[j] \in Nat /\ doubts[j] \in Nat
      BY DEF Inv, TypeOK
    <3>. QED BY <3>1, <3>2
  <2>2. pages[Direct] <= 1 + doubts[Direct]
    BY DEF Inv, DirectAccounted
  <2>. QED BY <2>1, <2>2 DEF PagesExplained
<1>. QED BY <1>1, InvHolds, PTL

-----------------------------------------------------------------------------
(* The contract of a queue table *)

\* The statement a step makes on label_queue.
LEMMA StatusSteps ==
  ASSUME Inv, [Next]_vars
  PROVE  \/ status' = status
         \/ \E j \in Jobs : status[j] = "none" /\ status' = [status EXCEPT ![j] = "Queued"]
         \/ \E j \in Jobs : status[j] = "Queued" /\ status' = [status EXCEPT ![j] = "Processing"]
         \/ \E S \in SUBSET Jobs :
              /\ \A j \in S : status[j] = "Processing"
              /\ status' = [j \in Jobs |-> IF j \in S THEN "Queued" ELSE status[j]]
         \/ \E j \in Jobs, s \in Ended : status[j] # "none" /\ status' = [status EXCEPT ![j] = s]
<1>. USE DEF jobVars
<1>1. CASE UNCHANGED vars \/ DirectStep \/ Crash \/ \E i \in Items : ItemChanges(i)
  BY <1>1 DEF vars, DirectStep, RequestPrint, PreviewFails, PrintDirect, LogPrintFailed, Crash,
              ItemChanges
<1>2. ASSUME NEW j \in Jobs, QueueLabel(j) \/ ClaimAges(j)
      PROVE  status' = status \/ (status[j] = "none" /\ status' = [status EXCEPT ![j] = "Queued"])
  BY <1>2 DEF QueueLabel, ClaimAges
<1>3. ASSUME NEW w \in Workers, RecoverStaleLabelJobs(w)
      PROVE  \E S \in SUBSET Jobs :
               /\ \A j \in S : status[j] = "Processing"
               /\ status' = [j \in Jobs |-> IF j \in S THEN "Queued" ELSE status[j]]
  <2>1. Stale \in SUBSET Jobs /\ \A j \in Stale : status[j] = "Processing"
    BY DEF Stale
  <2>. QED BY <1>3, <2>1 DEF RecoverStaleLabelJobs
<1>4. ASSUME NEW w \in Workers, ClaimNextLabelJob(w)
      PROVE  \/ status' = status
             \/ \E j \in Jobs : status[j] = "Queued" /\ status' = [status EXCEPT ![j] = "Processing"]
  BY <1>4 DEF ClaimNextLabelJob, IsNext
<1>5. ASSUME NEW w \in Workers, LoadLabel(w)
      PROVE  \/ status' = status
             \/ \E j \in Jobs, s \in Ended : status[j] # "none" /\ status' = [status EXCEPT ![j] = s]
  <2>1. worker[w].job \in Jobs /\ status[worker[w].job] # "none"
    BY <1>5 DEF LoadLabel, Inv, TypeOK, Attached, Busy
  <2>2. "Error" \in Ended
    BY DEF Ended
  <2>. QED BY <1>5, <2>1, <2>2 DEF LoadLabel
<1>6. ASSUME NEW w \in Workers, PrintJob(w) PROVE status' = status
  BY <1>6 DEF PrintJob
<1>7. ASSUME WriteStep
      PROVE  \E j \in Jobs, s \in Ended : status[j] # "none" /\ status' = [status EXCEPT ![j] = s]
  <2>1. PICK j \in Jobs, s \in Ended : UpdateLabelJobStatus([job |-> j, status |-> s])
    BY <1>7 DEF WriteStep
  <2>. DEFINE u == [job |-> j, status |-> s]
  <2>2. u.job = j /\ u.status = s
    OBVIOUS
  <2>. HIDE DEF u
  <2>3. u \in writes /\ status' = [status EXCEPT ![j] = s]
    BY <2>1, <2>2 DEF UpdateLabelJobStatus, u
  <2>4. status[j] # "none"
    BY <2>2, <2>3 DEF Inv, Attached
  <2>. QED BY <2>3, <2>4
<1>. QED BY <1>1, <1>2, <1>3, <1>4, <1>5, <1>6, <1>7 DEF Next, WorkerStep

\* Every step of the label queue is one a queue table knows, or none: a row is taken only
\* while it waits, given back only while it is held, and never comes back once it ended.
THEOREM QueueKeepsContract == Spec => Contract!Safe
<1>. DEFINE job == [j \in Jobs |->
       CASE status[j] = "none"       -> "none"
         [] status[j] = "Queued"     -> "waiting"
         [] status[j] = "Processing" -> "held"
         [] status[j] \in Ended      -> "ended"]
<1>1. Init => Contract!Init
  <2>1. SUFFICES ASSUME Init PROVE job = [j \in Jobs |-> "none"]
    BY DEF Contract!Init
  <2>2. \A j \in Jobs : status[j] = "none"
    BY <2>1 DEF Init
  <2>. DEFINE Called(s) == CASE s = "none"       -> "none"
                             [] s = "Queued"     -> "waiting"
                             [] s = "Processing" -> "held"
                             [] s \in Ended      -> "ended"
  <2>3. job = [j \in Jobs |-> Called(status[j])]
    OBVIOUS
  <2>4. Called("none") = "none"
    BY DEF Ended
  <2>. HIDE DEF job, Called
  <2>. QED BY <2>2, <2>3, <2>4 DEF job
<1>2. Inv /\ [Next]_vars => [Contract!Next]_job
  <2>. SUFFICES ASSUME Inv, [Next]_vars PROVE [Contract!Next]_job
    OBVIOUS
  <2>t. status \in [Jobs -> {"none", "Queued", "Processing"} \cup Ended]
    BY DEF Inv, TypeOK
  <2>e. Ended = {"Done", "Error"}
    BY DEF Ended
  <2>. DEFINE Called(s) == CASE s = "none"       -> "none"
                             [] s = "Queued"     -> "waiting"
                             [] s = "Processing" -> "held"
                             [] s \in Ended      -> "ended"
  <2>j. /\ job = [j \in Jobs |-> Called(status[j])]
        /\ job' = [j \in Jobs |-> Called(status'[j])]
    OBVIOUS
  <2>c. /\ Called("none") = "none" /\ Called("Queued") = "waiting" /\ Called("Processing") = "held"
        /\ \A s \in Ended : Called(s) = "ended"
    BY <2>e
  <2>. HIDE DEF job, Called
  <2>1. CASE status' = status
    BY <2>1, <2>j
  <2>2. ASSUME NEW j \in Jobs, status[j] = "none", status' = [status EXCEPT ![j] = "Queued"]
        PROVE  [Contract!Next]_job
    <3>1. job[j] = "none" /\ job' = [i \in Jobs |-> IF i \in {j} THEN "waiting" ELSE job[i]]
      BY <2>2, <2>t, <2>j, <2>c
    <3>. QED BY <3>1 DEF Contract!Next, Contract!Enqueue, Contract!Change, job
  <2>3. ASSUME NEW j \in Jobs, status[j] = "Queued", status' = [status EXCEPT ![j] = "Processing"]
        PROVE  [Contract!Next]_job
    <3>1. job[j] = "waiting" /\ job' = [i \in Jobs |-> IF i \in {j} THEN "held" ELSE job[i]]
      BY <2>3, <2>t, <2>j, <2>c
    <3>2. {j} \in SUBSET Jobs
      OBVIOUS
    <3>. QED BY <3>1, <3>2 DEF Contract!Next, Contract!Claim, Contract!Change, job
  <2>4. ASSUME NEW S \in SUBSET Jobs, \A j \in S : status[j] = "Processing",
               status' = [j \in Jobs |-> IF j \in S THEN "Queued" ELSE status[j]]
        PROVE  [Contract!Next]_job
    <3>1. /\ \A j \in S : job[j] = "held"
          /\ job' = [j \in Jobs |-> IF j \in S THEN "waiting" ELSE job[j]]
      BY <2>4, <2>t, <2>j, <2>c
    <3>. QED BY <3>1 DEF Contract!Next, Contract!GiveBack, Contract!Change, job
  <2>5. ASSUME NEW j \in Jobs, NEW s \in Ended, status[j] # "none", status' = [status EXCEPT ![j] = s]
        PROVE  [Contract!Next]_job
    <3>1. job' = [i \in Jobs |-> IF i \in {j} THEN "ended" ELSE job[i]]
      BY <2>5, <2>t, <2>j, <2>c
    <3>2. job[j] \in {"waiting", "held", "ended"} /\ job = [job EXCEPT ![j] = job[j]]
      BY <2>5, <2>t, <2>j, <2>c
    <3>3. CASE job[j] \in {"waiting", "held"}
      BY <3>1, <3>3 DEF Contract!Next, Contract!End, Contract!Change, job
    <3>4. CASE job[j] = "ended"
      <4>1. job = [i \in Jobs |-> job[i]]
        BY <2>j
      <4>2. job' = job
        BY <3>1, <3>4, <4>1
      <4>. QED BY <4>2
    <3>. QED BY <3>2, <3>3, <3>4
  <2>. QED BY <2>1, <2>2, <2>3, <2>4, <2>5, StatusSteps
<1>. QED BY <1>1, <1>2, InvHolds, PTL DEF Spec, Contract!Safe

===================================================================================
