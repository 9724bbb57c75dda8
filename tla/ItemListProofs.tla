----------------------------- MODULE ItemListProofs -----------------------------
(***************************************************************************)
(* What holds of the pages of a browser tab for any items, filters, and    *)
(* handlers under way: what a page shows is of its address, no answer goes *)
(* to another question, and a bulk command names rows of the list.         *)
(***************************************************************************)
EXTENDS ItemList, FiniteSetTheorems, SequenceTheorems, TLAPS

-----------------------------------------------------------------------------
(* The inductive invariant *)

PageForm(p) ==
  /\ p = [itemId |-> p.itemId, item |-> p.item, run |-> p.run, near |-> p.near,
          loading |-> p.loading, moved |-> p.moved]
  /\ p.moved \in BOOLEAN
TaskForm(tk) ==
  tk = [kind |-> tk.kind, slot |-> tk.slot, asked |-> tk.asked, named |-> tk.named,
        todo |-> tk.todo, positive |-> tk.positive]

PageSound(p) ==
  /\ PageForm(p)
  /\ ~p.moved => {p.item, p.run} \subseteq {p.itemId, None}
  /\ p.itemId = None => ~p.moved
  /\ p.near.prev \in {None} \cup 1 .. p.itemId - 1
  /\ p.near.next \in {None} \cup p.itemId + 1 .. LastItem

\* A page that did not move is all there is at its address: what is loaded for it, and
\* what its handlers were asked about, is that address.
LoadSound(f) ==
  /\ f.slot \in Slots
  /\ f.what = "near" => f.item = pages[f.slot].itemId
  /\ f.what # "near" /\ ~pages[f.slot].moved => f.item \in {pages[f.slot].itemId, None}
TaskSound(tk) ==
  /\ TaskForm(tk) /\ tk.named \subseteq tk.asked /\ tk.slot \in Slots \cup {"list", "gone"}
  /\ tk.slot = "gone" => tk.asked \subseteq {None}
  /\ tk.slot = "list" => tk.kind \in Bulk
  /\ tk.slot \in Slots => tk.kind \notin Bulk
  /\ tk.slot \in Slots /\ ~pages[tk.slot].moved => tk.asked \subseteq {pages[tk.slot].itemId, None}

PageInv ==
  /\ DOMAIN pages = Slots /\ DOMAIN tasks = Tasks
  /\ \A s \in Slots : PageSound(pages[s])
  /\ \A f \in fetches : LoadSound(f)
  /\ \A t \in Tasks : TaskSound(tasks[t])

\* The handlers in the queue are those that wait, each once.
Waiting == {t \in Tasks : Step(tasks[t]) \in Dialogs}
InQueue(q) == {q[k] : k \in DOMAIN q}
Once(q) == \A j, k \in DOMAIN q : q[j] = q[k] => j = k
QueueInv == queue \in Seq(Tasks) /\ Once(queue) /\ InQueue(queue) = Waiting

\* Rows are selected in a list that is open, and then the panel shows no item.
PanelForm == panel = [entity |-> panel.entity, tab |-> panel.tab, multi |-> panel.multi,
                      busy |-> panel.busy]
ListForm == list = [open |-> list.open, filter |-> list.filter, items |-> list.items,
                    selected |-> list.selected, loading |-> list.loading, loads |-> list.loads]
ListInv ==
  /\ PanelForm /\ ListForm
  /\ list.open \/ (list = Unlisted /\ panel.multi = {})
  /\ pages["route"].itemId # None => ~list.open
  /\ pages["panel"].itemId # None => panel.multi = {}
  /\ panel.multi \subseteq list.items /\ list.selected \subseteq list.items
  /\ \A t \in Tasks : tasks[t].slot = "list" => list.open

Inv == PageInv /\ QueueInv /\ ListInv

-----------------------------------------------------------------------------
(* Neighbours *)

\* A finite set of numbers has a largest one.
LEMMA LargestNumber ==
  ASSUME NEW S \in SUBSET Int, IsFiniteSet(S), S # {}
  PROVE  \E n \in S : \A m \in S : n >= m
<1>. DEFINE Above(n) == {m \in S : m > n}
            T == {Above(n) : n \in S}
            Finite == FiniteSubsetsOf(S)
            Within == StrictSubsetOrdering(S)
<1>1. IsWellFoundedOn(Within, Finite)
  BY FS_StrictSubsetOrderingWellFounded
<1>2. T \subseteq Finite /\ T # {}
  <2>1. \A n \in S : Above(n) \in SUBSET S
    OBVIOUS
  <2>2. Finite = SUBSET S
    BY FS_FiniteSubsetsOfFinite
  <2>. HIDE DEF Above, Finite
  <2>. QED BY <2>1, <2>2
<1>. HIDE DEF Finite, Within, T
<1>3. \E X \in T : \A Y \in T : ~(<<Y, X>> \in Within)
  BY <1>1, <1>2, WFMin
<1>4. PICK n \in S : \A m \in S : ~(<<Above(m), Above(n)>> \in Within)
  BY <1>3 DEF T
<1>5. ASSUME NEW m \in S, m > n PROVE FALSE
  <2>1. (\A k \in S : k > m => k > n) /\ ~(m > m)
    BY <1>5
  <2>2. Above(m) \subseteq Above(n) /\ m \in Above(n) /\ m \notin Above(m)
    BY <1>5, <2>1
  <2>3. <<Above(m), Above(n)>> \in Within
    BY <2>2 DEF Within, StrictSubsetOrdering
  <2>. QED BY <1>4, <2>3
<1>. QED BY <1>5

LEMMA Neighbours ==
  ASSUME NEW i, NEW S \in SUBSET Items
  PROVE  /\ Adjacent(i, S).prev \in {None} \cup 1 .. i - 1
         /\ Adjacent(i, S).next \in {None} \cup i + 1 .. LastItem
<1>. DEFINE before == {j \in S : j < i}
            after == {j \in S : j > i}
            down == {-j : j \in after}
<1>0. LastItem \in Nat /\ Items = 1 .. LastItem
  BY DetailAssumption DEF Items
<1>1. CASE i \notin S
  BY <1>1 DEF Adjacent, NoQuery
<1>2. CASE i \in S
  <2>0. IsFiniteSet(Items)
    BY <1>0, FS_Interval
  <2>1. IsFiniteSet(S) /\ S \subseteq Int /\ i \in Int
    <3>1. IsFiniteSet(S)
      BY <2>0, FS_Subset
    <3>2. Items \subseteq Int
      BY <1>0
    <3>. QED BY <1>2, <3>1, <3>2
  <2>2. /\ before \in SUBSET Int /\ IsFiniteSet(before) /\ IsFiniteSet(after)
        /\ before \subseteq S /\ after \subseteq S
    BY <2>1, FS_Subset
  <2>3. down \in SUBSET Int /\ IsFiniteSet(down)
    <3>. DEFINE f == [j \in after |-> -j]
    <3>1. f \in Surjection(after, down)
      BY DEF Surjection
    <3>2. down \in SUBSET Int
      BY <2>1
    <3>. HIDE DEF after, down, f
    <3>. QED BY <2>2, <3>1, <3>2, FS_Surjection
  <2>4. before # {} => \E j \in before : \A k \in before : k <= j
    <3>. HIDE DEF before
    <3>. QED BY <2>2, LargestNumber
  <2>5. after # {} => \E j \in after : \A k \in after : j <= k
    <3>1. ASSUME after # {} PROVE \E n \in down : \A m \in down : n >= m
      <4>. HIDE DEF after
      <4>1. down # {}
        BY <3>1
      <4>. HIDE DEF down
      <4>. QED BY <2>3, <4>1, LargestNumber
    <3>2. ASSUME NEW n \in down, \A m \in down : n >= m
          PROVE  \E j \in after : \A k \in after : j <= k
      <4>1. PICK j \in after : n = -j
        BY <3>2
      <4>2. \A k \in after : -j >= -k
        BY <3>2, <4>1
      <4>. QED BY <2>1, <4>2
    <3>. QED BY <3>1, <3>2
  <2>6. Adjacent(i, S).prev \in {None} \cup before /\ Adjacent(i, S).next \in {None} \cup after
    BY <1>2, <2>4, <2>5 DEF Adjacent
  <2>7. before \subseteq 1 .. i - 1 /\ after \subseteq i + 1 .. LastItem
    <3>1. \A j \in S : j \in 1 .. LastItem
      BY <1>0
    <3>2. \A j \in S : (j < i => j \in 1 .. i - 1) /\ (j > i => j \in i + 1 .. LastItem)
      BY <1>0, <2>1, <3>1
    <3>. QED BY <3>2
  <2>. HIDE DEF before, after
  <2>. QED BY <2>6, <2>7
<1>. QED BY <1>1, <1>2

LEMMA RowsAreItems == \A f \in Filters \cup {NoFilter} : Rows(f) \in SUBSET Items
BY DetailAssumption DEF Rows

-----------------------------------------------------------------------------
(* What steps are made of *)

LEMMA IdleTask ==
  /\ TaskSound(Idle) /\ TaskSound(Idle)' /\ Step(Idle) \notin Dialogs /\ Idle.slot = "gone"
BY DEF TaskSound, TaskForm, Idle, Bulk, Slots, Step, Dialogs

LEMMA InitInv == Init => Inv
<1>. SUFFICES ASSUME Init PROVE Inv
  OBVIOUS
<1>1. DOMAIN pages = Slots /\ \A s \in Slots : pages[s] = Absent
  BY DEF Init
<1>2. DOMAIN tasks = Tasks /\ \A t \in Tasks : tasks[t] = Idle
  BY DEF Init
<1>3. PageSound(Absent)
  BY DEF PageSound, PageForm, Absent, NoQuery
<1>4. PageInv
  BY <1>1, <1>2, <1>3, IdleTask DEF PageInv, Init
<1>5. QueueInv
  <2>1. Waiting = {}
    BY <1>2, IdleTask DEF Waiting
  <2>2. queue = <<>> /\ DOMAIN queue = {}
    BY DEF Init
  <2>. QED BY <2>1, <2>2 DEF QueueInv, Once, InQueue
<1>6. ListInv
  <2>1. list.open /\ list.items = {} /\ list.selected = {} /\ ListForm
    BY DEF Init, Listed, Unlisted, ListForm
  <2>2. PanelForm /\ panel.multi = {}
    BY DEF Init, PanelForm
  <2>3. \A s \in Slots : pages[s].itemId = None
    BY <1>1 DEF Absent
  <2>4. \A t \in Tasks : tasks[t].slot # "list"
    BY <1>2, IdleTask
  <2>. QED BY <2>1, <2>2, <2>3, <2>4 DEF ListInv, Slots
<1>. QED BY <1>4, <1>5, <1>6 DEF Inv

\* The pages keep their addresses.
LEMMA PageKeeps ==
  ASSUME PageInv, DOMAIN pages' = Slots, DOMAIN tasks' = Tasks,
         \A s \in Slots : /\ PageSound(pages'[s]) /\ pages'[s].itemId = pages[s].itemId
                          /\ pages'[s].moved = pages[s].moved,
         \A t \in Tasks : TaskSound(tasks'[t]), \A f \in fetches' : LoadSound(f)
  PROVE  PageInv'
BY DEF PageInv, LoadSound, TaskSound

\* A handler goes on.
LEMMA Advances ==
  ASSUME DOMAIN tasks = Tasks, NEW t \in Tasks, NEW tk, TaskSound(tk), NEW todo, NEW rest,
         NEW known, Proceed(t, tk, todo, rest, known)
  PROVE  /\ DOMAIN tasks' = Tasks /\ TaskSound(tasks'[t])
         /\ tasks'[t].slot \in {tk.slot, "gone"}
         /\ \A u \in Tasks \ {t} : tasks'[u] = tasks[u]
<1>. DEFINE next == Later(tk, todo, known)
<1>1. tasks' = [tasks EXCEPT ![t] = next]
  BY DEF Proceed
<1>2. TaskSound(next) /\ next.slot \in {tk.slot, "gone"}
  <2>. DEFINE left == IF todo # <<>> /\ Head(todo) = "user" /\ known THEN Tail(todo) ELSE todo
  <2>1. next = IF left = <<>> THEN Idle ELSE [tk EXCEPT !.todo = left]
    BY DEF Later
  <2>. HIDE DEF left, next
  <2>2. TaskSound([tk EXCEPT !.todo = left]) /\ [tk EXCEPT !.todo = left].slot = tk.slot
    BY DEF TaskSound, TaskForm
  <2>. QED BY <2>1, <2>2, IdleTask
<1>. HIDE DEF next
<1>. QED BY <1>1, <1>2

\* The queue grows by the handler that asks, and loses the one that was answered.
LEMMA Queues ==
  ASSUME QueueInv, DOMAIN tasks = Tasks, NEW t \in Tasks, NEW tk, NEW todo, NEW rest, NEW known,
         Proceed(t, tk, todo, rest, known),
         \/ rest = queue /\ t \notin Waiting
         \/ queue # <<>> /\ rest = Tail(queue) /\ t = Head(queue)
  PROVE  QueueInv'
<1>. DEFINE next == Later(tk, todo, known)
<1>1. /\ tasks' = [tasks EXCEPT ![t] = next]
      /\ queue' = IF Step(next) \in Dialogs THEN Append(rest, t) ELSE rest
  BY DEF Proceed
<1>2. /\ tasks'[t] = next /\ \A u \in Tasks \ {t} : tasks'[u] = tasks[u]
  BY <1>1
<1>. HIDE DEF next
<1>3. Waiting' = (Waiting \ {t}) \cup {u \in {t} : Step(next) \in Dialogs}
  BY <1>2 DEF Waiting, Step
<1>4. rest \in Seq(Tasks) /\ Once(rest) /\ InQueue(rest) = Waiting \ {t}
  <2>0. queue \in Seq(Tasks) /\ Once(queue) /\ InQueue(queue) = Waiting
    BY DEF QueueInv
  <2>1. CASE rest = queue /\ t \notin Waiting
    BY <2>0, <2>1
  <2>2. CASE queue # <<>> /\ rest = Tail(queue) /\ t = Head(queue)
    <3>1. /\ rest \in Seq(Tasks) /\ Len(rest) = Len(queue) - 1 /\ Len(queue) \in Nat \ {0}
          /\ \A k \in 1 .. Len(rest) : rest[k] = queue[k + 1]
      BY <2>0, <2>2, HeadTailProperties, EmptySeq
    <3>2. DOMAIN rest = 1 .. Len(rest) /\ DOMAIN queue = 1 .. Len(queue) /\ t = queue[1]
      <4>1. DOMAIN rest = 1 .. Len(rest)
        BY <3>1, LenProperties
      <4>2. DOMAIN queue = 1 .. Len(queue)
        BY <2>0, LenProperties
      <4>3. t = queue[1]
        BY <2>2
      <4>. QED BY <4>1, <4>2, <4>3
    <3>3. Once(rest)
      BY <2>0, <3>1, <3>2 DEF Once
    <3>4. InQueue(rest) = InQueue(queue) \ {t}
      <4>1. ASSUME NEW k \in DOMAIN rest PROVE rest[k] \in InQueue(queue) \ {t}
        <5>1. k + 1 \in DOMAIN queue /\ k + 1 # 1 /\ 1 \in DOMAIN queue /\ rest[k] = queue[k + 1]
          BY <3>1, <3>2
        <5>. QED BY <2>0, <3>2, <5>1 DEF Once, InQueue
      <4>2. ASSUME NEW j \in DOMAIN queue, queue[j] # t PROVE queue[j] \in InQueue(rest)
        <5>1. j - 1 \in DOMAIN rest /\ queue[j] = rest[j - 1]
          BY <3>1, <3>2, <4>2
        <5>. QED BY <5>1 DEF InQueue
      <4>. QED BY <4>1, <4>2 DEF InQueue
    <3>. QED BY <2>0, <3>1, <3>3, <3>4
  <2>. QED BY <2>1, <2>2
<1>5. CASE Step(next) \notin Dialogs
  BY <1>1, <1>3, <1>4, <1>5 DEF QueueInv
<1>6. CASE Step(next) \in Dialogs
  <2>. DEFINE q == Append(rest, t)
  <2>1. /\ q \in Seq(Tasks) /\ Len(q) = Len(rest) + 1 /\ Len(rest) \in Nat
        /\ \A k \in 1 .. Len(rest) : q[k] = rest[k]
        /\ q[Len(rest) + 1] = t
    BY <1>4, AppendProperties, LenProperties
  <2>. HIDE DEF q
  <2>2. DOMAIN rest = 1 .. Len(rest) /\ DOMAIN q = 1 .. Len(rest) + 1
    BY <1>4, <2>1, LenProperties
  <2>3. \A k \in DOMAIN rest : rest[k] # t
    BY <1>4 DEF InQueue
  <2>4. DOMAIN q = DOMAIN rest \cup {Len(rest) + 1} /\ Len(rest) + 1 \notin DOMAIN rest
        /\ \A k \in DOMAIN rest : q[k] = rest[k]
    BY <2>1, <2>2
  <2>5. Once(q)
    BY <1>4, <2>1, <2>3, <2>4 DEF Once
  <2>6. InQueue(q) = InQueue(rest) \cup {t}
    BY <2>1, <2>4 DEF InQueue
  <2>7. queue' = q /\ Waiting' = (Waiting \ {t}) \cup {t}
    BY <1>1, <1>3, <1>6 DEF q
  <2>. QED BY <1>4, <2>1, <2>5, <2>6, <2>7 DEF QueueInv
<1>. QED BY <1>5, <1>6

\* What a page becomes when pages and address change together.
Fresh(p) == PageForm(p) /\ ~p.moved /\ p.item = None /\ p.run = None
Turned(s, p, gone) ==
  \/ p = pages[s]
  \/ Fresh(p) /\ (s \in gone \/ pages[s].itemId = None)
  \/ PageForm(p) /\ p.moved /\ p.itemId # None

LEMMA Renders ==
  ASSUME PageInv, QueueInv, NEW ps, NEW q, NEW loads, NEW gone, NEW ts,
         Render(ps, q, loads, gone, ts), UNCHANGED queue,
         \A s \in Slots : Turned(s, ps[s], gone),
         \A f \in loads : f.slot \in Slots /\ f.what # "near" /\ f.item = ps[f.slot].itemId,
         \A t \in Tasks : TaskSound(ts[t]),
         \A t \in Tasks : Step(ts[t]) \in Dialogs <=> Step(tasks[t]) \in Dialogs
  PROVE  /\ PageInv' /\ QueueInv'
         /\ \A s \in Slots : pages'[s].itemId = ps[s].itemId
         /\ \A t \in Tasks : /\ tasks'[t].slot \in {ts[t].slot, "gone"}
                             /\ tasks'[t].slot \notin gone \ {"gone"}
<1>1. /\ pages' = [s \in Slots |-> [ps[s] EXCEPT !.near = NoQuery]]
      /\ fetches' = Surviving(gone) \cup loads
           \cup {Fetch("near", s, ps[s].itemId) :
                   s \in {r \in Slots : q = NoQuery /\ ps[r].itemId # None}}
      /\ tasks' = [t \in Tasks |-> IF ts[t].slot \in gone THEN Forgotten(ts[t]) ELSE ts[t]]
  BY DEF Render
<1>2. ASSUME NEW s \in Slots
      PROVE  /\ PageSound(pages'[s]) /\ pages'[s].itemId = ps[s].itemId
             /\ pages'[s].moved = ps[s].moved
             /\ s \notin gone =>
                  \/ pages'[s].itemId = pages[s].itemId /\ pages'[s].moved = pages[s].moved
                  \/ ~pages[s].moved /\ pages[s].itemId = None
                  \/ pages'[s].moved
  <2>1. pages'[s] = [ps[s] EXCEPT !.near = NoQuery] /\ PageSound(pages[s]) /\ Turned(s, ps[s], gone)
    BY <1>1 DEF PageInv
  <2>2. PageForm(ps[s]) /\ (~ps[s].moved => {ps[s].item, ps[s].run} \subseteq {ps[s].itemId, None})
        /\ (ps[s].itemId = None => ~ps[s].moved)
    BY <2>1 DEF PageSound, Turned, Fresh
  <2>. DEFINE p == ps[s]
  <2>. HIDE DEF p
  <2>3. PageForm(p) => /\ PageForm([p EXCEPT !.near = NoQuery])
                       /\ [p EXCEPT !.near = NoQuery].itemId = p.itemId
                       /\ [p EXCEPT !.near = NoQuery].item = p.item
                       /\ [p EXCEPT !.near = NoQuery].run = p.run
                       /\ [p EXCEPT !.near = NoQuery].moved = p.moved
                       /\ [p EXCEPT !.near = NoQuery].near = NoQuery
    BY DEF PageForm
  <2>4. PageSound(pages'[s]) /\ pages'[s].itemId = ps[s].itemId /\ pages'[s].moved = ps[s].moved
    BY <2>1, <2>2, <2>3 DEF PageSound, NoQuery, p
  <2>. QED BY <2>1, <2>4 DEF Turned, PageSound
<1>3. ASSUME NEW t \in Tasks
      PROVE  /\ TaskSound(tasks[t])' /\ tasks'[t].slot \in {ts[t].slot, "gone"}
             /\ tasks'[t].slot \notin gone \ {"gone"}
             /\ tasks'[t].todo = ts[t].todo
  <2>1. TaskSound(ts[t])
    OBVIOUS
  <2>2. CASE ts[t].slot \in gone
    <3>1. tasks'[t] = Forgotten(ts[t])
      BY <1>1, <2>2
    <3>2. /\ TaskForm(tasks'[t]) /\ tasks'[t].slot = "gone" /\ tasks'[t].asked = {None}
          /\ tasks'[t].named = {None} /\ tasks'[t].kind = ts[t].kind
          /\ tasks'[t].todo = ts[t].todo
      BY <2>1, <3>1 DEF TaskSound, TaskForm, Forgotten
    <3>. QED BY <3>2 DEF TaskSound, Slots
  <2>3. CASE ts[t].slot \notin gone
    <3>1. tasks'[t] = ts[t]
      BY <1>1, <2>3
    <3>2. ts[t].slot \in Slots /\ ~pages'[ts[t].slot].moved
            => ts[t].asked \subseteq {pages'[ts[t].slot].itemId, None}
      BY <1>2, <2>1, <2>3 DEF TaskSound
    <3>. QED BY <2>1, <2>3, <3>1, <3>2 DEF TaskSound
  <2>. QED BY <2>2, <2>3
<1>4. \A f \in fetches' : LoadSound(f)'
  <2>1. ASSUME NEW f \in Surviving(gone) PROVE LoadSound(f)'
    <3>1. LoadSound(f) /\ f.what # "near" /\ f.slot \in Slots \ gone
      BY <2>1 DEF Surviving, PageInv, LoadSound
    <3>. QED BY <1>2, <3>1 DEF LoadSound
  <2>2. ASSUME NEW f \in loads PROVE LoadSound(f)'
    BY <1>2, <2>2 DEF LoadSound
  <2>3. ASSUME NEW s \in Slots PROVE LoadSound(Fetch("near", s, ps[s].itemId))'
    BY <1>2 DEF LoadSound, Fetch
  <2>. QED BY <1>1, <2>1, <2>2, <2>3
<1>5. DOMAIN pages' = Slots /\ DOMAIN tasks' = Tasks
  BY <1>1
<1>6. PageInv'
  BY <1>2, <1>3, <1>4, <1>5 DEF PageInv
<1>7. Waiting' = Waiting
  BY <1>3 DEF Waiting, Step
<1>. QED BY <1>2, <1>3, <1>6, <1>7 DEF QueueInv
-----------------------------------------------------------------------------
(* Pages are mounted and unmounted *)

LEMMA SetEntityKeeps ==
  ASSUME Inv, NEW i, NEW q, setEntity(i, q), list' = list \/ Left
  PROVE  Inv'
<1>. DEFINE ps == [pages EXCEPT !["panel"] = Shown("panel", i)]
            loads == {Fetch("spin", "panel", i)}
<1>0. PageInv /\ QueueInv /\ ListInv /\ DOMAIN pages = Slots
  BY DEF Inv, PageInv
<1>1. /\ panel' = Shows(i) /\ UNCHANGED queue
      /\ Render(ps, q, loads, Keyed, tasks)
  BY DEF setEntity, answered
<1>2. ps["panel"] = [Absent EXCEPT !.itemId = i, !.loading = TRUE] /\ ps["route"] = pages["route"]
  BY <1>0 DEF Shown, Keyed, Slots
<1>3. Fresh(ps["panel"]) /\ ps["panel"].itemId = i
  BY <1>2 DEF Fresh, PageForm, Absent
<1>4. \A s \in Slots : Turned(s, ps[s], Keyed)
  BY <1>2, <1>3 DEF Turned, Slots, Keyed
<1>5. \A f \in loads : f.slot \in Slots /\ f.what # "near" /\ f.item = ps[f.slot].itemId
  BY <1>3 DEF Fetch, Slots
<1>6. \A t \in Tasks : TaskSound(tasks[t])
  BY <1>0 DEF PageInv
<1>. HIDE DEF ps, loads
<1>7. /\ PageInv' /\ QueueInv'
      /\ \A s \in Slots : pages'[s].itemId = ps[s].itemId
      /\ \A t \in Tasks : tasks'[t].slot \in {tasks[t].slot, "gone"}
  BY <1>0, <1>1, <1>4, <1>5, <1>6, Renders
<1>8. pages'["route"].itemId = pages["route"].itemId
  BY <1>2, <1>7 DEF Slots
<1>9. list' = list
  BY <1>0, <1>8 DEF Left, ListInv
<1>10. PanelForm' /\ panel'.multi = {}
  BY <1>1 DEF PanelForm, Shows
<1>11. ListInv'
  BY <1>0, <1>7, <1>8, <1>9, <1>10 DEF ListInv, ListForm
<1>. QED BY <1>7, <1>11 DEF Inv

LEMMA OpenRouteKeeps ==
  ASSUME Inv, NEW i, i # None, NEW q, openRoute(i, q), Left
  PROVE  Inv'
<1>. DEFINE ps == [s \in Slots |-> Shown(s, i)]
            loads == {Fetch("spin", s, i) : s \in Slots}
            gone == Keyed \cup {"list"}
<1>0. PageInv /\ QueueInv /\ ListInv /\ DOMAIN pages = Slots
  BY DEF Inv, PageInv
<1>1. /\ panel' = Shows(i) /\ UNCHANGED queue
      /\ Render(ps, q, loads, gone, tasks)
  BY DEF openRoute, answered
<1>2. ASSUME NEW s \in Slots PROVE Turned(s, ps[s], gone) /\ ps[s].itemId = i
  <2>1. PageForm(pages[s])
    BY <1>0 DEF PageInv, PageSound
  <2>2. CASE pages[s].itemId = None \/ s \in Keyed
    <3>1. ps[s] = [Absent EXCEPT !.itemId = i, !.loading = TRUE]
      BY <2>2 DEF Shown
    <3>2. Fresh(ps[s]) /\ ps[s].itemId = i
      BY <3>1 DEF Fresh, PageForm, Absent
    <3>. QED BY <2>2, <3>2 DEF Turned
  <2>3. CASE ~(pages[s].itemId = None \/ s \in Keyed)
    <3>1. ps[s] = [pages[s] EXCEPT !.itemId = i, !.loading = TRUE, !.moved = TRUE]
      BY <2>3 DEF Shown, Keyed
    <3>2. PageForm(ps[s]) /\ ps[s].moved /\ ps[s].itemId = i
      BY <2>1, <3>1 DEF PageForm
    <3>. QED BY <3>2 DEF Turned
  <2>. QED BY <2>2, <2>3
<1>3. \A f \in loads : f.slot \in Slots /\ f.what # "near" /\ f.item = ps[f.slot].itemId
  <2>1. ASSUME NEW s \in Slots PROVE Fetch("spin", s, i).item = ps[s].itemId
    BY <1>2 DEF Fetch
  <2>. HIDE DEF ps
  <2>. QED BY <2>1 DEF Fetch
<1>4. \A t \in Tasks : TaskSound(tasks[t])
  BY <1>0 DEF PageInv
<1>. HIDE DEF ps, loads, gone
<1>5. /\ PageInv' /\ QueueInv'
      /\ \A s \in Slots : pages'[s].itemId = ps[s].itemId
      /\ \A t \in Tasks : tasks'[t].slot \notin gone \ {"gone"}
  BY <1>0, <1>1, <1>2, <1>3, <1>4, Renders
<1>6. list' = Unlisted
  BY <1>2, <1>5 DEF Left, Slots
<1>7. PanelForm' /\ panel'.multi = {}
  BY <1>1 DEF PanelForm, Shows
<1>8. ListInv'
  BY <1>5, <1>6, <1>7 DEF ListInv, ListForm, Unlisted, gone
<1>. QED BY <1>5, <1>8 DEF Inv

\* The panel loses its item.
LEMMA PanelEmptied ==
  ASSUME PageInv, QueueInv, NEW multi, NEW tab, NEW ts, WithoutEntity(multi, tab, ts),
         UNCHANGED queue, \A t \in Tasks : TaskSound(ts[t]),
         \A t \in Tasks : Step(ts[t]) \in Dialogs <=> Step(tasks[t]) \in Dialogs
  PROVE  /\ PageInv' /\ QueueInv' /\ PanelForm'
         /\ panel'.multi = multi /\ pages'["panel"].itemId = None
         /\ pages'["route"].itemId = pages["route"].itemId
         /\ \A t \in Tasks : tasks'[t].slot \in {ts[t].slot, "gone"}
<1>. DEFINE ps == [pages EXCEPT !["panel"] = Absent]
            gone == {"panel"}
<1>1. Render(ps, query, {}, gone, ts)
  BY DEF WithoutEntity
<1>2. DOMAIN pages = Slots
  BY DEF PageInv
<1>3. ps["panel"] = Absent /\ ps["route"] = pages["route"]
  BY <1>2 DEF Slots
<1>4. Fresh(Absent) /\ Absent.itemId = None
  BY DEF Fresh, PageForm, Absent
<1>5. \A s \in Slots : Turned(s, ps[s], gone)
  BY <1>3, <1>4 DEF Turned, Slots
<1>. HIDE DEF ps, gone
<1>6. /\ PageInv' /\ QueueInv'
      /\ \A s \in Slots : pages'[s].itemId = ps[s].itemId
      /\ \A t \in Tasks : tasks'[t].slot \in {ts[t].slot, "gone"}
  BY <1>1, <1>5, Renders
<1>7. PanelForm' /\ panel'.multi = multi
  BY DEF WithoutEntity, PanelForm
<1>. QED BY <1>3, <1>4, <1>6, <1>7 DEF Slots

\* The selection goes to the panel.
LEMMA Publishes ==
  ASSUME Inv, NEW selected, publish(selected), UNCHANGED queue
  PROVE  /\ PageInv' /\ QueueInv' /\ PanelForm'
         /\ panel'.multi = selected
         /\ pages'["panel"].itemId # None => selected = {}
         /\ pages'["route"].itemId = pages["route"].itemId
         /\ \A t \in Tasks : tasks'[t].slot \in {tasks[t].slot, "gone"}
<1>0. PageInv /\ QueueInv /\ ListInv /\ \A t \in Tasks : TaskSound(tasks[t])
  BY DEF Inv, PageInv
<1>1. CASE selected # {}
  <2>1. WithoutEntity(selected, panel.tab, tasks)
    BY <1>1 DEF publish
  <2>. QED BY <1>0, <2>1, PanelEmptied
<1>2. CASE selected = {}
  <2>. DEFINE gone == {}
  <2>1. panel' = [panel EXCEPT !.multi = {}, !.busy = {}] /\ Render(pages, query, {}, gone, tasks)
    BY <1>2 DEF publish
  <2>2. PanelForm' /\ panel'.multi = {}
    BY <1>0, <2>1 DEF ListInv, PanelForm
  <2>3. \A s \in Slots : Turned(s, pages[s], gone)
    BY DEF Turned
  <2>. HIDE DEF gone
  <2>4. /\ PageInv' /\ QueueInv'
        /\ \A s \in Slots : pages'[s].itemId = pages[s].itemId
        /\ \A t \in Tasks : tasks'[t].slot \in {tasks[t].slot, "gone"}
    BY <1>0, <2>1, <2>3, Renders
  <2>. QED BY <1>2, <2>2, <2>4 DEF Slots
<1>. QED BY <1>1, <1>2

LEMMA OpenListKeeps ==
  ASSUME Inv, NEW f, openList(f)
  PROVE  Inv'
<1>. DEFINE ps == [pages EXCEPT !["route"] = Absent]
            gone == {"route"}
<1>0. PageInv /\ QueueInv /\ ListInv /\ DOMAIN pages = Slots /\ \A t \in Tasks : TaskSound(tasks[t])
  BY DEF Inv, PageInv
<1>1. /\ Render(ps, NoQuery, {}, gone, tasks) /\ UNCHANGED <<panel, queue>>
      /\ ~list.open /\ list' = Listed(f)
  BY DEF openList, answered
<1>2. ps["route"] = Absent /\ ps["panel"] = pages["panel"]
  BY <1>0 DEF Slots
<1>3. Fresh(Absent) /\ Absent.itemId = None
  BY DEF Fresh, PageForm, Absent
<1>4. \A s \in Slots : Turned(s, ps[s], gone)
  BY <1>2, <1>3 DEF Turned, Slots
<1>. HIDE DEF ps, gone
<1>5. /\ PageInv' /\ QueueInv'
      /\ \A s \in Slots : pages'[s].itemId = ps[s].itemId
  BY <1>0, <1>1, <1>4, Renders
<1>6. pages'["route"].itemId = None
  BY <1>2, <1>3, <1>5 DEF Slots
<1>7. ListForm' /\ list'.open /\ list'.selected = {}
  BY <1>1 DEF ListForm, Listed, Unlisted
<1>8. ListInv'
  BY <1>0, <1>1, <1>6, <1>7 DEF ListInv, PanelForm
<1>. QED BY <1>5, <1>8 DEF Inv

LEMMA EditKeeps ==
  ASSUME Inv, NEW s \in Slots, handleEdit(s), list' = Unlisted
  PROVE  Inv'
<1>. DEFINE ps == [pages EXCEPT !["route"] = Absent]
            gone == {"route", "list"}
<1>0. PageInv /\ QueueInv /\ ListInv /\ DOMAIN pages = Slots /\ \A t \in Tasks : TaskSound(tasks[t])
  BY DEF Inv, PageInv
<1>1. /\ Render(ps, NoQuery, {}, gone, tasks) /\ UNCHANGED <<panel, queue>>
      /\ pages[s].itemId # None
  BY DEF handleEdit, answered, Showing, Clickable
<1>2. ps["route"] = Absent /\ ps["panel"] = pages["panel"]
  BY <1>0 DEF Slots
<1>3. Fresh(Absent) /\ Absent.itemId = None
  BY DEF Fresh, PageForm, Absent
<1>4. \A r \in Slots : Turned(r, ps[r], gone)
  BY <1>2, <1>3 DEF Turned, Slots
<1>5. panel.multi = {}
  BY <1>0, <1>1 DEF ListInv, Slots
<1>. HIDE DEF ps, gone
<1>6. /\ PageInv' /\ QueueInv'
      /\ \A r \in Slots : pages'[r].itemId = ps[r].itemId
      /\ \A t \in Tasks : tasks'[t].slot \notin gone \ {"gone"}
  BY <1>0, <1>1, <1>4, Renders
<1>7. pages'["route"].itemId = None
  BY <1>2, <1>3, <1>6 DEF Slots
<1>8. ListForm' /\ list'.items = {} /\ list'.selected = {} /\ list' = Unlisted
  BY DEF ListForm, Unlisted
<1>9. ListInv'
  BY <1>0, <1>1, <1>5, <1>6, <1>7, <1>8 DEF ListInv, PanelForm, gone
<1>. QED BY <1>6, <1>9 DEF Inv

-----------------------------------------------------------------------------
(* Loads *)

\* What an answer changes of a page.
Same(new, p) == new.itemId = p.itemId /\ new.moved = p.moved /\ PageForm(new)
LoadedPage(p, i, r, busy) == [p EXCEPT !.item = i, !.run = r, !.loading = busy]
NearPage(p, near) == [p EXCEPT !.near = near]
BusyPage(p, busy) == [p EXCEPT !.loading = busy]
RunPage(p, r) == [p EXCEPT !.run = r]
ItemPage(p, i) == [p EXCEPT !.item = i]
LEMMA PageChanged ==
  ASSUME NEW p, PageForm(p), NEW i, NEW r, NEW near, NEW busy
  PROVE  /\ Same(LoadedPage(p, i, r, busy), p) /\ LoadedPage(p, i, r, busy).near = p.near
         /\ LoadedPage(p, i, r, busy).item = i /\ LoadedPage(p, i, r, busy).run = r
         /\ Same(NearPage(p, near), p) /\ NearPage(p, near).near = near
         /\ NearPage(p, near).item = p.item /\ NearPage(p, near).run = p.run
         /\ Same(BusyPage(p, busy), p) /\ BusyPage(p, busy).near = p.near
         /\ BusyPage(p, busy).item = p.item /\ BusyPage(p, busy).run = p.run
         /\ Same(RunPage(p, r), p) /\ RunPage(p, r).near = p.near
         /\ RunPage(p, r).item = p.item /\ RunPage(p, r).run = r
         /\ Same(ItemPage(p, i), p) /\ ItemPage(p, i).near = p.near
         /\ ItemPage(p, i).item = i /\ ItemPage(p, i).run = p.run
<1>1. \A a, b : PageForm(a) =>
        /\ Same(RunPage(a, b), a) /\ RunPage(a, b).near = a.near
        /\ RunPage(a, b).item = a.item /\ RunPage(a, b).run = b
  BY DEF PageForm, Same, RunPage
<1>2. \A a, b : PageForm(a) =>
        /\ Same(ItemPage(a, b), a) /\ ItemPage(a, b).near = a.near
        /\ ItemPage(a, b).item = b /\ ItemPage(a, b).run = a.run
  BY DEF PageForm, Same, ItemPage
<1>3. \A a, b : PageForm(a) =>
        /\ Same(BusyPage(a, b), a) /\ BusyPage(a, b).near = a.near
        /\ BusyPage(a, b).item = a.item /\ BusyPage(a, b).run = a.run
  BY DEF PageForm, Same, BusyPage
<1>4. /\ Same(NearPage(p, near), p) /\ NearPage(p, near).near = near
      /\ NearPage(p, near).item = p.item /\ NearPage(p, near).run = p.run
  BY DEF PageForm, Same, NearPage
<1>5. LoadedPage(p, i, r, busy) = BusyPage(RunPage(ItemPage(p, i), r), busy)
  BY DEF LoadedPage, BusyPage, RunPage, ItemPage
<1>6. PageForm(ItemPage(p, i)) /\ PageForm(RunPage(ItemPage(p, i), r))
  BY <1>1, <1>2 DEF Same
<1>. QED BY <1>1, <1>2, <1>3, <1>4, <1>5, <1>6 DEF Same

\* What a page shows is replaced.
Becomes(s, p) == DOMAIN pages' = Slots /\ pages'[s] = p /\ \A r \in Slots \ {s} : pages'[r] = pages[r]
LEMMA PageReplaced ==
  ASSUME Inv, NEW s \in Slots, NEW p, PageSound(p), p.itemId = pages[s].itemId,
         p.moved = pages[s].moved, Becomes(s, p),
         UNCHANGED <<panel, work, list>>, \A f \in fetches' : LoadSound(f)
  PROVE  Inv'
<1>0. PageInv /\ QueueInv /\ ListInv /\ DOMAIN pages' = Slots /\ UNCHANGED <<tasks, queue>>
  BY DEF Inv, work, Becomes
<1>1. \A r \in Slots : /\ PageSound(pages'[r]) /\ pages'[r].itemId = pages[r].itemId
                       /\ pages'[r].moved = pages[r].moved
  BY <1>0 DEF PageInv, Becomes
<1>2. PageInv'
  <2>1. DOMAIN pages' = Slots /\ DOMAIN tasks' = Tasks /\ \A t \in Tasks : TaskSound(tasks'[t])
    BY <1>0 DEF PageInv
  <2>. QED BY <1>0, <1>1, <2>1, PageKeeps
<1>3. QueueInv'
  BY <1>0 DEF QueueInv, Waiting, Step, Once, InQueue
<1>4. ListInv'
  BY <1>0, <1>1 DEF ListInv, Slots, PanelForm, ListForm
<1>. QED BY <1>2, <1>3, <1>4 DEF Inv

LEMMA LoadKeeps ==
  ASSUME Inv, NEW f \in fetches, FinishLoad(f) \/ fetchNeighbors(f), UNCHANGED list
  PROVE  Inv'
<1>. DEFINE p == pages[f.slot]
<1>0. /\ LoadSound(f) /\ f.slot \in Slots /\ PageSound(p) /\ \A g \in fetches : LoadSound(g)
      /\ DOMAIN pages = Slots
  BY DEF Inv, PageInv, LoadSound
<1>1. CASE FinishLoad(f)
  <2>0. PICK i \in {f.item, None} : \E r \in {i, None} :
          pages' = Land(f.slot, [p EXCEPT !.item = i, !.run = r,
                                          !.loading = @ /\ f.what # "spin"])
    BY <1>1 DEF FinishLoad
  <2>1. PICK r \in {i, None} :
          pages' = Land(f.slot, [p EXCEPT !.item = i, !.run = r,
                                          !.loading = @ /\ f.what # "spin"])
    BY <2>0
  <2>. DEFINE new == [p EXCEPT !.item = i, !.run = r, !.loading = @ /\ f.what # "spin"]
  <2>2. Becomes(f.slot, new)
    BY <1>0, <2>1 DEF Land, Becomes
  <2>3. /\ UNCHANGED <<panel, work>> /\ \A g \in fetches' : LoadSound(g)
        /\ f.what # "near"
    BY <1>0, <1>1 DEF FinishLoad
  <2>4. ~p.moved => {i, r} \subseteq {p.itemId, None}
    BY <1>0, <2>3 DEF LoadSound
  <2>5. /\ PageForm(new) /\ new.itemId = p.itemId /\ new.moved = p.moved /\ new.near = p.near
        /\ new.item = i /\ new.run = r
    <3>1. new = LoadedPage(p, i, r, new.loading)
      BY DEF LoadedPage
    <3>. HIDE DEF new
    <3>. QED BY <1>0, <3>1, PageChanged DEF PageSound, Same
  <2>. HIDE DEF new
  <2>6. PageSound(new)
    BY <1>0, <2>4, <2>5 DEF PageSound
  <2>. QED BY <1>0, <2>2, <2>3, <2>5, <2>6, PageReplaced
<1>2. CASE fetchNeighbors(f)
  <2>1. UNCHANGED <<panel, work>> /\ (\A g \in fetches' : LoadSound(g)) /\ f.what = "near"
    BY <1>0, <1>2 DEF fetchNeighbors
  <2>2. CASE pages' = pages
    <3>1. Becomes(f.slot, p)
      BY <1>0, <2>2 DEF Becomes
    <3>. QED BY <1>0, <2>1, <3>1, PageReplaced
  <2>3. CASE pages' # pages
    <3>1. PICK filter \in Filters \cup {NoFilter} :
            pages' = Land(f.slot, [p EXCEPT !.near = Adjacent(f.item, Rows(filter))])
      BY <1>2, <2>3 DEF fetchNeighbors
    <3>. DEFINE near == Adjacent(f.item, Rows(filter))
                new == [p EXCEPT !.near = near]
    <3>2. Becomes(f.slot, new)
      BY <1>0, <3>1 DEF Land, Becomes
    <3>3. f.item = p.itemId
      BY <1>0, <2>1 DEF LoadSound
    <3>4. near.prev \in {None} \cup 1 .. p.itemId - 1 /\ near.next \in {None} \cup p.itemId + 1 .. LastItem
      BY <3>3, Neighbours, RowsAreItems
    <3>. HIDE DEF near
    <3>5. /\ PageForm(new) /\ new.itemId = p.itemId /\ new.moved = p.moved /\ new.near = near
          /\ new.item = p.item /\ new.run = p.run
      <4>1. new = NearPage(p, near)
        BY DEF NearPage
      <4>. HIDE DEF new
      <4>. QED BY <1>0, <4>1, PageChanged DEF PageSound, Same
    <3>. HIDE DEF new
    <3>6. PageSound(new)
      BY <1>0, <3>4, <3>5 DEF PageSound
    <3>. QED BY <1>0, <2>1, <3>2, <3>5, <3>6, PageReplaced
  <2>. QED BY <2>2, <2>3
<1>. QED BY <1>1, <1>2

LEMMA InstanceKeeps ==
  ASSUME Inv, NEW s \in Slots, handleInstanceNavigation(s), Left
  PROVE  Inv'
<1>0. 0 \notin Items
  BY DetailAssumption DEF Items
<1>1. CASE \E i \in Items : setEntity(i, query)
  BY <1>1, SetEntityKeeps
<1>2. CASE \E i \in Items : openRoute(i, NoQuery)
  BY <1>0, <1>2, OpenRouteKeeps DEF None
<1>3. CASE /\ Clickable(s)
           /\ fetches' = fetches \cup {Fetch("spin", s, pages[s].itemId)}
           /\ pages' = [pages EXCEPT ![s].loading = TRUE]
           /\ UNCHANGED <<panel, query, work>>
  <2>. DEFINE new == [pages[s] EXCEPT !.loading = TRUE]
  <2>0. /\ PageSound(pages[s]) /\ DOMAIN pages = Slots /\ ListInv
        /\ \A f \in fetches : LoadSound(f)
    BY DEF Inv, PageInv
  <2>1. /\ PageForm(new) /\ new.itemId = pages[s].itemId /\ new.moved = pages[s].moved
        /\ new.near = pages[s].near /\ new.item = pages[s].item /\ new.run = pages[s].run
    <3>1. new = BusyPage(pages[s], new.loading)
      BY <2>0 DEF BusyPage, PageSound, PageForm
    <3>. HIDE DEF new
    <3>. QED BY <2>0, <3>1, PageChanged DEF PageSound, Same
  <2>2. Becomes(s, new)
    BY <1>3, <2>0 DEF Becomes
  <2>. HIDE DEF new
  <2>3. PageSound(new)
    BY <2>0, <2>1 DEF PageSound
  <2>4. LoadSound(Fetch("spin", s, pages[s].itemId))
    BY DEF LoadSound, Fetch
  <2>5. \A f \in fetches' : LoadSound(f)
    BY <1>3, <2>0, <2>4
  <2>6. pages'["route"].itemId = pages["route"].itemId
    BY <2>0, <2>1, <2>2 DEF Slots, Becomes
  <2>7. UNCHANGED list
    BY <2>0, <2>6 DEF Left, ListInv
  <2>. QED BY <1>3, <2>1, <2>2, <2>3, <2>5, <2>7, PageReplaced
<1>. QED BY <1>1, <1>2, <1>3 DEF handleInstanceNavigation

LEMMA NavigationKeeps ==
  ASSUME Inv, NEW s \in Slots, handleNeighborNavigation(s), Left
  PROVE  Inv'
<1>1. ASSUME NEW i, Browse(s, i) PROVE Inv'
  BY <1>1, SetEntityKeeps, OpenRouteKeeps DEF Browse
<1>. QED BY <1>1 DEF handleNeighborNavigation

-----------------------------------------------------------------------------
(* Handlers go on *)

\* The queue allows a step of handler t that leaves it as rest.
Leaves(t, rest) ==
  \/ rest = queue /\ t \notin Waiting
  \/ queue # <<>> /\ rest = Tail(queue) /\ t = Head(queue)

LEMMA Goes ==
  ASSUME Inv, NEW t \in Tasks, NEW tk, TaskSound(tk), tk.slot = "list" => list.open,
         NEW todo, NEW rest, NEW known, Proceed(t, tk, todo, rest, known), Leaves(t, rest),
         DOMAIN pages' = Slots,
         \A s \in Slots : /\ PageSound(pages'[s]) /\ pages'[s].itemId = pages[s].itemId
                          /\ pages'[s].moved = pages[s].moved,
         \A f \in fetches' : LoadSound(f), UNCHANGED list, PanelForm', panel'.multi = panel.multi
  PROVE  Inv'
<1>0. PageInv /\ QueueInv /\ ListInv /\ DOMAIN tasks = Tasks
  BY DEF Inv, PageInv
<1>1. /\ DOMAIN tasks' = Tasks /\ TaskSound(tasks'[t])
      /\ tasks'[t].slot \in {tk.slot, "gone"}
      /\ \A u \in Tasks \ {t} : tasks'[u] = tasks[u]
  BY <1>0, Advances
<1>2. QueueInv'
  BY <1>0, Queues DEF Leaves
<1>3. \A u \in Tasks : TaskSound(tasks'[u])
  BY <1>0, <1>1 DEF PageInv
<1>4. PageInv'
  BY <1>0, <1>1, <1>3, PageKeeps
<1>5. \A u \in Tasks : tasks'[u].slot = "list" => list.open
  BY <1>0, <1>1 DEF ListInv
<1>6. ListInv'
  BY <1>0, <1>5 DEF ListInv, ListForm, Slots
<1>. QED BY <1>2, <1>4, <1>6 DEF Inv

LEMMA GoesOn ==
  ASSUME Inv, NEW t \in Tasks, NEW tk, TaskSound(tk), tk.slot = "list" => list.open,
         NEW todo, NEW rest, NEW known, Proceed(t, tk, todo, rest, known), Leaves(t, rest),
         UNCHANGED <<pages, fetches, list>>, panel' = panel \/ Released(t) \/ panel' = [panel EXCEPT !.busy = {t}]
  PROVE  Inv'
<1>1. /\ DOMAIN pages' = Slots
      /\ \A s \in Slots : /\ PageSound(pages'[s]) /\ pages'[s].itemId = pages[s].itemId
                          /\ pages'[s].moved = pages[s].moved
      /\ \A f \in fetches' : LoadSound(f)
  BY DEF Inv, PageInv
<1>2. PanelForm' /\ panel'.multi = panel.multi
  BY DEF Inv, ListInv, PanelForm, Released
<1>. QED BY <1>1, <1>2, Goes

LEMMA IdleDoesNotWait == ASSUME NEW t \in Tasks, tasks[t] = Idle PROVE t \notin Waiting
BY IdleTask DEF Waiting

\* A handler as it is started.
WithKind(tk, x) == [tk EXCEPT !.kind = x]
WithSlot(tk, x) == [tk EXCEPT !.slot = x]
WithAsked(tk, x) == [tk EXCEPT !.asked = x]
WithNamed(tk, x) == [tk EXCEPT !.named = x]
WithTodo(tk, x) == [tk EXCEPT !.todo = x]
WithPositive(tk, x) == [tk EXCEPT !.positive = x]

LEMMA Starts ==
  ASSUME NEW tk, TaskForm(tk), NEW x
  PROVE  /\ TaskForm(WithKind(tk, x)) /\ WithKind(tk, x).kind = x
         /\ WithKind(tk, x).slot = tk.slot /\ WithKind(tk, x).asked = tk.asked
         /\ WithKind(tk, x).named = tk.named
         /\ TaskForm(WithSlot(tk, x)) /\ WithSlot(tk, x).slot = x
         /\ WithSlot(tk, x).kind = tk.kind /\ WithSlot(tk, x).asked = tk.asked
         /\ WithSlot(tk, x).named = tk.named
         /\ TaskForm(WithAsked(tk, x)) /\ WithAsked(tk, x).asked = x
         /\ WithAsked(tk, x).kind = tk.kind /\ WithAsked(tk, x).slot = tk.slot
         /\ WithAsked(tk, x).named = tk.named
         /\ TaskForm(WithNamed(tk, x)) /\ WithNamed(tk, x).named = x
         /\ WithNamed(tk, x).kind = tk.kind /\ WithNamed(tk, x).slot = tk.slot
         /\ WithNamed(tk, x).asked = tk.asked
         /\ TaskForm(WithTodo(tk, x)) /\ WithTodo(tk, x).kind = tk.kind
         /\ WithTodo(tk, x).slot = tk.slot /\ WithTodo(tk, x).asked = tk.asked
         /\ WithTodo(tk, x).named = tk.named
         /\ TaskForm(WithPositive(tk, x)) /\ WithPositive(tk, x).kind = tk.kind
         /\ WithPositive(tk, x).slot = tk.slot /\ WithPositive(tk, x).asked = tk.asked
         /\ WithPositive(tk, x).named = tk.named
<1>1. /\ TaskForm(WithKind(tk, x)) /\ WithKind(tk, x).kind = x
      /\ WithKind(tk, x).slot = tk.slot /\ WithKind(tk, x).asked = tk.asked
      /\ WithKind(tk, x).named = tk.named
  BY DEF TaskForm, WithKind
<1>2. /\ TaskForm(WithSlot(tk, x)) /\ WithSlot(tk, x).slot = x
      /\ WithSlot(tk, x).kind = tk.kind /\ WithSlot(tk, x).asked = tk.asked
      /\ WithSlot(tk, x).named = tk.named
  BY DEF TaskForm, WithSlot
<1>3. /\ TaskForm(WithAsked(tk, x)) /\ WithAsked(tk, x).asked = x
      /\ WithAsked(tk, x).kind = tk.kind /\ WithAsked(tk, x).slot = tk.slot
      /\ WithAsked(tk, x).named = tk.named
  BY DEF TaskForm, WithAsked
<1>4. /\ TaskForm(WithNamed(tk, x)) /\ WithNamed(tk, x).named = x
      /\ WithNamed(tk, x).kind = tk.kind /\ WithNamed(tk, x).slot = tk.slot
      /\ WithNamed(tk, x).asked = tk.asked
  BY DEF TaskForm, WithNamed
<1>5. /\ TaskForm(WithTodo(tk, x)) /\ WithTodo(tk, x).kind = tk.kind
      /\ WithTodo(tk, x).slot = tk.slot /\ WithTodo(tk, x).asked = tk.asked
      /\ WithTodo(tk, x).named = tk.named
  BY DEF TaskForm, WithTodo
<1>6. /\ TaskForm(WithPositive(tk, x)) /\ WithPositive(tk, x).kind = tk.kind
      /\ WithPositive(tk, x).slot = tk.slot /\ WithPositive(tk, x).asked = tk.asked
      /\ WithPositive(tk, x).named = tk.named
  BY DEF TaskForm, WithPositive
<1>. QED BY <1>1, <1>2, <1>3, <1>4, <1>5, <1>6

LEMMA AskKeeps ==
  ASSUME Inv, NEW t \in Tasks, NEW s \in Slots, NEW kind, ask(t, s, kind), UNCHANGED list
  PROVE  Inv'
<1>. DEFINE p == pages[s]
            tk == [Idle EXCEPT !.kind = kind, !.slot = s, !.asked = {p.itemId},
                               !.named = Names(kind, p), !.todo = Steps(kind)]
<1>1. /\ ~p.moved /\ kind \notin Bulk /\ p.item # None /\ PageSound(p)
      /\ kind \in {"review", "cancel", "delete", "link"} => p.run # None
      /\ tasks[t] = Idle /\ Proceed(t, tk, tk.todo, queue, user) /\ UNCHANGED detail
  BY DEF ask, Showing, Offered, Begin, Inv, PageInv
<1>2. p.item = p.itemId /\ Names(kind, p) \subseteq {p.itemId}
  BY <1>1 DEF PageSound, Names
<1>3. /\ TaskForm(tk) /\ tk.kind = kind /\ tk.slot = s /\ tk.asked = {p.itemId}
      /\ tk.named = Names(kind, p)
  <2>1. tk = WithTodo(WithNamed(WithAsked(WithSlot(WithKind(Idle, kind), s), {p.itemId}),
                                Names(kind, p)), Steps(kind))
    BY DEF WithKind, WithSlot, WithAsked, WithNamed, WithTodo
  <2>. HIDE DEF tk
  <2>. QED BY <2>1, IdleTask, Starts DEF TaskSound
<1>. HIDE DEF tk
<1>4. TaskSound(tk) /\ tk.slot # "list"
  BY <1>1, <1>2, <1>3 DEF TaskSound, Slots
<1>5. Leaves(t, queue)
  BY <1>1, IdleDoesNotWait DEF Leaves
<1>. QED BY <1>1, <1>4, <1>5, GoesOn DEF detail

LEMMA RefuseEditKeeps ==
  ASSUME Inv, NEW t \in Tasks, NEW s \in Slots, refuseEdit(t, s), UNCHANGED list
  PROVE  Inv'
<1>. DEFINE tk == [Idle EXCEPT !.kind = "edit", !.slot = s, !.todo = <<"alert">>]
<1>1. tasks[t] = Idle /\ Proceed(t, tk, tk.todo, queue, user) /\ UNCHANGED detail
  BY DEF refuseEdit, Begin
<1>2. /\ TaskForm(tk) /\ tk.kind = "edit" /\ tk.slot = s /\ tk.asked = {None}
      /\ tk.named = {None}
  <2>1. tk = WithTodo(WithSlot(WithKind(Idle, "edit"), s), <<"alert">>)
    BY DEF WithKind, WithSlot, WithTodo
  <2>2. Idle.asked = {None} /\ Idle.named = {None}
    BY DEF Idle
  <2>. HIDE DEF tk
  <2>. QED BY <2>1, <2>2, IdleTask, Starts DEF TaskSound
<1>. HIDE DEF tk
<1>3. TaskSound(tk) /\ tk.slot # "list"
  BY <1>2 DEF TaskSound, Slots, Bulk
<1>4. Leaves(t, queue)
  BY <1>1, IdleDoesNotWait DEF Leaves
<1>. QED BY <1>1, <1>3, <1>4, GoesOn DEF detail

LEMMA AskBulkKeeps ==
  ASSUME Inv, NEW t \in Tasks, NEW kind \in Bulk, askBulk(t, kind)
  PROVE  Inv'
<1>1. PICK named \in IF kind = "kiStop" THEN SUBSET panel.multi ELSE {panel.multi} :
        Begin(t, [Idle EXCEPT !.kind = kind, !.slot = "list", !.asked = list.items,
                              !.named = named, !.todo = BulkSteps(kind, named),
                              !.positive = kind \notin OneByOne])
  BY DEF askBulk
<1>. DEFINE tk == [Idle EXCEPT !.kind = kind, !.slot = "list", !.asked = list.items,
                               !.named = named, !.todo = BulkSteps(kind, named),
                               !.positive = kind \notin OneByOne]
<1>2. tasks[t] = Idle /\ Proceed(t, tk, tk.todo, queue, user)
  BY <1>1 DEF Begin
<1>3. /\ TaskForm(tk) /\ tk.kind = kind /\ tk.slot = "list" /\ tk.asked = list.items
      /\ tk.named = named
  <2>1. tk = WithPositive(WithTodo(WithNamed(WithAsked(WithSlot(WithKind(Idle, kind), "list"),
               list.items), named), BulkSteps(kind, named)), kind \notin OneByOne)
    BY DEF WithKind, WithSlot, WithAsked, WithNamed, WithTodo, WithPositive
  <2>. HIDE DEF tk
  <2>. QED BY <2>1, IdleTask, Starts DEF TaskSound
<1>. HIDE DEF tk
<1>4. named \subseteq list.items
  BY DEF Inv, ListInv
<1>5. TaskSound(tk)
  BY <1>3, <1>4 DEF TaskSound, Slots
<1>6. Leaves(t, queue)
  BY <1>2, IdleDoesNotWait DEF Leaves
<1>7. list.open /\ panel' = [panel EXCEPT !.busy = {t}] /\ UNCHANGED <<pages, fetches, list>>
  BY DEF askBulk
<1>. QED BY <1>2, <1>5, <1>6, <1>7, GoesOn

\* The handler that waits first in the queue got its answer.
LEMMA ResolvedKeeps ==
  ASSUME Inv, queue # <<>>, NEW tk, NEW todo, NEW known, Resolved(todo, tk, known), UNCHANGED list,
         \/ tk = tasks[Head(queue)]
         \/ tk = [tasks[Head(queue)] EXCEPT !.positive = FALSE]
  PROVE  Inv'
<1>. DEFINE t == Head(queue)
<1>1. t \in Tasks
  BY HeadTailProperties DEF Inv, QueueInv
<1>2. TaskSound(tasks[t]) /\ (tasks[t].slot = "list" => list.open)
  BY <1>1 DEF Inv, PageInv, ListInv
<1>. /\ Proceed(t, tk, todo, Tail(queue), known) /\ Released(t) /\ UNCHANGED <<pages, fetches>>
     /\ tk = tasks[t] \/ tk = [tasks[t] EXCEPT !.positive = FALSE]
  BY DEF Resolved, removeActiveRequest
<1>3. Leaves(t, Tail(queue))
  BY DEF Leaves
<1>. HIDE DEF t
<1>4. TaskSound(tk) /\ (tk.slot = "list" => list.open)
  <2>1. CASE tk = tasks[t]
    BY <1>2, <2>1
  <2>2. CASE tk = [tasks[t] EXCEPT !.positive = FALSE]
    <3>1. tk = WithPositive(tasks[t], tk.positive)
      BY <1>2, <2>2 DEF WithPositive, TaskSound, TaskForm
    <3>2. /\ TaskForm(tk) /\ tk.kind = tasks[t].kind /\ tk.slot = tasks[t].slot
          /\ tk.asked = tasks[t].asked /\ tk.named = tasks[t].named
      BY <1>2, <3>1, Starts DEF TaskSound
    <3>. QED BY <1>2, <3>2 DEF TaskSound
  <2>. QED BY <2>1, <2>2
<1>. QED BY <1>1, <1>3, <1>4, GoesOn

LEMMA AnswerKeeps ==
  ASSUME Inv, handleConfirm \/ handleReject \/ handleCancel, UNCHANGED list
  PROVE  Inv'
<1>. DEFINE tk == tasks[Head(queue)]
<1>1. CASE handleConfirm
  BY <1>1, ResolvedKeeps DEF handleConfirm, Nameless
<1>2. CASE handleReject
  BY <1>2, ResolvedKeeps DEF handleReject
<1>3. CASE handleCancel
  BY <1>3, ResolvedKeeps DEF handleCancel, Nameless
<1>. QED BY <1>1, <1>2, <1>3

LEMMA ModalKeeps ==
  ASSUME Inv, NEW t \in Tasks, handleSpecFieldModal(t), UNCHANGED list
  PROVE  Inv'
<1>1. TaskSound(tasks[t]) /\ (tasks[t].slot = "list" => list.open)
  BY DEF Inv, PageInv, ListInv
<1>2. /\ Step(tasks[t]) = "modal" /\ UNCHANGED detail
      /\ \/ Proceed(t, tasks[t], Tail(tasks[t].todo), queue, user)
         \/ Proceed(t, Idle, <<>>, queue, user)
  BY DEF handleSpecFieldModal, End
<1>3. Leaves(t, queue)
  BY <1>2 DEF Leaves, Waiting, Dialogs
<1>4. TaskSound(Idle) /\ Idle.slot # "list"
  BY IdleTask
<1>. QED BY <1>1, <1>2, <1>3, <1>4, GoesOn DEF detail

\* What the answers of the server have in common: they put a run or an item that the
\* handler named into its page, or nothing, or load the item it was asked about.
Puts(t) ==
  \/ pages' = pages
  \/ \E r \in tasks[t].named \cup {None} : setAgentic(tasks[t], r) \/ setItem(tasks[t], r)
Reads(t) ==
  \/ fetches' = fetches
  \/ fetches' = fetches \cup {Fetch("quiet", tasks[t].slot, i) : i \in tasks[t].asked \ {None}}
Moves(t) ==
  \/ Proceed(t, Idle, <<>>, queue, user)
  \/ \E todo : Proceed(t, tasks[t], todo, queue, user)
Answer(t) ==
  /\ tasks[t].kind \notin Bulk /\ Step(tasks[t]) \notin Dialogs
  /\ Puts(t) /\ Reads(t) /\ Moves(t)

LEMMA Asks ==
  ASSUME NEW t, NEW kinds, NEW step, Asking(t, kinds, step), kinds \cap Bulk = {},
         step \notin Dialogs
  PROVE  tasks[t].kind \notin Bulk /\ Step(tasks[t]) \notin Dialogs
BY DEF Asking

LEMMA Parts ==
  ASSUME NEW t, NEW todo
  PROVE  /\ Carries(t, todo) => Puts(t) /\ Reads(t) /\ Moves(t)
         /\ Continues(t, todo) => Puts(t) /\ Reads(t) /\ Moves(t)
         /\ ReloadsAsked(t) => Puts(t) /\ Reads(t) /\ Moves(t)
         /\ End(t) => Moves(t)
         /\ Proceed(t, tasks[t], todo, queue, user) => Moves(t)
         /\ setAgentic(tasks[t], None) => Puts(t)
         /\ \A r \in tasks[t].named : setAgentic(tasks[t], r) \/ setItem(tasks[t], r) => Puts(t)
         /\ UNCHANGED fetches => Reads(t)
<1>1. /\ End(t) => Moves(t)
      /\ Proceed(t, tasks[t], todo, queue, user) => Moves(t)
      /\ setAgentic(tasks[t], None) => Puts(t)
      /\ \A r \in tasks[t].named : setAgentic(tasks[t], r) \/ setItem(tasks[t], r) => Puts(t)
      /\ UNCHANGED fetches => Reads(t)
      /\ UNCHANGED pages => Puts(t)
  BY DEF End, Moves, Puts, Reads
<1>2. Carries(t, todo) => Puts(t) /\ Reads(t) /\ Moves(t)
  BY <1>1 DEF Carries
<1>3. Continues(t, todo) => Puts(t) /\ Reads(t) /\ Moves(t)
  BY <1>1 DEF Continues
<1>4. ReloadsAsked(t) => Puts(t) /\ Reads(t) /\ Moves(t)
  BY <1>1 DEF ReloadsAsked, Reads
<1>. QED BY <1>1, <1>2, <1>3, <1>4

LEMMA Answers ==
  ASSUME NEW t \in Tasks, Reply(t)
  PROVE  Answer(t)
<1>0. \A step \in {"post", "refresh", "trigger", "cancelRun", "parts"} : step \notin Dialogs
  BY DEF Dialogs
<1>1. \A kind \in Agentic \cup Others : {kind} \cap Bulk = {}
  BY DEF Agentic, Others, Bulk
<1>2. {"review", "start", "restart", "rework", "cancel", "close", "delete", "link", "shop",
       "add", "remove", "media"} \subseteq Agentic \cup Others
  BY DEF Agentic, Others
<1>3. ASSUME handleAgenticReview(t) PROVE Answer(t)
  <2>1. Asking(t, {"review"}, "post") /\ {"review"} \cap Bulk = {}
    BY <1>1, <1>2, <1>3 DEF handleAgenticReview
  <2>2. Puts(t) /\ Reads(t) /\ Moves(t)
    BY <1>3, Parts DEF handleAgenticReview
  <2>. QED BY <1>0, <2>1, <2>2, Asks DEF Answer
<1>4. ASSUME handleAgenticStart(t) PROVE Answer(t)
  <2>1. \E step \in {"post", "refresh"} : Asking(t, {"start"}, step)
    BY <1>4 DEF handleAgenticStart
  <2>2. {"start"} \cap Bulk = {}
    BY <1>1, <1>2
  <2>3. Puts(t) /\ Reads(t) /\ Moves(t)
    BY <1>4, Parts DEF handleAgenticStart
  <2>. QED BY <1>0, <2>1, <2>2, <2>3, Asks DEF Answer
<1>5. ASSUME handleAgenticRestart(t) PROVE Answer(t)
  <2>1. Asking(t, {"restart"}, "post") /\ {"restart"} \cap Bulk = {}
    BY <1>1, <1>2, <1>5 DEF handleAgenticRestart
  <2>2. Puts(t) /\ Reads(t) /\ Moves(t)
    BY <1>5, Parts DEF handleAgenticRestart
  <2>. QED BY <1>0, <2>1, <2>2, Asks DEF Answer
<1>6. ASSUME TriggerRestarted(t) PROVE Answer(t)
  <2>1. \E step \in {"trigger", "cancelRun"} : Asking(t, {"restart"}, step)
    BY <1>6 DEF TriggerRestarted
  <2>2. {"restart"} \cap Bulk = {}
    BY <1>1, <1>2
  <2>3. Puts(t) /\ Reads(t) /\ Moves(t)
    BY <1>6, Parts DEF TriggerRestarted
  <2>. QED BY <1>0, <2>1, <2>2, <2>3, Asks DEF Answer
<1>7. ASSUME NEW kind \in {"rework", "cancel", "close", "link"}, ShowsRun(t, kind)
      PROVE  Answer(t)
  <2>1. Asking(t, {kind}, "post") /\ {kind} \cap Bulk = {}
    BY <1>1, <1>2, <1>7 DEF ShowsRun
  <2>2. Puts(t) /\ Reads(t) /\ Moves(t)
    BY <1>7, Parts DEF ShowsRun
  <2>. QED BY <1>0, <2>1, <2>2, Asks DEF Answer
<1>8. ASSUME handleAgenticDelete(t) PROVE Answer(t)
  <2>1. Asking(t, {"delete"}, "post") /\ {"delete"} \cap Bulk = {}
    BY <1>1, <1>2, <1>8 DEF handleAgenticDelete
  <2>2. Puts(t) /\ Reads(t) /\ Moves(t)
    BY <1>8, Parts DEF handleAgenticDelete
  <2>. QED BY <1>0, <2>1, <2>2, Asks DEF Answer
<1>9. ASSUME handleRemoveItem(t) PROVE Answer(t)
  <2>1. \E step \in {"post", "parts"} : Asking(t, {"remove"}, step)
    BY <1>9 DEF handleRemoveItem
  <2>2. {"remove"} \cap Bulk = {}
    BY <1>1, <1>2
  <2>3. Puts(t) /\ Reads(t) /\ Moves(t)
    BY <1>9, Parts DEF handleRemoveItem
  <2>. QED BY <1>0, <2>1, <2>2, <2>3, Asks DEF Answer
<1>10. ASSUME handleShopStatus(t) PROVE Answer(t)
  <2>1. Asking(t, {"shop"}, "post") /\ {"shop"} \cap Bulk = {}
    BY <1>1, <1>2, <1>10 DEF handleShopStatus
  <2>2. Puts(t) /\ Reads(t) /\ Moves(t)
    BY <1>10, Parts DEF handleShopStatus
  <2>. QED BY <1>0, <2>1, <2>2, Asks DEF Answer
<1>11. ASSUME handleAddItem(t) PROVE Answer(t)
  <2>1. Asking(t, {"add"}, "post") /\ {"add"} \cap Bulk = {}
    BY <1>1, <1>2, <1>11 DEF handleAddItem
  <2>2. Puts(t) /\ Reads(t) /\ Moves(t)
    BY <1>11, Parts DEF handleAddItem
  <2>. QED BY <1>0, <2>1, <2>2, Asks DEF Answer
<1>12. ASSUME persistMediaUpdate(t) PROVE Answer(t)
  <2>1. Asking(t, {"media"}, "post") /\ {"media"} \cap Bulk = {}
    BY <1>1, <1>2, <1>12 DEF persistMediaUpdate
  <2>2. Puts(t) /\ Reads(t) /\ Moves(t)
    BY <1>12, Parts DEF persistMediaUpdate
  <2>. QED BY <1>0, <2>1, <2>2, Asks DEF Answer
<1>. QED
  BY <1>3, <1>4, <1>5, <1>6, <1>7, <1>8, <1>9, <1>10, <1>11, <1>12
  DEF Reply, handleReworkSubmit, handleAgenticCancel, handleAgenticClose,
      handleAgenticSearchLinkDelete

LEMMA ReplyKeeps ==
  ASSUME Inv, NEW t \in Tasks, Reply(t), UNCHANGED list
  PROVE  Inv'
<1>. DEFINE slot == tasks[t].slot
<1>0. /\ TaskSound(tasks[t]) /\ (tasks[t].slot = "list" => list.open)
      /\ DOMAIN pages = Slots /\ (\A s \in Slots : PageSound(pages[s]))
      /\ (\A f \in fetches : LoadSound(f)) /\ PanelForm
  BY DEF Inv, PageInv, ListInv
<1>1. Answer(t) /\ panel' = panel
  BY Answers DEF Reply
<1>2. Leaves(t, queue)
  BY <1>1 DEF Leaves, Waiting, Answer
<1>3. slot \in Slots \cup {"gone"} /\ tasks[t].named \subseteq tasks[t].asked
  BY <1>0, <1>1 DEF TaskSound, Answer
<1>4. /\ DOMAIN pages' = Slots
      /\ \A s \in Slots : /\ PageSound(pages'[s]) /\ pages'[s].itemId = pages[s].itemId
                           /\ pages'[s].moved = pages[s].moved
  <2>1. CASE pages' = pages
    BY <1>0, <2>1
  <2>2. ASSUME NEW r \in tasks[t].named \cup {None}, setAgentic(tasks[t], r) \/ setItem(tasks[t], r),
               slot \in Slots
        PROVE  /\ DOMAIN pages' = Slots
               /\ \A s \in Slots : /\ PageSound(pages'[s]) /\ pages'[s].itemId = pages[s].itemId
                                    /\ pages'[s].moved = pages[s].moved
    <3>. DEFINE p == pages[slot]
    <3>1. \/ pages' = [pages EXCEPT ![slot] = RunPage(p, r)]
          \/ pages' = [pages EXCEPT ![slot] = ItemPage(p, r)]
      BY <2>2 DEF setAgentic, setItem, Land, RunPage, ItemPage
    <3>2. PageSound(p) /\ (~p.moved => r \in {p.itemId, None})
      BY <1>0, <1>3, <2>2 DEF TaskSound
    <3>. HIDE DEF p
    <3>3. /\ PageSound(RunPage(p, r)) /\ Same(RunPage(p, r), p)
          /\ PageSound(ItemPage(p, r)) /\ Same(ItemPage(p, r), p)
      BY <3>2, PageChanged DEF PageSound, Same
    <3>4. \A s \in Slots \ {slot} : pages'[s] = pages[s]
      BY <1>0, <3>1
    <3>5. pages'[slot] \in {RunPage(p, r), ItemPage(p, r)} /\ DOMAIN pages' = Slots
      BY <1>0, <2>2, <3>1
    <3>6. PageSound(pages'[slot]) /\ pages'[slot].itemId = p.itemId /\ pages'[slot].moved = p.moved
      BY <3>3, <3>5 DEF Same
    <3>. QED BY <1>0, <3>4, <3>5, <3>6 DEF p
  <2>3. ASSUME NEW r, setAgentic(tasks[t], r) \/ setItem(tasks[t], r), slot \notin Slots
        PROVE  pages' = pages
    BY <2>3 DEF setAgentic, setItem, Land
  <2>. QED BY <1>1, <2>1, <2>2, <2>3 DEF Answer, Puts
<1>5. \A f \in fetches' : LoadSound(f)
  <2>1. CASE fetches' = fetches
    BY <1>0, <2>1
  <2>2. ASSUME NEW i \in tasks[t].asked \ {None}
        PROVE  LoadSound(Fetch("quiet", slot, i))
    <3>1. slot \in Slots /\ (~pages[slot].moved => i \in {pages[slot].itemId, None})
      BY <1>0, <1>3 DEF TaskSound
    <3>. QED BY <3>1 DEF LoadSound, Fetch
  <2>. QED BY <1>0, <1>1, <2>1, <2>2 DEF Answer, Reads
<1>6. CASE Proceed(t, Idle, <<>>, queue, user)
  <2>1. TaskSound(Idle) /\ Idle.slot # "list"
    BY IdleTask
  <2>. QED BY <1>0, <1>1, <1>2, <1>4, <1>5, <1>6, <2>1, Goes DEF PanelForm
<1>7. ASSUME NEW todo, Proceed(t, tasks[t], todo, queue, user) PROVE Inv'
  BY <1>0, <1>1, <1>2, <1>4, <1>5, <1>7, Goes DEF PanelForm
<1>. QED BY <1>1, <1>6, <1>7 DEF Answer, Moves

-----------------------------------------------------------------------------
(* Bulk commands *)

LEMMA BulkContinuesKeeps ==
  ASSUME Inv, NEW t \in Tasks, NEW tk, TaskSound(tk), tk.slot = "list" => list.open, NEW todo,
         Step(tasks[t]) \notin Dialogs, BulkContinues(t, tk, todo)
  PROVE  Inv'
<1>1. /\ Proceed(t, tk, todo, queue, user) /\ Released(t)
      /\ UNCHANGED <<pages, fetches, list>>
  BY DEF BulkContinues
<1>2. Leaves(t, queue)
  BY DEF Leaves, Waiting
<1>. QED BY <1>1, <1>2, GoesOn

LEMMA SuccessKeeps ==
  ASSUME Inv, NEW t \in Tasks, Step(tasks[t]) \notin Dialogs, tasks[t].kind \in Bulk,
         handleAfterSuccess(t)
  PROVE  Inv'
<1>. DEFINE ts == [tasks EXCEPT ![t] = Idle]
<1>0. /\ PageInv /\ QueueInv /\ ListInv /\ DOMAIN tasks = Tasks
      /\ \A u \in Tasks : TaskSound(tasks[u])
  BY DEF Inv, PageInv
<1>1. WithoutEntity({}, FALSE, ts) /\ UNCHANGED queue
  BY DEF handleAfterSuccess, clearSelection, answered
<1>2. ts[t] = Idle /\ \A u \in Tasks \ {t} : ts[u] = tasks[u]
  BY <1>0
<1>. HIDE DEF ts
<1>3. /\ \A u \in Tasks : TaskSound(ts[u])
      /\ \A u \in Tasks : Step(ts[u]) \in Dialogs <=> Step(tasks[u]) \in Dialogs
      /\ \A u \in Tasks : ts[u].slot \in {tasks[u].slot, "gone"}
  BY <1>0, <1>2, IdleTask
<1>4. /\ PageInv' /\ QueueInv' /\ PanelForm'
      /\ panel'.multi = {} /\ pages'["route"].itemId = pages["route"].itemId
      /\ \A u \in Tasks : tasks'[u].slot \in {ts[u].slot, "gone"}
  BY <1>0, <1>1, <1>3, PanelEmptied
<1>5. \A u \in Tasks : tasks'[u].slot = "list" => list.open
  BY <1>0, <1>3, <1>4 DEF ListInv
<1>6. \/ list' = list
      \/ /\ list' = [list EXCEPT !.selected = {}, !.loads = @ \cup {LoadRows(list.filter, TRUE)}]
         /\ tasks[t].slot # "gone"
  BY DEF handleAfterSuccess
<1>7. tasks[t].slot # "gone" => list.open
  BY <1>0 DEF TaskSound, ListInv
<1>8. ListForm' /\ list'.open = list.open /\ list'.selected \subseteq list'.items
      /\ (~list.open => list' = list)
  BY <1>0, <1>6, <1>7 DEF ListInv, ListForm
<1>9. ListInv'
  BY <1>0, <1>4, <1>5, <1>8 DEF ListInv
<1>. QED BY <1>4, <1>9 DEF Inv

LEMMA BulkKeeps ==
  ASSUME Inv, NEW t \in Tasks, createBoxForRelocation(t) \/ ReplyBulk(t)
  PROVE  Inv'
<1>1. TaskSound(tasks[t]) /\ (tasks[t].slot = "list" => list.open)
  BY DEF Inv, PageInv, ListInv
<1>2. CASE createBoxForRelocation(t)
  <2>1. Step(tasks[t]) \notin Dialogs
    BY <1>2 DEF createBoxForRelocation, Asking, Dialogs
  <2>. QED BY <1>1, <1>2, <2>1, BulkContinuesKeeps DEF createBoxForRelocation
<1>3. CASE ReplyBulk(t)
  <2>1. Step(tasks[t]) \notin Dialogs /\ tasks[t].kind \in Bulk
    BY <1>3 DEF ReplyBulk, Asking, Dialogs
  <2>2. CASE handleAfterSuccess(t)
    BY <2>1, <2>2, SuccessKeeps
  <2>3. ASSUME NEW some, BulkContinues(t, [tasks[t] EXCEPT !.positive = some], Tail(tasks[t].todo))
        PROVE  Inv'
    <3>. DEFINE tk == [tasks[t] EXCEPT !.positive = some]
    <3>1. tk = WithPositive(tasks[t], some)
      BY DEF WithPositive
    <3>. HIDE DEF tk
    <3>2. /\ TaskForm(tk) /\ tk.kind = tasks[t].kind /\ tk.slot = tasks[t].slot
          /\ tk.asked = tasks[t].asked /\ tk.named = tasks[t].named
      BY <1>1, <3>1, Starts DEF TaskSound
    <3>3. TaskSound(tk) /\ (tk.slot = "list" => list.open)
      BY <1>1, <3>2 DEF TaskSound
    <3>4. BulkContinues(t, tk, Tail(tasks[t].todo))
      BY <2>3 DEF tk
    <3>. QED BY <2>1, <3>3, <3>4, BulkContinuesKeeps
  <2>. QED BY <1>3, <2>2, <2>3 DEF ReplyBulk
<1>. QED BY <1>2, <1>3

-----------------------------------------------------------------------------
(* The list *)

\* Steps of the list that publish a selection of its rows.
LEMMA PublishKeeps ==
  ASSUME Inv, NEW selected, publish(selected), UNCHANGED queue, selected \subseteq list'.items,
         list.open, ListForm', list'.open, list'.selected \subseteq list'.items
  PROVE  Inv'
<1>0. ListInv
  BY DEF Inv
<1>1. /\ PageInv' /\ QueueInv' /\ PanelForm'
      /\ panel'.multi = selected
      /\ pages'["panel"].itemId # None => selected = {}
      /\ pages'["route"].itemId = pages["route"].itemId
  BY Publishes
<1>2. ListInv'
  BY <1>0, <1>1 DEF ListInv
<1>. QED BY <1>1, <1>2 DEF Inv

LEMMA SelectKeeps ==
  ASSUME Inv, list.open, NEW selected \in SUBSET list.items, Select(selected)
  PROVE  Inv'
<1>1. list' = [list EXCEPT !.selected = selected] /\ publish(selected) /\ UNCHANGED queue
  BY DEF Select, answered
<1>2. ListForm' /\ list'.open /\ list'.items = list.items /\ list'.selected = selected
  BY <1>1 DEF Inv, ListInv, ListForm
<1>. QED BY <1>1, <1>2, PublishKeeps

LEMMA FilterKeeps ==
  ASSUME Inv, (\E f : setFilter(f)) \/ handleFilterReset
  PROVE  Inv'
<1>0. ListInv /\ ListForm /\ PageInv /\ QueueInv
  BY DEF Inv, ListInv
<1>1. CASE \E f : setFilter(f)
  <2>1. PICK f : setFilter(f)
    BY <1>1
  <2>2. list' = Filtered(f) /\ UNCHANGED <<detail, work>> /\ list.open
    BY <2>1 DEF setFilter, Table
  <2>3. ListForm' /\ list'.open /\ list'.items = list.items /\ list'.selected = list.selected
    BY <1>0, <2>2 DEF Filtered, ListForm
  <2>4. ListInv'
    BY <1>0, <2>2, <2>3 DEF ListInv, PanelForm, detail, work
  <2>5. PageInv' /\ QueueInv'
    BY <1>0, <2>2 DEF PageInv, LoadSound, TaskSound, QueueInv, Waiting, Step, InQueue, Once, detail, work
  <2>. QED BY <2>4, <2>5 DEF Inv
<1>2. CASE handleFilterReset
  <2>1. /\ list' = [Filtered(NoFilter) EXCEPT !.selected = {}] /\ publish({})
        /\ UNCHANGED queue /\ list.open
    BY <1>2 DEF handleFilterReset, answered, Table
  <2>2. ListForm' /\ list'.open /\ list'.selected = {}
    BY <1>0, <2>1 DEF Filtered, ListForm
  <2>. QED BY <2>1, <2>2, PublishKeeps
<1>. QED BY <1>1, <1>2

ListRecord(a) == a = [open |-> a.open, filter |-> a.filter, items |-> a.items,
                      selected |-> a.selected, loading |-> a.loading, loads |-> a.loads]
LoadsLeft(a, x) == [a EXCEPT !.loads = x]
StillLoading(a, x) == [a EXCEPT !.loading = x]
LEMMA Arrives ==
  ASSUME NEW a, ListRecord(a), NEW x, NEW y
  PROVE  LET done == StillLoading(LoadsLeft(a, x), y) IN
         /\ ListRecord(done) /\ done.open = a.open /\ done.items = a.items
         /\ done.selected = a.selected
<1>1. \A b, z : ListRecord(b) =>
        /\ ListRecord(LoadsLeft(b, z)) /\ LoadsLeft(b, z).open = b.open
        /\ LoadsLeft(b, z).items = b.items /\ LoadsLeft(b, z).selected = b.selected
  BY DEF ListRecord, LoadsLeft
<1>2. \A b, z : ListRecord(b) =>
        /\ ListRecord(StillLoading(b, z)) /\ StillLoading(b, z).open = b.open
        /\ StillLoading(b, z).items = b.items /\ StillLoading(b, z).selected = b.selected
  BY DEF ListRecord, StillLoading
<1>. QED BY <1>1, <1>2

LEMMA RowsKeep ==
  ASSUME Inv, NEW l, loadItems(l)
  PROVE  Inv'
<1>. DEFINE done == [list EXCEPT !.loads = @ \ {l}, !.loading = @ /\ l.silent]
            rows == Rows(l.by)
            selected == StillValid(list.selected, rows)
<1>0. ListInv /\ ListForm /\ PageInv /\ QueueInv
  BY DEF Inv, ListInv
<1>1. list.open
  BY <1>0 DEF ListInv, loadItems, Unlisted
<1>2. /\ ListRecord(done) /\ done.open = list.open /\ done.items = list.items
      /\ done.selected = list.selected
  <2>. DEFINE left == list.loads \ {l}
              still == list.loading /\ l.silent
  <2>1. done = StillLoading(LoadsLeft(list, left), still)
    BY DEF StillLoading, LoadsLeft
  <2>2. ListRecord(list)
    BY <1>0 DEF ListRecord, ListForm
  <2>. HIDE DEF left, still, done
  <2>. QED BY <2>1, <2>2, Arrives
<1>3. UNCHANGED queue
  BY DEF loadItems, answered
<1>4. CASE list' = done /\ UNCHANGED <<detail, tasks>>
  <2>1. ListInv'
    <3>1. UNCHANGED <<panel, pages, tasks>> /\ list' = done
      BY <1>4 DEF detail
    <3>. HIDE DEF done
    <3>. QED BY <1>0, <1>1, <1>2, <3>1 DEF ListInv, ListForm, ListRecord, PanelForm
  <2>2. PageInv' /\ QueueInv'
    BY <1>0, <1>3, <1>4 DEF PageInv, LoadSound, TaskSound, QueueInv, Waiting, Step, InQueue, Once, detail
  <2>. QED BY <2>1, <2>2 DEF Inv
<1>5. CASE list' = [done EXCEPT !.items = rows, !.selected = selected] /\ publish(selected)
  <2>. HIDE DEF done, rows
  <2>1. ListForm' /\ list'.open /\ list'.items = rows /\ list'.selected = selected
    BY <1>1, <1>2, <1>5 DEF ListForm, ListRecord
  <2>2. selected \subseteq rows
    BY DEF StillValid
  <2>. QED BY <1>1, <1>3, <1>5, <2>1, <2>2, PublishKeeps
<1>. QED BY <1>4, <1>5 DEF loadItems

LEMMA ClearKeeps ==
  ASSUME Inv, clearSelection(tasks), UNCHANGED queue,
         list' = list \/ (list.open /\ list' = [list EXCEPT !.selected = {}])
  PROVE  Inv'
<1>0. ListInv /\ ListForm /\ PageInv /\ QueueInv /\ \A t \in Tasks : TaskSound(tasks[t])
  BY DEF Inv, ListInv, PageInv
<1>1. WithoutEntity({}, FALSE, tasks)
  BY DEF clearSelection
<1>2. /\ PageInv' /\ QueueInv' /\ PanelForm'
      /\ panel'.multi = {} /\ pages'["route"].itemId = pages["route"].itemId
      /\ \A t \in Tasks : tasks'[t].slot \in {tasks[t].slot, "gone"}
  BY <1>0, <1>1, PanelEmptied
<1>3. ListForm' /\ list'.open = list.open /\ list'.selected \subseteq list'.items
      /\ (~list.open => list' = list)
  BY <1>0 DEF ListInv, ListForm
<1>4. ListInv'
  BY <1>0, <1>2, <1>3 DEF ListInv
<1>. QED BY <1>2, <1>4 DEF Inv

-----------------------------------------------------------------------------
(* The tab *)

LEMMA NextInv ==
  ASSUME Inv, [Next]_vars
  PROVE  Inv'
<1>0. 0 \notin Items /\ ListInv /\ \A f \in Filters \cup {NoFilter} : Rows(f) \in SUBSET Items
  BY DetailAssumption, RowsAreItems DEF Items, Inv
<1>1. CASE Pages
  <2>1. ASSUME NEW s \in Slots, handleNeighborNavigation(s) \/ handleInstanceNavigation(s), Left
        PROVE  Inv'
    BY <2>1, NavigationKeeps, InstanceKeeps
  <2>2. ASSUME NEW i \in Items, openRoute(i, NoQuery), Left PROVE Inv'
    BY <1>0, <2>2, OpenRouteKeeps DEF None
  <2>. QED BY <1>1, <2>1, <2>2, EditKeeps, LoadKeeps DEF Pages
<1>2. CASE Handlers
  <2>1. ASSUME NEW t \in Tasks, NEW s \in Slots, NEW kind \in Commands, ask(t, s, kind),
               UNCHANGED list
        PROVE  Inv'
    BY <2>1, AskKeeps
  <2>2. ASSUME NEW t \in Tasks, NEW s \in Slots, refuseEdit(t, s), UNCHANGED list PROVE Inv'
    BY <2>2, RefuseEditKeeps
  <2>3. ASSUME NEW t \in Tasks, handleSpecFieldModal(t) \/ Reply(t), UNCHANGED list PROVE Inv'
    BY <2>3, ModalKeeps, ReplyKeeps
  <2>. QED BY <1>2, <2>1, <2>2, <2>3, AnswerKeeps DEF Handlers
<1>3. CASE ListSteps
  <2>1. CASE handleFilterReset
    BY <2>1, FilterKeeps
  <2>2. CASE handleToggleAll
    <3>1. list.open /\ visibleIds \subseteq list.items
      BY <2>2 DEF handleToggleAll, Table, visibleIds
    <3>2. \E selected \in SUBSET list.items : Select(selected)
      <4>1. /\ list.selected \ visibleIds \subseteq list.items
            /\ list.selected \cup visibleIds \subseteq list.items
        BY <1>0, <3>1 DEF ListInv
      <4>. HIDE DEF visibleIds
      <4>. QED BY <2>2, <4>1 DEF handleToggleAll
    <3>. QED BY <3>1, <3>2, SelectKeeps
  <2>3. CASE backToList
    BY <2>3, ClearKeeps DEF backToList, answered
  <2>4. CASE handleClearSelection
    BY <2>4, ClearKeeps DEF handleClearSelection, answered
  <2>5. CASE \E f \in Filters \cup {NoFilter} : openList(f) \/ setFilter(f)
    BY <2>5, OpenListKeeps, FilterKeeps
  <2>6. CASE \E l \in list.loads : loadItems(l)
    BY <2>6, RowsKeep
  <2>7. ASSUME NEW i \in Items, handleToggleItem(i) PROVE Inv'
    <3>1. list.open /\ i \in list.items
      BY <2>7 DEF handleToggleItem, Table, visibleIds
    <3>2. \E selected \in SUBSET list.items : Select(selected)
      <4>1. /\ list.selected \ {i} \subseteq list.items
            /\ list.selected \cup {i} \subseteq list.items
        BY <1>0, <3>1 DEF ListInv
      <4>. QED BY <2>7, <4>1 DEF handleToggleItem
    <3>. QED BY <3>1, <3>2, SelectKeeps
  <2>8. ASSUME NEW i \in Items, handleItemSelect(i) PROVE Inv'
    BY <2>8, SetEntityKeeps DEF handleItemSelect
  <2>. QED BY <1>3, <2>1, <2>2, <2>3, <2>4, <2>5, <2>6, <2>7, <2>8 DEF ListSteps
<1>4. CASE BulkCommands
  <2>1. ASSUME NEW t \in Tasks, NEW kind \in Bulk \cap Commands, askBulk(t, kind) PROVE Inv'
    BY <2>1, AskBulkKeeps
  <2>. QED BY <1>4, <2>1, BulkKeeps DEF BulkCommands
<1>5. CASE UNCHANGED vars
  BY <1>5 DEF vars, detail, work, Inv, PageInv, LoadSound, TaskSound, QueueInv, Waiting, Step,
              InQueue, Once, ListInv, ListForm, PanelForm
<1>. QED BY <1>1, <1>2, <1>3, <1>4, <1>5 DEF Next

LEMMA InvHolds == Spec => []Inv
<1>1. Inv /\ [Next]_vars => Inv'
  BY NextInv
<1>. QED BY InitInv, <1>1, PTL DEF Spec

\* What a page shows is of its address, and so are the neighbours it offers: no late answer
\* of a load or of a handler shows another item, or another item's run, on a page that was
\* given its address when it was mounted (ItemDetail.tsx, Layout.tsx: the key of the panel).
THEOREM ItemsStayOnTheirPages == Spec => []ShownBelongs
<1>1. Inv => ShownBelongs
  <2>. SUFFICES ASSUME Inv PROVE ShownBelongs
    OBVIOUS
  <2>. QED BY DEF Inv, PageInv, PageSound, TaskSound, ShownBelongs
<1>. QED BY <1>1, InvHolds, PTL

\* The dialog queue holds exactly the handlers that wait for an answer, each once
\* (DialogProvider.tsx): an answer resolves the handler that asked.
THEOREM DialogsAreAnsweredByTheirAsker == Spec => []AnswersReachTheAsker
<1>1. Inv => AnswersReachTheAsker
  <2>. SUFFICES ASSUME Inv PROVE AnswersReachTheAsker
    OBVIOUS
  <2>. DEFINE S == {queue[k] : k \in DOMAIN queue}
  <2>1. queue \in Seq(Tasks) /\ Once(queue) /\ S = Waiting
    BY DEF Inv, QueueInv, InQueue
  <2>2. DOMAIN queue = 1 .. Len(queue) /\ Len(queue) \in Nat
    BY <2>1, LenProperties
  <2>. DEFINE n == Len(queue)
  <2>3. queue \in Bijection(1 .. n, S)
    <3>1. queue \in [1 .. n -> S]
      <4>1. queue = [k \in 1 .. n |-> queue[k]]
        BY <2>1, <2>2
      <4>2. \A k \in 1 .. n : queue[k] \in S
        BY <2>2
      <4>. HIDE DEF n, S
      <4>. QED BY <4>1, <4>2
    <3>2. \A x \in S : \E k \in 1 .. n : queue[k] = x
      BY <2>2
    <3>3. \A j, k \in DOMAIN queue : queue[j] = queue[k] => j = k
      BY <2>1 DEF Once
    <3>. HIDE DEF n, S
    <3>. QED BY <3>1, <3>2, <3>3 DEF Bijection, Injection, Surjection, IsInjective
  <2>4. n \in Nat /\ ExistsBijection(1 .. n, S)
    BY <2>2, <2>3 DEF ExistsBijection
  <2>. HIDE DEF S, n
  <2>5. Cardinality(S) = n
    BY <2>4, FS_CountingElements
  <2>. QED BY <2>1, <2>5 DEF AnswersReachTheAsker, Waiting, S, n
<1>. QED BY <1>1, InvHolds, PTL

\* A bulk command names only rows that the list had when the command was given
\* (ItemListPage.tsx), whatever answers to earlier filters came in between.
THEOREM BulkCommandsNameRows == Spec => []BulkNamesListed
<1>1. Inv => BulkNamesListed
  BY DEF Inv, PageInv, TaskSound, BulkNamesListed
<1>. QED BY <1>1, InvHolds, PTL

=============================================================================
