------------------------ MODULE PooledTransactionsProofs ------------------------
(***************************************************************************)
(* What holds of withTransaction and the pool for every number of          *)
(* requests, connections and rows and every mix of work.                   *)
(***************************************************************************)
EXTENDS PooledTransactions, TLAPS

Open == {"running", "executing", "aborting"}

\* A request holds a client exactly while its transaction is open, and a second
\* connection exactly while a pooled statement is under way.
HoldsByPhase ==
  \A r \in Requests : /\ client[r] # NoConnection <=> phase[r] \in Open
                      /\ side[r] # NoConnection <=> phase[r] = "executing"

\* What ROLLBACK undoes is stored only with everything the request needs, after COMMIT
\* was sent; the log only after the helpers' changes.
Kept(r) ==
  /\ \/ Undoable(r) \cap saved[r] = {}
     \/ Finished(r) /\ Needed(r) \subseteq saved[r]
  /\ Len(Script(r)) \in saved[r] =>
       Finished(r) /\ Needed(r) \ Undoable(r) \subseteq saved[r]

\* Which statements of a request are where.
Fine(r) ==
  /\ step[r] <= Len(Script(r))
  /\ phase[r] \in {"running", "executing"} =>
       /\ \A k \in Needed(r) : k <= step[r] => k \in saved[r] \cup buffered[r]
       /\ buffered[r] \subseteq Undoable(r)
       /\ Undoable(r) \cap saved[r] = {}
  /\ phase[r] = "connecting" => step[r] = 0 /\ saved[r] = {}
  /\ phase[r] \notin Open => buffered[r] = {}
  /\ phase[r] = "executing" => /\ step[r] < Len(Script(r))
                              /\ Script(r)[step[r] + 1].via = "pool"
  /\ phase[r] = "ok" => Needed(r) \subseteq saved[r]
  /\ Kept(r)

Progress == \A r \in Requests : Fine(r)

\* The inductive invariant.
Inv == TypeOK /\ PoolPartitioned /\ HoldsByPhase /\ LocksEnd /\ Progress

-----------------------------------------------------------------------------
(* Scripts *)

\* A script has two or three statements; those through the client are needed, and the
\* last one, when it goes through the pool, is not.
LEMMA ScriptShape ==
  ASSUME NEW r \in Requests
  PROVE  /\ Len(Script(r)) \in {2, 3}
         /\ \A k \in 1..Len(Script(r)) :
              /\ Script(r)[k].via \in {"client", "pool"}
              /\ Script(r)[k].via = "client" => Script(r)[k].error = "thrown"
              /\ Script(r)[k].error \in {"caught", "thrown"}
         /\ Script(r)[Len(Script(r))].via = "client" \/ Script(r)[Len(Script(r))].error = "caught"
<1>. DEFINE S == Script(r)
            Good(k) == /\ S[k].via \in {"client", "pool"}
                       /\ S[k].via = "client" => S[k].error = "thrown"
                       /\ S[k].error \in {"caught", "thrown"}
            Last(k) == S[k].via = "client" \/ S[k].error = "caught"
<1>0. /\ \A row : /\ ByPool(row).via = "pool" /\ Tried(row).via = "pool"
                  /\ ByClient(row).via = "client" /\ ByClient(row).error = "thrown"
                  /\ ByPool(row).error = "thrown" /\ Tried(row).error = "caught"
      /\ Read.via = "pool" /\ Read.error = "thrown" /\ Log.via = "pool" /\ Log.error = "caught"
  BY DEF ByPool, ByClient, Tried, Read, Log
<1>1. ASSUME Len(S) = 2, Good(1), Good(2), Last(2)
      PROVE  (\A k \in 1..Len(S) : Good(k)) /\ Last(Len(S)) /\ Len(S) \in {2, 3}
  <2>. HIDE DEF Good, Last
  <2>1. \A k \in 1..2 : k = 1 \/ k = 2
    OBVIOUS
  <2>. QED BY <1>1, <2>1
<1>2. ASSUME Len(S) = 3, Good(1), Good(2), Good(3), Last(3)
      PROVE  (\A k \in 1..Len(S) : Good(k)) /\ Last(Len(S)) /\ Len(S) \in {2, 3}
  <2>. HIDE DEF Good, Last
  <2>1. \A k \in 1..3 : k = 1 \/ k = 2 \/ k = 3
    OBVIOUS
  <2>. QED BY <1>2, <2>1
<1>3. CASE Work[r] = "pooled"
  <2>1. S = <<ByPool(Target[r]), Read, Log>>
    BY <1>3 DEF Script
  <2>2. Len(S) = 3 /\ S[1] = ByPool(Target[r]) /\ S[2] = Read /\ S[3] = Log
    BY <2>1
  <2>3. Good(1) /\ Good(2) /\ Good(3) /\ Last(3)
    BY <1>0, <2>2
  <2>. QED BY <2>2, <2>3, <1>2
<1>4. CASE Work[r] = "created"
  <2>1. S = <<Tried(Target[r]), Log>>
    BY <1>4 DEF Script
  <2>2. Len(S) = 2 /\ S[1] = Tried(Target[r]) /\ S[2] = Log
    BY <2>1
  <2>3. Good(1) /\ Good(2) /\ Last(2)
    BY <1>0, <2>2
  <2>. QED BY <2>2, <2>3, <1>1
<1>5. CASE Work[r] = "mixed"
  <2>1. S = <<ByClient(Target[r]), Log>>
    BY <1>5 DEF Script
  <2>2. Len(S) = 2 /\ S[1] = ByClient(Target[r]) /\ S[2] = Log
    BY <2>1
  <2>3. Good(1) /\ Good(2) /\ Last(2)
    BY <1>0, <2>2
  <2>. QED BY <2>2, <2>3, <1>1
<1>6. CASE Work[r] = "removal"
  <2>1. S = <<ByPool(Target[r]), ByClient(Part[r]), Log>>
    BY <1>6 DEF Script
  <2>2. Len(S) = 3 /\ S[1] = ByPool(Target[r]) /\ S[2] = ByClient(Part[r]) /\ S[3] = Log
    BY <2>1
  <2>3. Good(1) /\ Good(2) /\ Good(3) /\ Last(3)
    BY <1>0, <2>2
  <2>. QED BY <2>2, <2>3, <1>2
<1>7. CASE Work[r] = "reset"
  <2>1. S = <<ByClient(Target[r]), ByPool(Target[r]), Log>>
    BY <1>7 DEF Script
  <2>2. Len(S) = 3 /\ S[1] = ByClient(Target[r]) /\ S[2] = ByPool(Target[r]) /\ S[3] = Log
    BY <2>1
  <2>3. Good(1) /\ Good(2) /\ Good(3) /\ Last(3)
    BY <1>0, <2>2
  <2>. QED BY <2>2, <2>3, <1>2
<1>8. CASE Work[r] = "client"
  <2>1. S = <<ByClient(Target[r]), ByClient(NoRow)>>
    BY <1>8 DEF Script
  <2>2. Len(S) = 2 /\ S[1] = ByClient(Target[r]) /\ S[2] = ByClient(NoRow)
    BY <2>1
  <2>3. Good(1) /\ Good(2) /\ Last(2)
    BY <1>0, <2>2
  <2>. QED BY <2>2, <2>3, <1>1
<1>. QED BY <1>3, <1>4, <1>5, <1>6, <1>7, <1>8, WorkAssumption DEF Kinds

\* The same of the places of statements.
LEMMA ScriptSets ==
  ASSUME NEW r \in Requests
  PROVE  /\ Len(Script(r)) \in {2, 3}
         /\ Needed(r) \subseteq 1..Len(Script(r)) /\ Undoable(r) \subseteq Needed(r)
         /\ Len(Script(r)) \notin Needed(r) \ Undoable(r)
         /\ \A k \in 1..Len(Script(r)) :
              /\ k \in Needed(r) <=> Script(r)[k].error = "thrown"
              /\ k \in Undoable(r) <=> Script(r)[k].via = "client"
              /\ Script(r)[k].via \in {"client", "pool"}
              /\ Script(r)[k].error \in {"caught", "thrown"}
<1>1. Len(Script(r)) \in 1..Len(Script(r))
  BY ScriptShape
<1>. QED BY <1>1, ScriptShape DEF Needed, Undoable

-----------------------------------------------------------------------------
(* Inv is inductive *)

\* Inv holds before any request has come in.
LEMMA InvInit == Init => Inv
<1>. SUFFICES ASSUME Init PROVE Inv
  OBVIOUS
<1>1. TypeOK
  BY DEF Init, TypeOK, Phases
<1>2. PoolPartitioned /\ HoldsByPhase /\ LocksEnd
  BY NamesAssumption DEF Init, PoolPartitioned, Holds, HoldsByPhase, LocksEnd, Open
<1>3. Progress
  BY ScriptSets DEF Init, Progress, Fine, Kept, Open
<1>. QED BY <1>1, <1>2, <1>3 DEF Inv

\* A request whose own state a step leaves alone stays fine.
LEMMA FineFrame ==
  ASSUME NEW q \in Requests, Fine(q),
         phase'[q] = phase[q], step'[q] = step[q],
         saved'[q] = saved[q], buffered'[q] = buffered[q]
  PROVE  Fine(q)'
BY DEF Fine, Kept, Finished

\* A request that has not sent its last statement stands before it.
LEMMA Unfinished ==
  ASSUME Inv, NEW r \in Requests, ~Finished(r)
  PROVE  step[r] < Len(Script(r)) /\ step[r] \in 0..2
<1>1. step[r] \in 0..3 /\ step[r] <= Len(Script(r)) /\ step[r] # Len(Script(r))
  BY DEF Inv, Progress, Fine, TypeOK, Finished
<1>2. Len(Script(r)) \in {2, 3}
  BY ScriptShape
<1>3. ASSUME NEW n \in {2, 3}, NEW k \in 0..3, k <= n, k # n
      PROVE  k < n /\ k \in 0..2
  BY <1>3
<1>. QED BY <1>1, <1>2, <1>3

\* Coming in leaves connections and rows alone.
LEMMA ArriveKeeps == ASSUME Inv, NEW r \in Requests, Arrive(r) PROVE Inv'
<1>. USE DEF Inv, Arrive, Goto
<1>1. TypeOK'
  BY DEF TypeOK, Phases
<1>2. PoolPartitioned'
  BY DEF PoolPartitioned, Holds
<1>3. HoldsByPhase' /\ LocksEnd'
  BY DEF HoldsByPhase, LocksEnd, TypeOK, Open, Answered
<1>4. ASSUME NEW q \in Requests PROVE Fine(q)'
  <2>1. CASE q = r
    <3>1. phase'[q] = "connecting" /\ step'[q] = 0 /\ saved'[q] = {} /\ buffered'[q] = {}
      BY <2>1 DEF TypeOK, Progress, Fine, Open, Answered
    <3>. QED BY <3>1, ScriptSets DEF Fine, Kept, Open
  <2>2. CASE q # r
    BY <2>2, FineFrame DEF TypeOK, Progress
  <2>. QED BY <2>1, <2>2
<1>. QED BY <1>1, <1>2, <1>3, <1>4 DEF Progress

\* The steps that lend a connection: Begin and Checkout.
LEMMA LendKeeps ==
  ASSUME Inv, NEW r \in Requests, Begin(r) \/ Checkout(r) PROVE Inv'
<1>. USE DEF Inv, Goto
<1>1. CASE Begin(r)
  <2>. USE DEF Begin
  <2>1. PICK c \in idle : client' = [client EXCEPT ![r] = c] /\ idle' = idle \ {c}
    BY <1>1
  <2>2. TypeOK'
    BY <1>1, <2>1 DEF TypeOK, Phases
  <2>3. client[r] = NoConnection /\ side[r] = NoConnection
    BY <1>1 DEF HoldsByPhase, TypeOK, Open
  <2>4. PoolPartitioned'
    BY <1>1, <2>1, <2>3, NamesAssumption DEF PoolPartitioned, Holds, TypeOK
  <2>5. HoldsByPhase' /\ LocksEnd'
    BY <1>1, <2>1, NamesAssumption DEF HoldsByPhase, LocksEnd, TypeOK, Open
  <2>6. ASSUME NEW q \in Requests PROVE Fine(q)'
    <3>1. CASE q = r
      BY <1>1, <3>1, ScriptSets DEF Fine, Kept, Finished, Progress, TypeOK, Open
    <3>2. CASE q # r
      BY <1>1, <3>2, FineFrame DEF TypeOK, Progress
    <3>. QED BY <3>1, <3>2
  <2>. QED BY <2>2, <2>4, <2>5, <2>6 DEF Progress
<1>2. CASE Checkout(r)
  <2>. USE DEF Checkout
  <2>1. PICK c \in idle : side' = [side EXCEPT ![r] = c] /\ idle' = idle \ {c}
    BY <1>2
  <2>2. TypeOK'
    BY <1>2, <2>1 DEF TypeOK, Phases
  <2>3. side[r] = NoConnection
    BY <1>2 DEF HoldsByPhase, TypeOK, Open
  <2>4. PoolPartitioned'
    BY <1>2, <2>1, <2>3, NamesAssumption DEF PoolPartitioned, Holds, TypeOK
  <2>5. HoldsByPhase' /\ LocksEnd'
    BY <1>2, <2>1, NamesAssumption DEF HoldsByPhase, LocksEnd, TypeOK, Open
  <2>6. ASSUME NEW q \in Requests PROVE Fine(q)'
    <3>1. CASE q = r
      <4>1. step[r] < Len(Script(r))
        BY <1>2, Unfinished
      <4>. QED BY <1>2, <3>1, <4>1 DEF Fine, Kept, Finished, Progress, TypeOK, Open, Statement
    <3>2. CASE q # r
      BY <1>2, <3>2, FineFrame DEF TypeOK, Progress
    <3>. QED BY <3>1, <3>2
  <2>. QED BY <2>2, <2>4, <2>5, <2>6 DEF Progress
<1>. QED BY <1>1, <1>2

\* An error is caught at its statement, or the request is left to the catch.
LEMMA ThrowsTo ==
  ASSUME Inv, NEW r \in Requests, Throws(r), ~Finished(r)
  PROVE  /\ step[r] + 1 \in 1..Len(Script(r)) /\ step[r] \in 0..2
         /\ \E p \in {"running", "aborting"} :
              /\ phase' = [phase EXCEPT ![r] = p]
              /\ step' = [step EXCEPT ![r] = IF p = "running" THEN @ + 1 ELSE @]
              /\ p = "running" <=> step[r] + 1 \notin Needed(r)
<1>1. step[r] + 1 \in 1..Len(Script(r)) /\ step[r] \in 0..2
  BY Unfinished, ScriptSets
<1>2. step[r] + 1 \in Needed(r) <=> Script(r)[step[r] + 1].error = "thrown"
  BY <1>1, ScriptSets
<1>3. step \in [Requests -> 0..3]
  BY DEF Inv, TypeOK
<1>4. CASE Script(r)[step[r] + 1].error = "caught"
  BY <1>1, <1>2, <1>3, <1>4 DEF Throws, Statement, Goto
<1>5. CASE Script(r)[step[r] + 1].error = "thrown"
  BY <1>1, <1>2, <1>3, <1>5 DEF Throws, Statement, Goto
<1>. QED BY <1>1, <1>4, <1>5, ScriptSets

\* After an error the statements are as they have to be: what fails may have been
\* stored, if it went through the pool.
LEMMA FineAfterError ==
  ASSUME Inv, NEW r \in Requests, Throws(r), ~Finished(r),
         phase[r] \in {"running", "executing"}, buffered' = buffered,
         \/ saved' = saved
         \/ /\ Script(r)[step[r] + 1].via = "pool"
            /\ saved' = [saved EXCEPT ![r] = @ \cup {step[r] + 1}]
  PROVE  Progress'
<1>1. PICK p \in {"running", "aborting"} :
        /\ phase' = [phase EXCEPT ![r] = p]
        /\ step' = [step EXCEPT ![r] = IF p = "running" THEN @ + 1 ELSE @]
        /\ p = "running" <=> step[r] + 1 \notin Needed(r)
  BY ThrowsTo
<1>2. step[r] + 1 \in 1..Len(Script(r)) /\ step[r] \in 0..2
  BY ThrowsTo
<1>. DEFINE n == step[r] + 1
            L == Len(Script(r))
            N == Needed(r)
            U == Undoable(r)
<1>3. /\ L \in {2, 3} /\ N \subseteq 1..L /\ U \subseteq N /\ L \notin N \ U
      /\ Script(r)[n].via = "pool" => n \notin U
  BY <1>2, ScriptSets
<1>4. /\ \A k \in N : k <= step[r] => k \in saved[r] \cup buffered[r]
      /\ buffered[r] \subseteq U /\ U \cap saved[r] = {}
      /\ L \in saved[r] => Finished(r)
  BY DEF Inv, Progress, Fine, Kept
<1>5. /\ phase'[r] = p /\ buffered'[r] = buffered[r]
      /\ step'[r] = IF p = "running" THEN n ELSE step[r]
      /\ saved'[r] = saved[r] \/ (saved'[r] = saved[r] \cup {n} /\ n \notin U)
  BY <1>1, <1>3 DEF Inv, TypeOK
<1>6. U \cap saved'[r] = {} /\ step'[r] <= L
  BY <1>2, <1>3, <1>4, <1>5
<1>7. \A k \in N : k <= step'[r] => k \in saved'[r] \cup buffered'[r]
  <2>. SUFFICES ASSUME NEW k \in N, k <= step'[r] PROVE k \in saved'[r] \cup buffered'[r]
    OBVIOUS
  <2>1. k <= step[r]
    <3>1. k # n \/ p # "running"
      BY <1>1
    <3>2. k \in Nat
      BY <1>3 DEF N
    <3>. QED BY <1>2, <1>5, <3>1, <3>2
  <2>. QED BY <1>4, <1>5, <2>1
<1>8. ASSUME L \in saved'[r] PROVE step'[r] = L /\ N \ U \subseteq saved'[r]
  <2>1. n = L /\ n \notin U
    BY <1>4, <1>5, <1>8
  <2>2. p = "running"
    BY <1>1, <1>3, <2>1
  <2>3. step'[r] = L
    BY <1>5, <2>1, <2>2
  <2>4. \A k \in N : k <= step'[r]
    BY <1>3, <2>3
  <2>. QED BY <1>4, <1>5, <1>7, <2>3, <2>4
<1>. HIDE DEF n, L, N, U
<1>9. Fine(r)'
  <2>1. Kept(r)'
    BY <1>6, <1>8 DEF Kept, Finished, L, N, U
  <2>. QED BY <1>4, <1>5, <1>6, <1>7, <2>1 DEF Fine, Open, L, N, U
<1>10. ASSUME NEW q \in Requests, q # r PROVE Fine(q)'
  BY <1>1, <1>10, FineFrame DEF Inv, Progress, TypeOK
<1>. QED BY <1>9, <1>10 DEF Progress

\* The steps that give up waiting for a connection.
LEMMA TimeoutKeeps ==
  ASSUME Inv, NEW r \in Requests, ConnectTimeout(r) \/ CheckoutTimeout(r) PROVE Inv'
<1>1. CASE ConnectTimeout(r)
  <2>. USE <1>1 DEF Inv, ConnectTimeout, Goto
  <2>1. TypeOK' /\ PoolPartitioned'
    BY DEF TypeOK, Phases, PoolPartitioned, Holds
  <2>2. HoldsByPhase' /\ LocksEnd'
    BY DEF HoldsByPhase, LocksEnd, TypeOK, Open
  <2>3. ASSUME NEW q \in Requests PROVE Fine(q)'
    <3>1. CASE q = r
      BY <3>1, ScriptSets DEF Fine, Kept, Finished, Progress, TypeOK, Open
    <3>2. CASE q # r
      BY <3>2, FineFrame DEF TypeOK, Progress
    <3>. QED BY <3>1, <3>2
  <2>. QED BY <2>1, <2>2, <2>3 DEF Progress
<1>2. CASE CheckoutTimeout(r)
  <2>1. /\ phase[r] = "running" /\ ~Finished(r) /\ Throws(r)
        /\ UNCHANGED <<client, side, idle, lock, buffered, saved>>
    BY <1>2 DEF CheckoutTimeout
  <2>2. PICK p \in {"running", "aborting"} :
          /\ phase' = [phase EXCEPT ![r] = p]
          /\ step' = [step EXCEPT ![r] = IF p = "running" THEN @ + 1 ELSE @]
    BY <2>1, ThrowsTo
  <2>3. TypeOK'
    <3>1. step[r] \in 0..2
      BY <2>1, ThrowsTo
    <3>. QED BY <2>1, <2>2, <3>1 DEF Inv, TypeOK, Phases
  <2>4. PoolPartitioned'
    BY <2>1 DEF Inv, PoolPartitioned, Holds
  <2>5. HoldsByPhase' /\ LocksEnd'
    BY <2>1, <2>2 DEF Inv, HoldsByPhase, LocksEnd, TypeOK, Open
  <2>. QED BY <2>1, <2>3, <2>4, <2>5, FineAfterError DEF Inv
<1>. QED BY <1>1, <1>2

\* A statement through the client locks its row and stays in the transaction.
LEMMA ClientStatementKeeps ==
  ASSUME Inv, NEW r \in Requests, ClientStatement(r) PROVE Inv'
<1>. USE DEF Inv, ClientStatement
<1>1. step[r] < Len(Script(r)) /\ step[r] \in 0..2
  BY Unfinished
<1>2. TypeOK'
  BY <1>1 DEF TypeOK
<1>3. PoolPartitioned'
  BY DEF PoolPartitioned, Holds
<1>4. HoldsByPhase' /\ LocksEnd'
  BY DEF HoldsByPhase, LocksEnd, TypeOK, Open
<1>5. ASSUME NEW q \in Requests PROVE Fine(q)'
  <2>1. CASE q = r
    <3>1. step[r] + 1 \in Undoable(r) /\ Len(Script(r)) \in {2, 3} /\ Needed(r) \subseteq 1..3
      BY <1>1, ScriptSets DEF Statement
    <3>2. /\ step'[r] = step[r] + 1 /\ buffered'[r] = buffered[r] \cup {step[r] + 1}
          /\ phase'[r] = "running" /\ saved'[r] = saved[r]
      BY DEF TypeOK
    <3>3. /\ \A k \in Needed(r) : k <= step[r] => k \in saved[r] \cup buffered[r]
          /\ buffered[r] \subseteq Undoable(r) /\ Undoable(r) \cap saved[r] = {}
          /\ Len(Script(r)) \in saved[r] => Finished(r)
      BY DEF Progress, Fine, Kept
    <3>4. \A k \in Needed(r) : k <= step[r] + 1 => k \in saved'[r] \cup buffered'[r]
      <4>1. \A k \in 1..3 : k <= step[r] + 1 => k <= step[r] \/ k = step[r] + 1
        BY <1>1
      <4>. QED BY <3>1, <3>2, <3>3, <4>1
    <3>5. Kept(r)'
      BY <3>2, <3>3 DEF Kept
    <3>6. step[r] + 1 <= Len(Script(r))
      BY <1>1, <3>1
    <3>. QED BY <2>1, <3>1, <3>2, <3>3, <3>4, <3>5, <3>6 DEF Fine, Open
  <2>2. CASE q # r
    BY <2>2, FineFrame DEF TypeOK, Progress
  <2>. QED BY <2>1, <2>2
<1>. QED BY <1>2, <1>3, <1>4, <1>5 DEF Progress

\* A pooled statement commits at once and gives its connection back.
LEMMA ExecuteKeeps == ASSUME Inv, NEW r \in Requests, Execute(r) PROVE Inv'
<1>. USE DEF Inv, Execute, ReturnSide, Goto
<1>1. step[r] < Len(Script(r)) /\ step[r] \in 0..2 /\ step[r] + 1 \in 1..Len(Script(r))
      /\ step[r] + 1 \notin Undoable(r)
  <2>1. step[r] \in 0..3 /\ step[r] < Len(Script(r)) /\ Script(r)[step[r] + 1].via = "pool"
    BY DEF Progress, Fine, TypeOK
  <2>2. Len(Script(r)) \in {2, 3}
    BY ScriptShape
  <2>3. step[r] + 1 \in 1..Len(Script(r))
    BY <2>1, <2>2
  <2>4. step[r] + 1 \notin Undoable(r)
    BY ONLY <2>1, <2>3, ScriptSets, r \in Requests
  <2>. QED BY ONLY <2>1, <2>2, <2>3, <2>4
<1>2. side[r] \in Connections
  BY DEF HoldsByPhase, TypeOK
<1>3. TypeOK'
  BY <1>1, <1>2 DEF TypeOK, Phases
<1>4. PoolPartitioned'
  BY <1>2, NamesAssumption DEF PoolPartitioned, Holds, TypeOK
<1>5. HoldsByPhase' /\ LocksEnd'
  BY NamesAssumption DEF HoldsByPhase, LocksEnd, TypeOK, Open
<1>6. ASSUME NEW q \in Requests PROVE Fine(q)'
  <2>1. CASE q = r
    <3>1. Len(Script(r)) \in {2, 3} /\ Needed(r) \subseteq 1..Len(Script(r))
      BY ScriptSets
    <3>2. /\ step'[r] = step[r] + 1 /\ buffered'[r] = buffered[r]
          /\ phase'[r] = "running" /\ saved'[r] = saved[r] \cup {step[r] + 1}
      BY DEF TypeOK
    <3>3. /\ \A k \in Needed(r) : k <= step[r] => k \in saved[r] \cup buffered[r]
          /\ buffered[r] \subseteq Undoable(r) /\ Undoable(r) \cap saved[r] = {}
          /\ Len(Script(r)) \in saved[r] => Finished(r)
      BY DEF Progress, Fine, Kept
    <3>4. \A k \in Needed(r) : k <= step[r] + 1 => k \in saved'[r] \cup buffered'[r]
      <4>1. \A k \in 1..Len(Script(r)) : k <= step[r] + 1 => k <= step[r] \/ k = step[r] + 1
        BY <1>1, <3>1
      <4>. QED BY <3>1, <3>2, <3>3, <4>1
    <3>5. Undoable(r) \cap saved'[r] = {}
      BY <1>1, <3>2, <3>3
    <3>6. ASSUME Len(Script(r)) \in saved'[r]
          PROVE  step'[r] = Len(Script(r)) /\ Needed(r) \ Undoable(r) \subseteq saved'[r]
      <4>1. step[r] + 1 = Len(Script(r))
        BY <1>1, <3>2, <3>3, <3>6 DEF Finished
      <4>2. \A k \in 1..Len(Script(r)) : k <= step[r] + 1
        BY <3>1, <4>1
      <4>. QED BY <3>1, <3>2, <3>3, <3>4, <4>1, <4>2
    <3>7. Kept(r)'
      BY <3>5, <3>6 DEF Kept, Finished
    <3>8. step[r] + 1 <= Len(Script(r))
      BY <1>1, <3>1
    <3>. QED BY <2>1, <3>2, <3>3, <3>4, <3>5, <3>7, <3>8 DEF Fine, Open
  <2>2. CASE q # r
    BY <2>2, FineFrame DEF TypeOK, Progress
  <2>. QED BY <2>1, <2>2
<1>. QED BY <1>3, <1>4, <1>5, <1>6 DEF Progress

\* A failing statement gives its own connection back and leaves the rest to a catch.
LEMMA FailureKeeps == ASSUME Inv, NEW r \in Requests, StatementFails(r) PROVE Inv'
<1>1. ~Finished(r)
  <2>1. ASSUME phase[r] = "executing" PROVE step[r] # Len(Script(r))
    BY <2>1 DEF Inv, Progress, Fine, TypeOK
  <2>. QED BY <2>1 DEF StatementFails, Finished
<1>2. PICK p \in {"running", "aborting"} :
        /\ phase' = [phase EXCEPT ![r] = p]
        /\ step' = [step EXCEPT ![r] = IF p = "running" THEN @ + 1 ELSE @]
  BY <1>1, ThrowsTo DEF StatementFails
<1>3. /\ step[r] + 1 \in 1..3 /\ step[r] \in 0..2
  BY <1>1, ThrowsTo, ScriptSets DEF StatementFails
<1>4. /\ UNCHANGED <<client, lock, buffered>>
      /\ \/ /\ phase[r] = "running" /\ side' = side /\ idle' = idle /\ saved' = saved
         \/ /\ phase[r] = "executing" /\ side[r] \in Connections
            /\ idle' = idle \cup {side[r]} /\ side' = [side EXCEPT ![r] = NoConnection]
            /\ saved' \in {saved, [saved EXCEPT ![r] = @ \cup {step[r] + 1}]}
  BY DEF Inv, StatementFails, ReturnSide, HoldsByPhase, TypeOK
<1>5. TypeOK'
  BY <1>2, <1>3, <1>4 DEF Inv, TypeOK, Phases
<1>6. PoolPartitioned'
  BY <1>4, NamesAssumption DEF Inv, PoolPartitioned, Holds, TypeOK
<1>7. HoldsByPhase' /\ LocksEnd'
  BY <1>2, <1>4, NamesAssumption DEF Inv, HoldsByPhase, LocksEnd, TypeOK, Open
<1>8. phase[r] = "executing" => Script(r)[step[r] + 1].via = "pool"
  BY DEF Inv, Progress, Fine
<1>9. Progress'
  BY <1>1, <1>4, <1>8, FineAfterError DEF StatementFails
<1>. QED BY <1>5, <1>6, <1>7, <1>9 DEF Inv

\* What COMMIT stores completes what the request needs.
LEMMA CommitStoresAll ==
  ASSUME Inv, NEW r \in Requests, phase[r] = "running", Finished(r)
  PROVE  Needed(r) \subseteq saved[r] \cup buffered[r]
<1>1. \A k \in Needed(r) : k <= Len(Script(r)) => k \in saved[r] \cup buffered[r]
  BY DEF Inv, Progress, Fine, Finished
<1>2. \A k \in 1..Len(Script(r)) : k <= Len(Script(r))
  BY ScriptSets
<1>. QED BY <1>1, <1>2, ScriptSets

\* A failing COMMIT may have stored everything or nothing of what it was to store.
LEMMA CommitFailureKeeps ==
  ASSUME Inv, NEW r \in Requests, CommitFails(r) PROVE Inv'
<1>. USE DEF Inv
<1>1. /\ phase[r] = "running" /\ Finished(r) /\ phase' = [phase EXCEPT ![r] = "aborting"]
      /\ UNCHANGED <<step, client, side, idle>>
      /\ \/ UNCHANGED <<lock, buffered, saved>>
         \/ /\ FreeLocks(r) /\ saved' = [saved EXCEPT ![r] = @ \cup buffered[r]]
            /\ buffered' = [buffered EXCEPT ![r] = {}]
  BY DEF CommitFails, Goto
<1>2. TypeOK' /\ PoolPartitioned'
  BY <1>1 DEF TypeOK, Phases, FreeLocks, PoolPartitioned, Holds
<1>3. HoldsByPhase'
  BY <1>1 DEF HoldsByPhase, TypeOK, Open
<1>4. LocksEnd'
  BY <1>1, NamesAssumption DEF LocksEnd, TypeOK, FreeLocks
<1>5. ASSUME NEW q \in Requests PROVE Fine(q)'
  <2>1. CASE q = r
    <3>1. phase'[r] = "aborting" /\ step'[r] = step[r] /\ step[r] = Len(Script(r))
      BY <1>1 DEF TypeOK, Finished
    <3>2. /\ Undoable(r) \cap saved[r] = {} /\ Needed(r) \subseteq saved[r] \cup buffered[r]
          /\ buffered[r] \subseteq Undoable(r)
      BY <1>1, CommitStoresAll DEF Progress, Fine
    <3>3. Needed(r) \ Undoable(r) \subseteq saved'[r]
      BY <1>1, <3>2 DEF TypeOK
    <3>4. Undoable(r) \cap saved'[r] = {} \/ Needed(r) \subseteq saved'[r]
      BY <1>1, <3>2 DEF TypeOK
    <3>5. Kept(r)'
      BY <3>1, <3>3, <3>4 DEF Kept, Finished
    <3>6. step[r] <= Len(Script(r))
      BY DEF Progress, Fine
    <3>. QED BY <2>1, <3>1, <3>5, <3>6 DEF Fine, Open
  <2>2. CASE q # r
    BY <1>1, <2>2, FineFrame DEF TypeOK, Progress
  <2>. QED BY <2>1, <2>2
<1>. QED BY <1>2, <1>3, <1>4, <1>5 DEF Progress

\* The end of a transaction releases its client and its rows.
LEMMA FinishKeeps == ASSUME Inv, NEW r \in Requests, Finish(r) PROVE Inv'
<1>. USE DEF Inv
<1>1. /\ phase[r] \in {"running", "aborting"} /\ client[r] \in Connections
      /\ ReleaseClient(r) /\ FreeLocks(r) /\ side' = side /\ step' = step
      /\ \E p \in {"ok", "error"} : phase' = [phase EXCEPT ![r] = p]
      /\ buffered' = [buffered EXCEPT ![r] = {}]
      /\ \/ saved' = saved
         \/ saved' = [saved EXCEPT ![r] = @ \cup buffered[r]]
  BY DEF Finish, Commit, Rollback, Goto, HoldsByPhase, TypeOK, Open
<1>2. side[r] = NoConnection
  BY <1>1 DEF HoldsByPhase
<1>3. TypeOK'
  BY <1>1 DEF TypeOK, Phases, ReleaseClient, FreeLocks
<1>4. PoolPartitioned'
  BY <1>1, <1>2, NamesAssumption DEF PoolPartitioned, Holds, TypeOK, ReleaseClient
<1>5. HoldsByPhase'
  BY <1>1, <1>2, NamesAssumption DEF HoldsByPhase, TypeOK, Open, ReleaseClient
<1>6. LocksEnd'
  BY <1>1, NamesAssumption DEF LocksEnd, TypeOK, FreeLocks, ReleaseClient
<1>7. ASSUME NEW q \in Requests PROVE Fine(q)'
  <2>1. CASE q = r /\ Commit(r)
    <3>1. /\ phase'[r] = "ok" /\ step'[r] = Len(Script(r)) /\ buffered'[r] = {}
          /\ Needed(r) \subseteq saved'[r]
      BY <2>1, CommitStoresAll DEF Commit, Goto, Finished, TypeOK
    <3>2. Kept(r)'
      <4>1. \A k \in Needed(r) \ Undoable(r) : k \in saved'[r]
        BY <3>1
      <4>. QED BY <3>1, <4>1 DEF Kept, Finished
    <3>. QED BY <2>1, <3>1, <3>2, ScriptSets DEF Fine, Open
  <2>2. CASE q = r /\ Rollback(r)
    <3>1. /\ phase'[r] = "error" /\ step'[r] = step[r] /\ buffered'[r] = {}
          /\ saved'[r] = saved[r] /\ phase[r] = "aborting"
      BY <2>2 DEF Rollback, Goto, TypeOK
    <3>. QED BY <2>2, <3>1 DEF Fine, Kept, Finished, Progress, Open
  <2>3. CASE q # r
    BY <1>1, <2>3, FineFrame DEF TypeOK, Progress
  <2>. QED BY <2>1, <2>2, <2>3 DEF Finish
<1>. QED BY <1>3, <1>4, <1>5, <1>6, <1>7 DEF Progress

\* Inv is inductive.
LEMMA InvStep == Inv /\ [Next]_vars => Inv'
<1>. SUFFICES ASSUME Inv, [Next]_vars PROVE Inv'
  OBVIOUS
<1>1. CASE Next
  BY <1>1, ArriveKeeps, LendKeeps, TimeoutKeeps, ClientStatementKeeps, ExecuteKeeps,
     FailureKeeps, CommitFailureKeeps, FinishKeeps DEF Next, GetConnection, RunStatement
<1>2. CASE UNCHANGED vars
  <2>1. ASSUME NEW q \in Requests PROVE Fine(q)'
    BY <1>2, FineFrame DEF Inv, Progress, vars
  <2>2. TypeOK' /\ PoolPartitioned' /\ HoldsByPhase' /\ LocksEnd'
    BY <1>2 DEF Inv, vars, TypeOK, PoolPartitioned, Holds, HoldsByPhase, LocksEnd
  <2>. QED BY <2>1, <2>2 DEF Inv, Progress
<1>. QED BY <1>1, <1>2

\* Every variable keeps its type, for every pool and every mix of requests: above all,
\* no request counts past the end of its statements.
THEOREM TypeCorrect == Spec => []TypeOK
<1>1. Inv => TypeOK
  BY DEF Inv
<1>. QED BY InvInit, InvStep, <1>1, PTL DEF Spec

\* For every pool and every mix of requests: a connection is in the pool or lent to
\* exactly one request, once.
THEOREM ConnectionsNeverLost == Spec => []PoolPartitioned
<1>1. Inv => PoolPartitioned
  BY DEF Inv
<1>. QED BY InvInit, InvStep, <1>1, PTL DEF Spec

\* For every instance: an answered request holds no row.
THEOREM RowsReleased == Spec => []LocksEnd
<1>1. Inv => LocksEnd
  BY DEF Inv
<1>. QED BY InvInit, InvStep, <1>1, PTL DEF Spec

\* For every instance and whatever fails: told ok, all a request needs is stored; told
\* error, nothing of its transaction is, unless COMMIT was sent and all it needs is; the
\* log is stored after every change of a helper and before nothing but COMMIT.
THEOREM AnswersTrue == Spec => []OutcomeFaithful
<1>1. Inv => OutcomeFaithful
  BY DEF Inv, Progress, Fine, Kept, OutcomeFaithful
<1>. QED BY InvInit, InvStep, <1>1, PTL DEF Spec

================================================================================
