------------------------------- MODULE MintedIds -------------------------------
(* The parameters of IdMinting, the ids it knows, and what is assumed of them. *)
EXTENDS Integers

CONSTANTS
  Handlers,     \* bound: requests in flight at once
  MaxSeq,       \* the highest number of four digits
  Last,         \* bound: numbers minted up to here
  BoxAttempts,  \* maxAttempts of create-box (25)
  ItemAttempts, \* attempts of add-item (5)
  Days,         \* bound: the days of the run are 1..Days
  ScanIds,      \* box ids on scanned labels
  Start,        \* ids in the database at the start
  MaxFaults,    \* bound: failing statements
  MaxDeletes    \* bound: deletions

\* An id: a minted box id of a day, a scanned id whose date part has letters
\* ("coded") or whose number part does ("text"), or an item of the Artikelnummer.
Id(k, d, n) == [kind |-> k, day |-> d, num |-> n]
NoId == Id("none", 0, 0)
Ids == [kind : {"auto"}, day : 1..Days, num : 1..Last]
       \cup [kind : {"item"}, day : {0}, num : 1..Last]
       \cup ScanIds

ASSUME NumbersAssumption ==
  MaxSeq \in Nat /\ Last \in Nat \ {0} /\ Days \in Nat \ {0}
  /\ MaxFaults \in Nat /\ MaxDeletes \in Nat
ASSUME AttemptsAssumption == BoxAttempts \in Nat \ {0} /\ ItemAttempts \in Nat \ {0}
ASSUME ScanAssumption ==
  ScanIds \subseteq [kind : {"coded", "text"}, day : {0}, num : 0..MaxSeq]
ASSUME StartAssumption == Start \subseteq Ids
=============================================================================
