------------------------------- MODULE MCCreation -------------------------------
(***************************************************************************)
(* The three flows that take goods in, on small instances: a device is     *)
(* entered (Creation), things are put away with the camera (Placement), or *)
(* files are imported (CsvInbox).  They share no state, so a behaviour     *)
(* runs through one of them.                                               *)
(***************************************************************************)
EXTENDS Creation, CsvFiles, TLC

CONSTANTS
  Things, MaxHistory, MaxRequests,                     \* Placement
  Files, Content, Backups, Boxes, StockedIds,          \* CsvInbox
  MaxNamed, MaxSequence, MaxBusy, MaxPending, MaxCrashes

VARIABLES
  flow,
  mode, entries, view, scanner, requests, returns, scanned, where, anew, walk,
  content, place, zeroed, runsFile, imp, pending, boxes, named, items, runs, lost, crashes

Placing == INSTANCE Placement
Inbox == INSTANCE CsvInbox WITH
  MaxArticle <- MaxNamed, refs <- named

ASSUME InboxAssumption == Inbox!UploadsFit /\ Inbox!BoundsFit

placing == <<mode, entries, view, scanner, requests, returns, scanned, where, anew, walk>>
inbox == <<content, place, zeroed, runsFile, imp, pending, boxes, named, items, runs, lost,
           crashes>>
intake == <<flow, vars, placing, inbox>>

\* Of a flow that does not run one initial state is enough; the inbox has none.
AtRest == mode = "items" /\ where = [t \in Things |-> "here"]

NoInbox ==
  /\ content = 0 /\ place = 0 /\ zeroed = 0 /\ runsFile = 0 /\ imp = 0 /\ pending = 0
  /\ boxes = 0 /\ named = 0 /\ items = 0 /\ runs = 0 /\ lost = 0 /\ crashes = 0

MCInit ==
  /\ flow \in {"creation", "placement", "import"}
  /\ Init /\ Placing!Init
  /\ flow # "placement" => AtRest
  /\ IF flow = "import" THEN Inbox!Init ELSE NoInbox

MCNext ==
  /\ UNCHANGED flow
  /\ \/ flow = "creation" /\ Next /\ UNCHANGED <<placing, inbox>>
     \/ flow = "placement" /\ Placing!Next /\ UNCHANGED <<vars, inbox>>
     \/ flow = "import" /\ Inbox!Next /\ UNCHANGED <<vars, placing>>

MCSpec == MCInit /\ [][MCNext]_intake

ConfirmedStays == Placing!ConfirmedStays
InboxTyped == flow = "import" => Inbox!TypeOK
ArchivedRowsLand == flow = "import" => Inbox!ArchivedRowsLand

\* No property and no action tells the wizards apart, nor the things.
IntakeSymmetry == Permutations(Tabs) \cup Permutations(Things)
=============================================================================
