------------------------------ MODULE MCWarehouse ------------------------------
(***************************************************************************)
(* Seven flows about the goods of the warehouse that have no state in      *)
(* common: an article and its export (Catalog), the ids of boxes and       *)
(* items, the queue of the shop, a device and its parts, and the pages of  *)
(* a box and of a device.  A behaviour runs through one of them, the       *)
(* others stay as they began.                                              *)
(***************************************************************************)
EXTENDS Catalog, MintedIds, TLC

CONSTANTS
  Jobs, Batch, Runs, MaxRetries, MaxCrashes,               \* ShopwareQueue
  Pieces,              \* parts; also questions of a card, loads of a page
  Marks,               \* loads of the parts; also places of boxes
  DeviceBoxes, Slots, MaxRef, MaxIssued, Calls,            \* Assemblies
  Boxes, Shelves, Notes, Items, Values,                    \* the pages
  MaxClicks, MaxForeign,
  None

ASSUME ShopAssumption == MaxRetries \in Nat /\ MaxCrashes \in Nat
ASSUME DeviceAssumption == MaxRef \in Nat \ {0} /\ MaxIssued \in Nat
ASSUME PagesAssumption == MaxClicks \in Nat /\ MaxForeign \in Nat

VARIABLES
  flow,
  taken, today, minting, since, faults, deletes,
  status, retries, due, batch, updates, crashes,
  device, rows, ref, box, relation, slot, scanned, boxes, refs, compat,
  incomplete, excused, lost, repeated, request, budget,
  boxRows, place, note, inside, keyed, page, load, boxTask, boxClicks, boxForeign, undone,
  where, listed, known, popup, fetch, partTask, doubled, partClicks, partForeign,
  answers, shown, reading, pending, answerTask, given, unsettled, answerClicks, answerForeign

Minting == INSTANCE IdMinting WITH req <- minting
Shop == INSTANCE ShopwareQueue WITH writes <- updates
Device == INSTANCE Assemblies WITH
  Parts <- Pieces, Boxes <- DeviceBoxes, MaxRequests <- MaxIssued,
  NoSlot <- None, NoBox <- None, NoPart <- None, doubled <- repeated, req <- request
BoxPage == INSTANCE BoxDetail WITH
  Places <- Marks, Loads <- Pieces, Tasks <- Handlers,
  NoBox <- None, NoPlace <- None, NoNote <- None, NoItem <- None,
  rows <- boxRows, task <- boxTask, clicks <- boxClicks, foreign <- boxForeign
PartPage == INSTANCE SparePartSlot WITH
  Parts <- Pieces, Fetches <- Marks, Tasks <- Handlers, NoPart <- None,
  shown <- listed, task <- partTask, clicks <- partClicks, foreign <- partForeign
AnswerPage == INSTANCE SlotAnswers WITH
  Questions <- Pieces, Tasks <- Handlers, NoQuestion <- None, Unanswered <- None,
  task <- answerTask, clicks <- answerClicks, foreign <- answerForeign

article == vars
ids == <<taken, today, minting, since, faults, deletes>>
shop == <<status, retries, due, batch, updates, crashes>>
assembly == <<device, rows, ref, box, relation, slot, scanned, boxes, refs, compat,
              incomplete, excused, lost, repeated, request, budget>>
boxPage == <<boxRows, place, note, inside, keyed, page, load, boxTask, boxClicks, boxForeign,
             undone>>
partPage == <<where, listed, known, popup, fetch, partTask, doubled, partClicks, partForeign>>
answerPage == <<answers, shown, reading, pending, answerTask, given, unsettled, answerClicks,
                answerForeign>>
warehouse == <<flow, article, ids, shop, assembly, boxPage, partPage, answerPage>>

-----------------------------------------------------------------------------

\* The variables of a flow that does not run are 0.
NoArticle ==
  /\ text = 0 /\ marked = 0 /\ row = 0 /\ inv = 0 /\ log = 0 /\ kept = 0 /\ op = 0
  /\ requests = 0 /\ sync = 0 /\ erp = 0 /\ made = 0 /\ human = 0 /\ cleared = 0
  /\ late = 0
NoIds ==
  /\ taken = 0 /\ today = 0 /\ minting = 0 /\ since = 0 /\ faults = 0 /\ deletes = 0
NoShop ==
  /\ status = 0 /\ retries = 0 /\ due = 0 /\ batch = 0 /\ updates = 0 /\ crashes = 0
NoDevice ==
  /\ device = 0 /\ rows = 0 /\ ref = 0 /\ box = 0 /\ relation = 0 /\ slot = 0
  /\ scanned = 0 /\ boxes = 0 /\ refs = 0 /\ compat = 0 /\ incomplete = 0 /\ excused = 0
  /\ lost = 0 /\ repeated = 0 /\ request = 0 /\ budget = 0
NoBoxPage ==
  /\ boxRows = 0 /\ place = 0 /\ note = 0 /\ inside = 0 /\ keyed = 0 /\ page = 0
  /\ load = 0 /\ boxTask = 0 /\ boxClicks = 0 /\ boxForeign = 0 /\ undone = 0
NoPartPage ==
  /\ where = 0 /\ listed = 0 /\ known = 0 /\ popup = 0 /\ fetch = 0 /\ partTask = 0
  /\ doubled = 0 /\ partClicks = 0 /\ partForeign = 0
NoAnswerPage ==
  /\ answers = 0 /\ shown = 0 /\ reading = 0 /\ pending = 0 /\ answerTask = 0 /\ given = 0
  /\ unsettled = 0 /\ answerClicks = 0 /\ answerForeign = 0

MCInit ==
  /\ flow \in {"article", "ids", "shop", "device", "box", "parts", "answers"}
  /\ IF flow = "article" THEN Init ELSE NoArticle
  /\ IF flow = "ids" THEN Minting!Init ELSE NoIds
  /\ IF flow = "shop" THEN Shop!Init ELSE NoShop
  /\ IF flow = "device" THEN Device!Init ELSE NoDevice
  /\ IF flow = "box" THEN BoxPage!Init ELSE NoBoxPage
  /\ IF flow = "parts" THEN PartPage!Init ELSE NoPartPage
  /\ IF flow = "answers" THEN AnswerPage!Init ELSE NoAnswerPage

\* An export that has read the article goes on alone, for what others do by then does
\* not change what it gives away; with it the behaviour ends.
Describe == Next /\ IF sync.status # "idle" THEN sync' # sync ELSE erp = {}

MCNext ==
  /\ UNCHANGED flow
  /\ \/ /\ flow = "article" /\ Describe
        /\ UNCHANGED <<ids, shop, assembly, boxPage, partPage, answerPage>>
     \/ /\ flow = "ids" /\ Minting!Next
        /\ UNCHANGED <<article, shop, assembly, boxPage, partPage, answerPage>>
     \/ /\ flow = "shop" /\ Shop!Next
        /\ UNCHANGED <<article, ids, assembly, boxPage, partPage, answerPage>>
     \/ /\ flow = "device" /\ Device!Next
        /\ UNCHANGED <<article, ids, shop, boxPage, partPage, answerPage>>
     \/ /\ flow = "box" /\ BoxPage!Next
        /\ UNCHANGED <<article, ids, shop, assembly, partPage, answerPage>>
     \/ /\ flow = "parts" /\ PartPage!Next
        /\ UNCHANGED <<article, ids, shop, assembly, boxPage, answerPage>>
     \/ /\ flow = "answers" /\ AnswerPage!Next
        /\ UNCHANGED <<article, ids, shop, assembly, boxPage, partPage>>

MCSpec == MCInit /\ [][MCNext]_warehouse

-----------------------------------------------------------------------------

\* The variables of the flow have their types.
TypesOK ==
  /\ flow = "article" => TypeOK
  /\ flow = "ids" => Minting!TypeOK
  /\ flow = "shop" => Shop!TypeOK
  /\ flow = "device" => Device!TypeOK
  /\ flow = "box" => BoxPage!TypeOK
  /\ flow = "parts" => PartPage!TypeOK
  /\ flow = "answers" => AnswerPage!TypeOK

EscapedOnlyByRace == flow = "article" => OnlyRacesEscape
KnownIdsSafe == flow = "ids" => Minting!KnownIdsSafe
InOneHand == flow = "shop" => Shop!InOneHand
LostOnlyByRace == flow = "device" => Device!LostOnlyByRace
SerialTwiceOnlyByRace == flow = "device" => Device!SerialTwiceOnlyByRace
DonorMarked == flow = "device" => Device!DonorMarked
PlaceUndoneOnlyUnseen == flow = "box" => BoxPage!PlaceUndoneOnlyUnseen
RestShowsStored == flow = "box" => BoxPage!RestShowsStored
DoubledOnlyUnseen == flow = "parts" => PartPage!DoubledOnlyUnseen
AnswersKept == flow = "answers" => AnswerPage!AnswersKept

ShopContract == INSTANCE JobContract WITH
  job <- IF flow = "shop" THEN Shop!job ELSE [j \in Jobs |-> "none"]
SyncKeepsContract == ShopContract!Safe

\* A box or an item in the database at the start, and the labels that are scanned.
OneBox == {Id("auto", 1, 1), Id("item", 0, 1)}
Scanned == {Id("coded", 0, 1), Id("text", 0, 0)}

Symmetry == Permutations(Handlers) \cup Permutations(Pieces) \cup Permutations(Marks)
================================================================================
