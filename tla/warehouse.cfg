SPECIFICATION MCSpec
CONSTANTS
  Handlers = {h1, h2}
  MaxSeq = 1
  Last = 2
  BoxAttempts = 2
  ItemAttempts = 2
  Days = 2
  ScanIds <- Scanned
  Start <- OneBox
  MaxFaults = 1
  MaxDeletes = 1
  Invocations = {1, 2}
  Requests = {r1}
  KeepRecent = 1
  MaxRequests = 1
  Jobs = {1, 2, 3}
  Batch = 2
  Runs = {w1, w2}
  MaxRetries = 1
  MaxCrashes = 1
  Pieces = {p1, p2}
  Marks = {m1, m2}
  None = None
  MaxRef = 2
  MaxIssued = 4
  Calls = {"catalog", "newRef", "unlinkPart", "removeDevice", "take", "move", "link", "intake"}
  DeviceBoxes = {"box"}
  Slots = {"slot"}
  Boxes = {"box", "shelf"}
  Shelves = {"shelf"}
  Notes = {"note"}
  Items = {"item"}
  Values = {"yes"}
  MaxClicks = 3
  MaxForeign = 1
INVARIANTS
  TypesOK
  KnownIdsSafe
  EscapedOnlyByRace
  InOneHand
  LostOnlyByRace
  SerialTwiceOnlyByRace
  DonorMarked
  PlaceUndoneOnlyUnseen
  RestShowsStored
  DoubledOnlyUnseen
  AnswersKept
PROPERTIES SyncKeepsContract
SYMMETRY Symmetry
CHECK_DEADLOCK FALSE
