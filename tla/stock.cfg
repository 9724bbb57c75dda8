SPECIFICATION Spec
CONSTANTS
  Items = {i, j}
  Boxes = {b1}
  Shelves = {s1}
  Handlers = {h1, h2}
  MaxQty = 2
  MaxDrift = 1
  MaxCrashes = 1
  Requests = {"remove", "add", "move", "bulkMove", "clear", "delete", "bulkDelete", "createBox", "moveBox", "deleteBox"}
  Starts = {{i, j}, {i}}
  BulkKinds = {{i}, {}}
  StartBoxes = {b1}
  NoItem = NoItem
  NoBox = NoBox
  NoShelf = NoShelf
SYMMETRY Symmetry
INVARIANTS NoUnbookedLoss BoxReferences
