SPECIFICATION Spec
CONSTANTS
  LastItem = 2
  unplaced = unplaced
  Filters = {unplaced}
  Match <- MCMatch
  Commands = {"review", "start", "restart", "rework", "cancel", "close", "link", "delete", "remove", "shop", "add", "media", "edit", "sync", "createAndMove", "kiStop"}
  Together = {"media", "cancel"}
  Commanded = {"panel"}
  Tasks = {h1, h2}
INVARIANTS ShownBelongs AnswersReachTheAsker BulkNamesListed
SYMMETRY TaskSymmetry
CHECK_DEADLOCK FALSE
