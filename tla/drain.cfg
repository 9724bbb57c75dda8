SPECIFICATION FairSpec
CONSTANTS
  Items = {a, b}
  Tasks = {t1}
  Handlers = {h1}
  MaxRunning = 1
  MaxWaiting = 1
  Limit = 5
  Requests = {"restart"}
  Outcomes = {"review"}
  AutoDispatch = TRUE
  AutoRework = FALSE
  InitialStatuses = {"notStarted"}
  MaxLate = 1
  MaxFaults = 1
  MaxCrashes = 1
  NoItem = NoItem
INVARIANTS CapAccounted RunningIsOwned
PROPERTIES BacklogSettles
CHECK_DEADLOCK FALSE
