SPECIFICATION Spec
CONSTANTS
  Items = {a}
  Tasks = {t1, t2}
  Handlers = {h1}
  MaxRunning = 1
  MaxWaiting = 1
  Limit = 5
  Requests = {"seed", "start", "restart", "queueAll", "queueMissing", "restartFailed", "cancel", "review", "close", "triggerFailed", "unlink"}
  Outcomes = {"review", "failed"}
  AutoDispatch = TRUE
  AutoRework = TRUE
  InitialStatuses = {"absent"}
  MaxLate = 1
  MaxFaults = 1
  MaxCrashes = 1
  NoItem = NoItem
SYMMETRY Symmetry
PROPERTIES SettledDurable
CHECK_DEADLOCK FALSE
