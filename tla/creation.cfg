SPECIFICATION MCSpec
CONSTANTS
  Tabs = {t1, t2}
  MaxDevice = 2
  MaxArticle = 3
  MaxUnits = 2
  MaxFaults = 1
  Known = {1}
  Stocked = {1}
  Things = {i1, i2}
  MaxHistory = 3
  MaxRequests = 2
  Files <- ItemFiles
  Content <- ItemContent
  Backups <- MCBackups
  Boxes <- MCBoxes
  StockedIds <- MCStock
  MaxNamed = 4
  MaxSequence = 5
  MaxBusy = 2
  MaxPending = 2
  MaxCrashes = 1
INVARIANTS ForeignReviewOnlyAfterSkip SharedOnlyByRace CountedAsAsked ArticleHasRun ConfirmedStays InboxTyped
           ArchivedRowsLand
SYMMETRY IntakeSymmetry
CHECK_DEADLOCK FALSE
