SPECIFICATION FairSpec
CONSTANTS
  Files <- MCFiles
  Content <- MCContent
  Backups <- MCBackups
  Boxes <- MCBoxes
  StockedIds <- MCStock
  MaxArticle = 4
  MaxSequence = 5
  MaxBusy = 2
  MaxPending = 2
  MaxCrashes = 1
INVARIANTS ReimportAddsNothing
PROPERTIES InboxDrains
CHECK_DEADLOCK FALSE
