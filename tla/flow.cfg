SPECIFICATION FairSpec
CONSTANTS
  MaxAttempts = 3
  MaxPlans = 2
  AutoApproveEnabled = TRUE
INVARIANTS JudgedWithNewest StoredAsJudged
PROPERTIES ImplementsInvocation
CHECK_DEADLOCK FALSE
