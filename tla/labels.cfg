SPECIFICATION FairSpec
CONSTANTS
  i1 = i1  i2 = i2  w1 = w1  w2 = w2
  Items = {i1}
  Count = 1
  ItemOf <- OneLabel
  Workers = {w1, w2}
  MaxAttempts = 2
  MaxSlow = 1
  MaxFaults = 1
  NoJob = NoJob
INVARIANTS DonePrinted PagesExplained
PROPERTIES ImplementsContract
