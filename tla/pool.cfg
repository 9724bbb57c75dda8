SPECIFICATION FairSpec
CONSTANTS
  r1 = r1  r2 = r2  r3 = r3  r4 = r4  c1 = c1  c2 = c2  c3 = c3  w1 = w1  w2 = w2
  Requests = {r1, r2, r3, r4}
  Connections = {c1, c2}
  Rows = {w1, w2}
  Work <- MixedWork
  Target <- MixedTarget
  Part <- MixedPart
  Nobody = Nobody
  NoRow = NoRow
  NoConnection = NoConnection
INVARIANTS PoolPartitioned LocksEnd OutcomeFaithful
PROPERTIES AllAnswered
