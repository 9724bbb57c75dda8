SPECIFICATION FairSpec
CONSTANTS
  r1 = r1  r2 = r2  r3 = r3  r4 = r4  c1 = c1  c2 = c2  c3 = c3  w1 = w1  w2 = w2
  Requests = {r1, r2}
  Connections = {c1, c2, c3}
  Rows = {w1, w2}
  Work <- ResetWork
  Target <- ResetTarget
  Part <- ResetTarget
  Nobody = Nobody
  NoRow = NoRow
  NoConnection = NoConnection
PROPERTIES ResetEnds
