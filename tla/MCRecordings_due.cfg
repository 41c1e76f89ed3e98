SPECIFICATION FairSpec
CONSTANTS
  r1 = r1
  r2 = r2
  w1 = w1
  w2 = w2
  c1 = c1
  c2 = c2
  p1 = p1
  p2 = p2
  None = None
  Recs <- TwoRecs
  RuleRecs <- TwoRecs
  Workers = {w1}
  Clients = {}
  Paths = {p1, p2}
  PathOf <- OwnFile
  DueLimit = 1
  MaxCrashes = 0
  MaxFaults = 0
PROPERTIES DueSettles
CHECK_DEADLOCK FALSE
