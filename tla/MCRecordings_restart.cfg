SPECIFICATION CodeSpec
CONSTANTS
  r1 = r1
  r2 = r2
  w1 = w1
  w2 = w2
  c1 = c1
  c2 = c2
  p1 = p1
  p2 = p2
  None = None
  Recs <- OneRec
  RuleRecs <- OneRec
  Workers = {w1}
  Clients = {c1}
  Paths = {p1, p2}
  PathOf <- OneFile
  DueLimit = 1
  MaxCrashes = 1
  MaxFaults = 1

INVARIANTS OwnedRows
PROPERTIES RetriedFileIsRepaired StopDrains SignalledCaptureEnds
 
CHECK_DEADLOCK FALSE
