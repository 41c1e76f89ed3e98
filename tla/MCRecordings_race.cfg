SPECIFICATION Spec
CONSTANTS
  r1 = r1
  r2 = r2
  w1 = w1
  w2 = w2
  c1 = c1
  c2 = c2
  p1 = p1
  p2 = p2
  None = None
  Recs <- OneRec
  RuleRecs = {}
  Workers = {w1, w2}
  Clients = {c1}
  Paths = {p1}
  PathOf <- OneFile
  DueLimit = 1
  MaxCrashes = 0
  MaxFaults = 0
SYMMETRY Interchangeable
INVARIANTS TypeOK RegistryPointsAtCapture SignalledCancelSticks
 
CHECK_DEADLOCK FALSE
