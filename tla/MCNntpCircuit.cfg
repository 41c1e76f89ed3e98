SPECIFICATION FairSpec
CONSTANTS
  p1 = p1
  p2 = p2
  s1 = s1
  s2 = s2
  c1 = c1
  c2 = c2
  Providers = {p1, p2}
  Order <- ListOrder
  Checks = {c1, c2}
  Segments = {s1, s2}
  Samples = {{s1}, {s2}}
  Stored <- StoredHere
  Timeout = 1
  BaseBackoff = 2
  MaxBackoff = 3
  MaxEpoch = 2
INVARIANTS TypeOK ProbeIsExclusive VerdictSound
PROPERTIES BackoffOnlyByProbe ImplementsGate ProbeSettles
