SPECIFICATION FairSpec
CONSTANTS
  p1 = p1
  p2 = p2
  c1 = c1
  c2 = c2
  c3 = c3
  Providers = {p1, p2}
  Callers = {c1, c2, c3}
  Hints = {0, 7}
  Timeout = 1
  Cooldown = 2
  MaxCooldown = 6
INVARIANTS TypeOK ProbeIsSole
PROPERTIES ImplementsGate SentProbeSettles
