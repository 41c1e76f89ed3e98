SPECIFICATION FairSpec
CONSTANTS
  r1 = r1
  r2 = r2
  Requests = {r1, r2}
  Ranges <- TwoRanges
  Size = 4
  TrimTo = 1
  Max = 2
  Hard = 3
  Ahead = 2
  PreBuffer = 2
  MaxWrite = 2
  MaxReconnects = 1
INVARIANTS TypeOK KeepsWhatRequestsNeed
PROPERTIES ServesRanges SleeperIsWoken EvictedSlotEnds
