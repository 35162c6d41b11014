SPECIFICATION SafeSpec
CONSTANTS
  Clients = {c1, c2, c3}
  Workers = {w1, w2}
  MaxBatch = 2
  MaxLatency = 1
  MaxRequests = 2
  MaxClockSteps = 0
  MaxCrashes = 1
SYMMETRY Symmetry
INVARIANTS
  BatchesRegistered
  NoBatchLeaks
  RepliesRouted
  OneCopy
  BatchBounded
  RecvNeverBlocks
