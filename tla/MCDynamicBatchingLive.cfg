SPECIFICATION Spec
CONSTANTS
  Clients = {c1, c2}
  Workers = {w1, w2}
  MaxBatch = 2
  MaxLatency = 1
  MaxRequests = 1
  MaxClockSteps = 1
  MaxCrashes = 1
PROPERTIES
  ServiceSpec
