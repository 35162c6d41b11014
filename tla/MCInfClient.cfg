SPECIFICATION Spec
CONSTANTS
  MaxRequests = 5
INVARIANTS
  ResultsInOrder
  ExchangeIsCovered
  AtMostOneSlips
PROPERTIES
  LossIsForever
  EveryRequestIsShown
  CameraKeepsRunning
