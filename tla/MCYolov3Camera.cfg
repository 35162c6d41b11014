CONSTANTS
  Labels = {person, car}
  HostFound = TRUE
  MaxObjects = 2
  MaxResults = 3
  MaxTracks = 3
  person = person
  car = car
SPECIFICATION Spec
CHECK_DEADLOCK FALSE
INVARIANT NumbersAreDense
PROPERTY NumbersAreKept
INVARIANT ShowsLastResult
INVARIANT EveryResultIsCounted
