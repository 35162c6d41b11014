SPECIFICATION Spec
CONSTANTS
  NumCameras = 2
  MaxQueue = 1
  MaxFrames = 3
  Buffers = {b1, b2, b3}
  NoBuffer = NoBuffer
  MaxInFlight = 2
  PtsRange = 2
INVARIANTS QueueBounded FramesInOrder BuffersAccounted OutputIsCurrent
PROPERTIES WallSpec KeptFramesAreShown OutputGoesOn
