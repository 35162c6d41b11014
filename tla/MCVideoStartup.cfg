SPECIFICATION Spec
CONSTANTS
  NumCameras = 2
  MaxQueue = 0
  MaxFrames = 1
  MaxDevices = 2
INVARIANTS DevicesBalanced NeverAsleep
PROPERTIES OutputFlows CamerasShown
CHECK_DEADLOCK FALSE
