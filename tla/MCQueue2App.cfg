SPECIFICATION Spec
CONSTANTS
  NumCameras = 1
  MaxQueue = 1
  MaxFrames = 5
PROPERTIES LastFrameIsPushed RepeatFlows
CHECK_DEADLOCK FALSE
