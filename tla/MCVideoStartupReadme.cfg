SPECIFICATION Spec
CONSTANTS
  NumCameras = 1
  MaxQueue = 0
  MaxFrames = 1
  MaxDevices = 1
PROPERTY VideoIsSeen
CHECK_DEADLOCK FALSE
