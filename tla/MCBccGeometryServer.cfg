CONSTANTS
  Cameras = {c1}
  Frames <- ServerFrames
  SendWidth = 960
  InWidth = 1000
  InHeight = 800
  InBatch = 3
SPECIFICATION Spec
INVARIANT DrawsTheHeatmap
