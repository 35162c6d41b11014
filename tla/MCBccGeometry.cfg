CONSTANTS
  Cameras = {c1, c2, c3}
  Frames <- SmallFrames
  SendWidth = 40
  InWidth = 40
  InHeight = 24
  InBatch = 2
SPECIFICATION Spec
SYMMETRY Symmetry
INVARIANT PicturesInside
INVARIANT OwnPictureOnly
INVARIANT SeenWhereDrawn
INVARIANT OnlyTheRestIsOutside
