SPECIFICATION Spec
CONSTANTS
  FrameSize = 3
  MaxSize = 3
  MetaSize = 1
  Damages = {}
  MaxShots = 3
PROPERTIES
  WholeFrames
CHECK_DEADLOCK FALSE
