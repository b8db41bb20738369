SPECIFICATION Spec
CONSTANTS
  FrameSize = 3
  MaxSize = 5
  MetaSize = 1
  Damages = {"lost", "bogus"}
  MaxShots = 5
INVARIANTS
  NoOverflow
  MixedAcrossLostShotsOnly
PROPERTIES
  WholeFrames
CHECK_DEADLOCK FALSE
