CONSTANTS
  Frames <- MCFrames
  NoFrame <- MCNoFrame
  MAX_FRAME = 2
  FRAME_POOL_SZ = 2
  MaxSessions = 2
  MaxPictures = 3
SPECIFICATION FairSpec
CHECK_DEADLOCK FALSE
INVARIANTS
  TypeOK
  SingleOwner
  LeakBound
  Quiescent
  NoMissedFrame
  ModesAgree
  Footprint
PROPERTIES
  PaintedInOrder
