CONSTANTS
  Frames <- MCFewFrames
  NoFrame <- MCNoFrame
  MAX_FRAME = 1
  FRAME_POOL_SZ = 1
  MaxSessions = 2
  MaxPictures = 2
SPECIFICATION FairSpec
CHECK_DEADLOCK FALSE
PROPERTIES
  StopReturns
  QueueDrains
