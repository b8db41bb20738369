SPECIFICATION Spec
CONSTANTS
  Devices = {d1, d2}
  NoDevice = NoDevice
  MaxStarts = 2
  MaxBroadcasts = 1
INVARIANTS
  TypeOK
  SurvivesOrdinaryUse
  OneDeviceIsSafe
PROPERTIES
  QuietAfterDestroy
CHECK_DEADLOCK FALSE
