SPECIFICATION FairSpec
CONSTANTS
  Packets <- MCPackets
  Sizes <- MCSizes
  PacketSize = 5
  Wanted = {2, 4}
  Requested = TRUE
  Threshold = 4
  QueueSize = 2
  MaxLosses = 3
INVARIANTS
  TypeOK
  CountsFollow
  TornByLossOnly
PROPERTIES
  StartsAfresh
CHECK_DEADLOCK FALSE
