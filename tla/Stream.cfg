SPECIFICATION FairSpec
CONSTANTS
  NumTransfers = 3
  MaxFrames = 2
  MaxSessions = 2
INVARIANTS
  TypeOK
  NothingAfterClose
  NoLostWakeUp
  FrameIntact
  AtMostOneEscapes
PROPERTIES
  ServiceSpec
  MailboxSpec
  StopReturns
CHECK_DEADLOCK FALSE
