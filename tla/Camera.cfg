SPECIFICATION FairSpec
CONSTANTS
  Foreign = {0, 1}
  MaxOpens = 4
INVARIANTS
  TypeOK
  ReferencesBalance
  DescriptorsBalance
  NoCallbackAfterFree
PROPERTIES
  StrayCloseAfterFailure
  ReleaseReturns
  StopReturns
CHECK_DEADLOCK FALSE
