CONSTANTS
  Config <- MCConfig
  Requests <- MCRequests
  Default <- MCDefault
  Payloads = {1024, 3072}
  Junk = Junk
  MaxCalls = 1
  MaxSessions = 1
  MaxLosses = 0
SPECIFICATION Spec
CHECK_DEADLOCK FALSE
INVARIANTS
  SearchFindsARate
