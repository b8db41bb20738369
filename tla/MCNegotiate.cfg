CONSTANTS
  Config <- MCConfig
  Requests <- MCRequests
  Default <- MCDefault
  Payloads = {1024, 3072}
  Junk = Junk
  MaxCalls = 2
  MaxSessions = 1
  MaxLosses = 1
SPECIFICATION Spec
CHECK_DEADLOCK FALSE
INVARIANTS
  StreamsWhatWasAsked
PROPERTIES
  CommitsTheOffer
