SPECIFICATION Spec
CONSTANTS
  Foreign = {0, 1}
  MaxOpens = 2
INVARIANTS
  EventsHandled
CHECK_DEADLOCK FALSE
