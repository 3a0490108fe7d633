CONSTANTS
  Frontend = {text, binary}
  Foreign = Foreign
  None = None
  MaxRequests = 1
  MaxLog = 3
  MaxDeposals = 2
  Stops = TRUE
SPECIFICATION Spec
CHECK_DEADLOCK FALSE
INVARIANTS TypeOK RegisteredInTime CommittedOwn WaiterKnown
PROPERTIES CommittedAnswered StopEnds
