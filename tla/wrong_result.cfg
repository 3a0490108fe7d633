CONSTANTS
  Frontend = {text, binary}
  Foreign = Foreign
  None = None
  MaxRequests = 2
  MaxLog = 4
  MaxDeposals = 1
  Stops = FALSE
SPECIFICATION Spec
CHECK_DEADLOCK FALSE
INVARIANTS OwnResult
