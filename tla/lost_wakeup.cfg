CONSTANTS
  Frontend = {text, binary}
  Foreign = Foreign
  None = None
  MaxRequests = 1
  MaxLog = 4
  MaxDeposals = 0
  Stops = FALSE
SPECIFICATION Spec
CHECK_DEADLOCK FALSE
PROPERTIES AnsweredReturns
