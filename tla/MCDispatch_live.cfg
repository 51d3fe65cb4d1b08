SPECIFICATION FairSpec
CONSTANTS
  N = 2
  Clients = {1, 2, 3}
  MaxRequests = 1
  FatalRequests <- FirstIsFatal
  FdLimit = 5
  MaxLeaks = 0
PROPERTIES
  EveryRequestRuns
  WorkersReturn
CHECK_DEADLOCK FALSE
