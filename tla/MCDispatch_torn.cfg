SPECIFICATION Spec
CONSTANTS
  N = 2
  Clients = {1, 2}
  MaxRequests = 1
  FatalRequests = {}
  FdLimit = 4
  MaxLeaks = 0
INVARIANT UsedThreadDoesNotWait
CHECK_DEADLOCK FALSE
