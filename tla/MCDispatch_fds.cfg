SPECIFICATION FairSpec
CONSTANTS
  N = 1
  Clients = {1, 2, 3}
  MaxRequests = 0
  FatalRequests = {}
  FdLimit = 2
  MaxLeaks = 0
PROPERTY WaitingClientsAreAccepted
CHECK_DEADLOCK FALSE
