SPECIFICATION FairSpec
CONSTANTS
  kx = kx
  ky = ky
  Keys = {kx, ky}
  Values <- Ints
  NULL = NULL
  MaxInt = 127
  EOVERFLOW = 75
  EINVAL = 22
  Workers = {w1, w2}
  Requests <- MCRequests
  Iterations = 3
  MaxCalls = 4
  None = None
  Unknown = Unknown
  Free = Free
INVARIANTS
  TypeOK
  MutexIsHeldInSections
PROPERTIES
  RequestsAreAtomic
  EveryCallReturns
CHECK_DEADLOCK FALSE
