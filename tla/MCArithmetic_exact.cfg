SPECIFICATION Spec
CONSTANTS
  MaxInt = 127
  EOVERFLOW = 75
  EINVAL = 22
INVARIANTS
  TypeOK
  FittingResultsAreReturned
  OthersAreRefused
CHECK_DEADLOCK FALSE
