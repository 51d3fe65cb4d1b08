SPECIFICATION QueueSpec
CONSTANTS
  N = 2
  Clients = {1, 2, 3}
  MaxRequests = 2
  FatalRequests <- SecondIsFatal
  FdLimit = 4
  MaxLeaks = 1
  Cells = {c1, c2}
  NULL = NULL
INVARIANTS
  TypeOK
  DispatchFindsWorker
  QueuedWorkersAreIdle
  OneWorkerPerConnection
  MutualExclusion
  NoLostSignal
  ExitHasCause
  Tickets
  ListHoldsQueue
  ListIsSound
PROPERTIES
  ServedToTheEnd
  PoolSpec
CHECK_DEADLOCK FALSE
