SPECIFICATION FairSpec
CONSTANTS
  Writers = {w1, w2}
  Statuses = {401, 503}
  maxBatchPoints = 2
  maxQueuePoints = 2
  maxRetries = 1
  failFastOnAsyncError = TRUE
  MaxCalls = 4
  MaxFaults = 3
  ReadsMayFail = TRUE
INVARIANTS
  FailFastRecoverable
PROPERTIES
  AsyncErrorClears
  JoinTerminates
  EveryPointSettles
