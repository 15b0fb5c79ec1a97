SPECIFICATION Spec
CONSTANTS
  Writers = {w1}
  Statuses = {401, 503}
  maxBatchPoints = 2
  maxQueuePoints = 3
  maxRetries = 1
  failFastOnAsyncError = FALSE
  MaxCalls = 5
  MaxFaults = 3
  ReadsMayFail = TRUE
INVARIANTS
  TypeOK
  EveryPointAccounted
  AtMostOneLateBatch
  StopDrains
PROPERTIES
  ImplementsBuffer
