SPECIFICATION FairSpec
CONSTANTS
  Writers = {w1}
  Statuses = {503}
  maxBatchPoints = 2
  maxQueuePoints = 2
  maxRetries = 1
  failFastOnAsyncError = FALSE
  MaxCalls = 3
  MaxFaults = 2
  ReadsMayFail = FALSE
PROPERTY
  RequeuedPointsFlushed
