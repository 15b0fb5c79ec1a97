SPECIFICATION HealthSpec
CONSTANTS
  Writers = {server}
  Statuses = {401, 503}
  maxBatchPoints = 2
  maxQueuePoints = 2
  maxRetries = 1
  failFastOnAsyncError = FALSE
  MaxCalls = 2
  MaxFaults = 2
  ReadsMayFail = TRUE
PROPERTIES
  NodesCatchUp
  FundamentalErrorReported
