SPECIFICATION Spec
CONSTANTS
  p1 = p1
  p2 = p2
  Push = {p1, p2}
  Batch <- Shared
  Limit = 2
  MaxAttempts <- RetryFirst
  Timeouts = TRUE
  AppendFails = TRUE
  StoreFails = TRUE
INVARIANTS
  LogsInv
  AckedLogsStored
  MeteredOnce
  CachedResourceStored
