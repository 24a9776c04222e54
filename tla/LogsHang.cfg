SPECIFICATION FairSpec
CONSTANTS
  p1 = p1
  p2 = p2
  Push = {p1}
  Batch <- Large
  Limit = 1
  MaxAttempts <- Once
  Timeouts = FALSE
  AppendFails = TRUE
  StoreFails = FALSE
PROPERTIES
  PushReturns
CHECK_DEADLOCK FALSE
