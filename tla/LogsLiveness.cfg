SPECIFICATION FairSpec
CONSTANTS
  p1 = p1
  p2 = p2
  Push = {p1, p2}
  Batch <- Mixed
  Limit = 2
  MaxAttempts <- OnceEach
  Timeouts = TRUE
  AppendFails = TRUE
  StoreFails = FALSE
PROPERTIES
  CallsReturn
