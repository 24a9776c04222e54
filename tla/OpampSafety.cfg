SPECIFICATION Spec
CONSTANTS
  NoCaller = NoCaller
  Caller = {"main", "callback", "watch"}
  CreateFails = TRUE
  good = good
  bad = bad
  initial = initial
  noop = noop
  garbage = garbage
  Remote <- AnyRemote
  Initial = initial
  Noop = noop
  Garbage = garbage
  Invalid <- InvalidConfigs
  EarlyMessage = FALSE
  MaxFaults = 1
INVARIANTS
  CollectorInv
  
CHECK_DEADLOCK FALSE
