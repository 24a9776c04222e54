SPECIFICATION FairSpec
CONSTANTS
  NoCaller = NoCaller
  Caller = {"main", "callback", "watch"}
  CreateFails = FALSE
  good = good
  bad = bad
  initial = initial
  noop = noop
  garbage = garbage
  Remote <- AnyRemote
  Initial = initial
  Noop = noop
  Garbage = garbage
  Invalid <- InvalidConfigs
  EarlyMessage = FALSE
  MaxFaults = 0
PROPERTIES
  StopReturns
CHECK_DEADLOCK FALSE
