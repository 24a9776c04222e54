SPECIFICATION QuietServerSpec
CONSTANTS
  NoCaller = NoCaller
  Caller = {"main", "callback", "watch"}
  CreateFails = FALSE
  good = good
  bad = bad
  initial = initial
  noop = noop
  garbage = garbage
  Remote <- TwoRemotes
  Initial = initial
  Noop = noop
  Garbage = garbage
  Invalid <- InvalidConfigs
  EarlyMessage = FALSE
  MaxFaults = 0
PROPERTIES
  DeathIsNoticed
  StopReturnsUndisturbed
CHECK_DEADLOCK FALSE
