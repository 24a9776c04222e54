SPECIFICATION MigrateSpec
CONSTANTS
  Up = {"sync1", "async"}
  Checker = {"checkSync"}
  Mode <- Modes
  DB = {"traces", "metadata"}
  Order <- Visit
  Migration = {"base", "columns", "drop", "view", "meta"}
  Items <- Operations
  Main <- MainLists
  Squashed <- SquashedLists
  Legacy = {}
  LastAsync = {"metadata"}
  Shard = {1}
  MaxFailures = 2
  Installation <- AllInstallations
INVARIANTS
  FinishedIsApplied
  AppliedInOrder
  SquashedFirst
  CheckedIsApplied
  
  InsertsSucceed
  Converges
PROPERTIES
  EventuallyApplied
CHECK_DEADLOCK FALSE
