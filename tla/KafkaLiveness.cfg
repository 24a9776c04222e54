SPECIFICATION FairSpec
CONSTANTS
  p1 = p1
  p2 = p2
  Partition <- TwoPartitions
  MaxOffset = 1
  Poison <- NoPoison
  After = TRUE
  OnError = FALSE
  AutoCommit = TRUE
  Earliest = TRUE
PROPERTIES
  EventuallyAccepted
  ShutdownEndsLoop
