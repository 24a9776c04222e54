SPECIFICATION Spec
CONSTANTS
  p1 = p1
  p2 = p2
  Partition <- TwoPartitions
  MaxOffset = 2
  Poison <- SecondIsPoison
  After = TRUE
  OnError = FALSE
  AutoCommit = FALSE
  Earliest = TRUE
INVARIANTS
  AtLeastOnce
  NoRedeliveryOfCommitted
  PausedHasRetrier

