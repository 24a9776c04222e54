SPECIFICATION ZapSpec
CONSTANTS
  Consumer = {"c1", "c2"}
  Telemetry <- TwoConsumers
  StallsBeforeReset = 2
  MinResetInterval = 3
  MaxZapFaults = 1
  MaxSlips = 1
INVARIANTS ZapInv SentIsSound
PROPERTIES EveryPushEnds
CHECK_DEADLOCK FALSE
