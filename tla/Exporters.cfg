SPECIFICATION ExportersSpec
CONSTANTS
  Pusher = {p1, p2}
  NoBatch = NoBatch
  Batch = {"t1", "t2", "m1", "m2", "n1", "n2", "a1", "a2"}
  Table = {"index", "error", "tags", "keys", "resource", "ts", "samples", "expHist", "metadata", "meter", "attrs"}
  MaxPushes <- MCMaxPushes
  MaxFaults = 1
  Spans <- MCSpans
  LongValue = {"long"}
  MaxDistinctValues = 1
  Metrics <- MCMetrics
  Meters <- MCMeters
  enableExpHist = TRUE
  Payload <- MCPayload
  Untracked = {"long"}
  AlwaysInclude = {"name"}
  MaxStringDistinctValues = 1
  TagCounts <- MCTagCounts
  MaxResources <- MCMaxResources
  MaxCardinality <- MCMaxCardinality
  MaxTotal <- MCMaxTotal
  LogsPusher = {p1, p2}
  Workload <- MCWorkload
  Cardinal <- MCCardinal
  MaxDepthTraverse = 2
  MaxArrayElementsAllowed = 2
  MaxKeysAtLevel = 2
  KeyCacheSize = 1
  Concurrency = 2
  MaxLogsPushes = 2
  MaxLogsFaults = 1
INVARIANTS
  
  UsageKept
  SpansAccounted
  SamplesAccounted
  MetadataAndTypesWritten
SYMMETRY MCPushers
CHECK_DEADLOCK FALSE
