SPECIFICATION ProcessorsSpec
CONSTANTS
  a = a
  b = b
  NoId = NoId
  Id = {a, b}
  NumBatches = 1
  BatchChannelSize = 1
  Caller = {"c1", "c2"}
  Span = {"s1", "s2", "s3"}
  Calls = {{"s1"}, {"s2"}, {"s1", "s3"}}
  traceOf <- MCTraceOf
  NumTraces = 1
  PolicyCfgs <- MCPolicies
  CacheSize = 1
  Batches <- MCSpanBatches
  MaxSpans = 3
  NoService = "none"
  Dimensions <- MCDimensions
  ExcludePatterns = {}
  EnableExpHistogram = TRUE
  Temporalities = {"delta", "cumulative"}
  TimeBucketInterval = 60
  LatencyBounds <- MCLatencyBounds
  MaxServicesToTrack = 1
  MaxOperationsToTrackPerService = 1
  UrlHost <- MCUrlHost
  MetricsExporter <- MCMetricsExporter
  Exporters = {"m1"}
  MeterPipeline = {"p1", "p2"}
  Telemetry <- MCTelemetry
  MeterDims = {"service"}
  MaxPayloads = 3
  ScrapeIntervalSeconds = 2
  ScrapeDelaySeconds = 1
  FlushDelay = 1
  StartTs = 1
  MaxTs = 10
  Query = {"q1", "q2"}
  Modulus = 64
INVARIANTS
  SamplerInv NoSpanForgotten OnceUnlessDropped DropWaitEnds
  SpanMetricsInv SpansConserved
  MeterInv
  EveryQueryPushedOnce NeverSleepsPastReady
PROPERTIES
  BatcherIsPipeline
CHECK_DEADLOCK FALSE
