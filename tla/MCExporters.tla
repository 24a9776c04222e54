----------------------------- MODULE MCExporters -----------------------------
(***************************************************************************)
(* The exporters of spans, metrics, meter samples, metadata and types of   *)
(* log bodies, each on its own: one of them, chosen in the initial state,  *)
(* runs.                                                                   *)
(***************************************************************************)
EXTENDS TracesExporter, O11yMetricsExporter, MetadataExporter, JsonTypeExporter, TLC

VARIABLE part

exportersVars == <<exporterVars, shouldSkipKeys, metaState, jsonVars, part>>

ExportersInit ==
  /\ ExporterInit /\ TracesInit /\ MetadataInit /\ JsonInit
  /\ part \in {"traces", "metrics", "meters", "metadata", "types"}
  /\ part # "metadata" => provider = "in_memory" /\ ds = "traces"
  /\ part # "types" => ~failOnError /\ load = 1
  /\ load = 2 => ~failOnError

ExportersNext ==
  /\ UNCHANGED part
  /\ \/ part = "traces" /\ TracesNext /\ UNCHANGED <<metaState, jsonVars>>
     \/ part = "metrics" /\ MetricsNext /\ UNCHANGED <<shouldSkipKeys, metaState, jsonVars>>
     \/ part = "meters" /\ MeterExporterNext /\ UNCHANGED <<shouldSkipKeys, metaState, jsonVars>>
     \/ part = "metadata" /\ MetadataNext /\ UNCHANGED <<shouldSkipKeys, jsonVars>>
     \/ part = "types" /\ JsonNext /\ UNCHANGED <<exporterVars, shouldSkipKeys, metaState>>

ExportersSpec == ExportersInit /\ [][ExportersNext]_exportersVars

-----------------------------------------------------------------------------
MCMaxPushes == [b \in Batch |-> IF b \in {"t1", "m1", "n1", "a1"} THEN 2 ELSE 1]
MCPushers == Permutations(Pusher)

\* Spans: an exception and a span that is too old; a map attribute with a NaN, a value
\* that is too long, and one resource in two buckets.
MCAttr(key, type, value) == [key |-> key, tagType |-> "tag", type |-> type, value |-> value]
MCSpan(id, old, bucket, attrs, events) ==
  [id |-> id, old |-> old, bucket |-> bucket, resource |-> "r", attrs |-> attrs, events |-> events]
MCSpans ==
  "t1" :> {MCSpan("s1", FALSE, 1, {MCAttr("k", "string", "x")}, <<"exception", "log">>),
           MCSpan("s2", TRUE, 0, {}, << >>)}
  @@ "t2" :> {MCSpan("s3", FALSE, 1, {MCAttr("m", "map", {MCAttr("k", "string", "y"), MCAttr("n", "NaN", "")})},
                     << >>),
              MCSpan("s4", FALSE, 2, {MCAttr("k", "string", "long")}, << >>)}

\* Metrics: a gauge, a histogram, a summary and an exponential histogram in one hour;
\* the gauge in another hour, a NaN, and metrics that are not billed or not written.
MCPoint(id, hour, nan, bounds, quantiles) ==
  [id |-> id, attrs |-> "x", hour |-> hour, nan |-> nan, bounds |-> bounds, buckets |-> bounds + 1,
   hasSum |-> TRUE, hasMin |-> FALSE, hasMax |-> FALSE, quantiles |-> quantiles]
MCMetric(name, type, temporality, points) ==
  [name |-> name, type |-> type, temporality |-> temporality, points |-> points]
MCMetrics ==
  "m1" :> {MCMetric("g", "gauge", "", <<MCPoint(1, 1, FALSE, 0, 0), MCPoint(2, 1, TRUE, 0, 0)>>),
           MCMetric("e", "exponential", "delta", <<MCPoint(3, 1, FALSE, 0, 0)>>)}
  @@ "m2" :> {MCMetric("g", "gauge", "", <<MCPoint(4, 2, FALSE, 0, 0), MCPoint(5, 1, FALSE, 0, 0)>>),
              MCMetric("e2", "exponential", "cumulative", <<MCPoint(6, 2, FALSE, 0, 0)>>),
              MCMetric("otelcol", "sum", "delta", <<MCPoint(7, 2, FALSE, 0, 0)>>),
              MCMetric("h", "histogram", "delta", <<MCPoint(8, 1, FALSE, 1, 0)>>),
              MCMetric("s", "summary", "", <<MCPoint(9, 1, FALSE, 0, 1)>>)}
MCMeters ==
  "n1" :> {MCMetric("o11y.meter", "sum", "delta", <<MCPoint(1, 1, FALSE, 0, 0)>>)}
  @@ "n2" :> {MCMetric("h", "histogram", "delta", <<MCPoint(2, 1, FALSE, 1, 0)>>)}

\* Records: two resources, of which one has two sets of attributes; a value that is not
\* tracked, and a key that the datastore may report to have too many values or numbers.
MCRecord(resource, attrs) == [resource |-> {<<"service", resource>>}, attrs |-> attrs, name |-> "n"]
MCPayload ==
  "a1" :> {MCRecord("r", {<<"k", "x">>}), MCRecord("q", {<<"k", "x">>})}
  @@ "a2" :> {MCRecord("r", {<<"k", "y">>, <<"i", "long">>}), MCRecord("r", {<<"j", "z">>})}
MCTagCounts == {<< >>, "k" :> [type |-> "string", count |-> 2] @@ "i" :> [type |-> "float64", count |-> 0]}
MCLimit(n) == [signal \in {"traces", "metrics", "logs"} |-> IF signal = "logs" THEN n ELSE 2]
MCMaxResources == MCLimit(1)
MCMaxCardinality == MCLimit(1)
MCMaxTotal == MCLimit(2)

\* Log bodies: an object that is too deep, keys that look like an id, a dotted key; arrays of
\* objects and of numbers, the fixed field message, a value without a type; a body that is
\* no object, and an array in an array.
MCScalar(type) == [type |-> type, items |-> << >>]
MCObject(items) == [type |-> "map", items |-> items]
MCArray(values) == [type |-> "slice", items |-> [i \in DOMAIN values |-> <<<<"[]">>, values[i]>>]]
MCKey(k, v) == <<<<k>>, v>>
MCFlag == MCObject(<<MCKey("x", MCScalar("bool"))>>)
MCWorkload ==
  <<"j1" :> <<MCObject(<<MCKey("a", MCObject(<<MCKey("x", MCScalar("int")), MCKey("y", MCFlag)>>)),
                         MCKey("id", MCScalar("bytes"))>>)>>
    @@ "j2" :> <<MCObject(<<<<<<"a", "x">>, MCScalar("float")>>, MCKey("id", MCScalar("int"))>>)>>,
    "j1" :> <<MCObject(<<MCKey("b", MCArray(<<MCFlag, MCScalar("int")>>)),
                         MCKey("c", MCArray(<<MCScalar("int"), MCScalar("bool")>>))>>)>>
    @@ "j2" :> <<MCObject(<<MCKey("b", MCScalar("empty"))>>), MCObject(<<MCKey("message", MCFlag)>>)>>,
    "j1" :> <<MCObject(<<MCKey("id", MCScalar("int")), MCKey("c", MCScalar("string"))>>), MCScalar("string"),
              MCObject(<<MCKey("b", MCArray(<<MCFlag, MCArray(<<MCScalar("int")>>)>>))>>)>>
    @@ "j2" :> << >> >>
MCCardinal == {<<"id">>}

-----------------------------------------------------------------------------
\* When Shutdown of the traces exporter has returned, the last export of the usage has
\* everything that was recorded: the collector is stopped after the last push.
UsageFlushed == part = "traces" /\ flushed = "ok" /\ shut = "done" => exported = recorded

\* What pushes share stays within its limits and is there while they use it: the
\* connection, the slots of the analysis, and the caches.
ExportersInv ==
  /\ ExporterTypeOK /\ MetadataTypeOK /\ JsonTypeOK
  /\ NoPushAfterClose /\ SlotsAreHeld /\ LimitsHold

\* Usage is complete: what is stored is recorded, what is recorded is exported by
\* Shutdown, and a meter of the same metrics counts what the exporter bills.
UsageKept == UsageCoversStored /\ UsageFlushed /\ MeterMatchesUsage

\* What the metadata and type exporters pass over is written: a pair of resource and
\* attributes that the cache knows is stored, under way, or was lost with a statement
\* that failed; the types that are sent, and with FailOnError those of an accepted
\* payload in the table, are exactly those of the bodies.
MetadataAndTypesWritten == MetadataWritten /\ SentIsWhole /\ AcceptedIsWritten
=============================================================================
