---------------------------- MODULE SpanMetrics ----------------------------
(***************************************************************************)
(* The span metrics processor (processor/o11yspanmetricsprocessor): every  *)
(* span is counted in up to five families of histograms, each keyed by a   *)
(* metric key whose dimensions are kept in a cache of their own, and a     *)
(* ticker exports them.  One mutex protects the maps and the caches: a     *)
(* consumer holds it for a batch, the ticker while it builds the metrics.  *)
(* Callers that wait for the mutex have no state; one batch at a time is   *)
(* in spans.                                                               *)
(*                                                                         *)
(* A span is a record: service (NoService when the resource has no         *)
(* service.name), name, kind, status, start and end, attrs and resource    *)
(* (functions from attribute names to values).  A key is the sequence of   *)
(* the values the code concatenates, each a sequence of its own parts.     *)
(* The dimension for the collector's own id, the same on every span, and   *)
(* attrsCardinality, which is only logged, are left out.                   *)
(***************************************************************************)
EXTENDS DimensionsCache, FiniteSets, TLC

CONSTANTS
  Batches,                   \* batches of spans a caller may hand in
  MaxSpans,                  \* bound: spans handed in over a behaviour
  NoService,                 \* the service of a resource without service.name
  Dimensions,                \* configured dimensions: [name, default]
  ExcludePatterns,           \* exclude_patterns: [name, matches]
  EnableExpHistogram,
  Temporalities,             \* aggregation temporalities to look at
  TimeBucketInterval,
  LatencyBounds,             \* latency_histogram_buckets, in milliseconds
  MaxServicesToTrack,
  MaxOperationsToTrackPerService,
  UrlHost,                   \* url.Parse: the host of a URL, << >> on an error
  MetricsExporter,           \* metrics_exporter: the names asked for
  Exporters                  \* metrics exporters the host has

ASSUME SpanMetricsAssumption ==
  /\ MaxServicesToTrack \in Nat
  /\ MaxOperationsToTrackPerService \in Nat
  /\ TimeBucketInterval \in Nat \ {0}
  /\ LatencyBounds \in Seq(Nat)
  /\ Temporalities \subseteq {"delta", "cumulative"}

VARIABLES
  temporality,               \* config.AggregationTemporality
  holder,                    \* p.lock: "none", "consumer" or "ticker"
  spans,                     \* what the consumer that holds the lock still has to count
  serviceToOperations,
  histograms,                \* per family: metric key -> histogram
  dimCache,                  \* per family: metric key -> dimensions
  tpcs,                      \* the ticker's goroutine
  family,                    \* position in CollectOrder while it builds
  unread,                    \* keys of that family it has not read yet
  metricsConsumer,           \* exporters found by Start
  sending,                   \* exporters that still have to get metrics
  done,                      \* p.done: "open", "closed", or "ticked": closed with a tick left
  stopping,                  \* Shutdown: "no", "waiting" or "returned"
  aggregated,                \* ghost: spans counted per family
  exported                   \* ghost: delta counts and exemplars built per family

storeVars == <<serviceToOperations, histograms, dimCache>>
tickVars == <<tpcs, family, unread, metricsConsumer, sending>>
spanMetricsVars == <<temporality, holder, spans, storeVars, tickVars, done, stopping,
                     aggregated, exported>>

Family == {"latency", "exp", "call", "db", "external"}
overflowServiceName == "overflow_service"
overflowOperation == "overflow_operation"

-----------------------------------------------------------------------------
\* Dimensions and keys.

statusCode == [name |-> "http.status_code", default |-> << >>]

dimensionsOf ==
  [latency |-> Dimensions, exp |-> Dimensions,
   call |-> <<statusCode>> \o Dimensions,
   external |-> <<statusCode>> \o Dimensions,
   db |-> <<[name |-> "db.system", default |-> << >>], [name |-> "db.name", default |-> << >>]>>
          \o Dimensions]

\* http.status_code found under its newer name.
StableStatus(d, s) ==
  /\ d.name = "http.status_code" /\ d.name \notin DOMAIN s.attrs
  /\ "http.response.status_code" \in DOMAIN s.attrs

\* The value of a dimension, << >> if the span has none.
getDimensionValue(d, s) ==
  IF d.name \in DOMAIN s.attrs THEN <<s.attrs[d.name]>>
  ELSE IF StableStatus(d, s) THEN <<s.attrs["http.response.status_code"]>>
  ELSE IF d.name \in DOMAIN s.resource THEN <<s.resource[d.name]>>
  ELSE d.default

foundInResource(d, s) == d.name \in DOMAIN s.resource /\ ~StableStatus(d, s)

\* The service and the operation a span is counted under, given what is tracked.
ServiceLabel(tracked, s) ==
  IF Cardinality(DOMAIN tracked) > MaxServicesToTrack THEN overflowServiceName ELSE s.service

OperationLabel(tracked, s) ==
  LET service == ServiceLabel(tracked, s) IN
  IF /\ service \in DOMAIN tracked
     /\ Cardinality(tracked[service]) > MaxOperationsToTrackPerService
  THEN overflowOperation ELSE s.name

\* What buildKey adds to serviceToOperations.
Track_Unbounded(tracked, s) ==
  LET ops == IF s.service \in DOMAIN tracked THEN tracked[s.service] ELSE {}
  IN MapPut(tracked, s.service, ops \cup {OperationLabel(tracked, s)})

Track(tracked, s) ==
  LET service == ServiceLabel(tracked, s)
      ops == IF service \in DOMAIN tracked THEN tracked[service] ELSE {}
  IN MapPut(tracked, service, ops \cup {OperationLabel(tracked, s)})

\* The prefix of a key: under delta temporality, the start of the span's bucket.
TimePrefix(s) ==
  IF temporality = "delta"
  THEN <<<<ToString(s.start - (s.start % TimeBucketInterval))>>>> ELSE << >>

buildMetricKey(tracked, s, dims) ==
  TimePrefix(s)
  \o <<<<ServiceLabel(tracked, s)>>, <<OperationLabel(tracked, s)>>, <<s.kind>>, <<s.status>>>>
  \o SelectSeq([i \in DOMAIN dims |-> getDimensionValue(dims[i], s)], LAMBDA v : v # << >>)

\* A dimension adds its value, and again if it was found in the resource.
buildCustomMetricKey(s, dims, extraVals) ==
  LET value(d) == getDimensionValue(d, s)
      again(d) == IF foundInResource(d, s) THEN <<"resource_">> \o value(d) ELSE << >>
  IN TimePrefix(s) \o <<<<s.service>>, <<s.status>>>> \o extraVals
     \o SelectSeq([i \in 1 .. 2 * Len(dims) |->
          IF i % 2 = 1 THEN value(dims[(i + 1) \div 2]) ELSE again(dims[i \div 2])], LAMBDA v : v # << >>)

\* The optional dimensions as attributes of a data point.
OptionalKVs(s, dims) ==
  {<<dims[i].name, getDimensionValue(dims[i], s)[1]>> :
     i \in {j \in DOMAIN dims : getDimensionValue(dims[j], s) # << >>}}
  \cup {<<"resource_", dims[i].name, getDimensionValue(dims[i], s)[1]>> :
     i \in {j \in DOMAIN dims : foundInResource(dims[j], s)}}

buildDimensionKVs(tracked, s, dims) ==
  {<<"service.name", ServiceLabel(tracked, s)>>, <<"operation", OperationLabel(tracked, s)>>,
   <<"span.kind", s.kind>>, <<"status.code", s.status>>} \cup OptionalKVs(s, dims)

buildCustomDimensionKVs(s, dims, extraDims) ==
  {<<"service.name", s.service>>, <<"status.code", s.status>>} \cup extraDims
  \cup OptionalKVs(s, dims)

-----------------------------------------------------------------------------
\* The remote address of a span, a sequence of its parts, << >> if there is none.

PeerAttributes ==
  << <<"net.peer.name", "net.peer.port">>, <<"server.address", "server.port">>,
     <<"net.peer.ip", "net.peer.port">>, <<"net.sock.peer.addr", "net.sock.peer.port">>,
     <<"network.peer.address", "network.peer.port">> >>

\* The attribute's value as a sequence, << >> if it is not there.
Attribute(attrs, name) == IF name \in DOMAIN attrs THEN <<attrs[name]>> ELSE << >>

getPeerAddress(attrs) ==
  LET present == {i \in DOMAIN PeerAttributes : PeerAttributes[i][1] \in DOMAIN attrs}
      first == CHOOSE i \in present : \A j \in present : i <= j
  IN IF present = {} THEN << >>
     ELSE Attribute(attrs, PeerAttributes[first][1]) \o Attribute(attrs, PeerAttributes[first][2])

\* The test of net.transport can never be true: it asks for two values at once.
getRemoteAddress(attrs) ==
  LET rpc == Attribute(attrs, "rpc.service")
             \o (IF "rpc.method" \in DOMAIN attrs THEN <<"/", attrs["rpc.method"]>> ELSE << >>)
      url == Attribute(attrs, "http.url") \o Attribute(attrs, "url.full")
  IN IF "rpc.system" \in DOMAIN attrs THEN IF rpc # << >> THEN rpc ELSE getPeerAddress(attrs)
     ELSE IF "http.host" \in DOMAIN attrs THEN <<attrs["http.host"]>>
     ELSE IF getPeerAddress(attrs) # << >> THEN getPeerAddress(attrs)
     ELSE IF url # << >> THEN UrlHost[url[1]]
     ELSE Attribute(attrs, "peer.service")

\* Whether an exclude pattern matches the span.
shouldSkip(s) ==
  \E p \in ExcludePatterns :
    \/ p.name = "service.name" /\ s.service \in p.matches
    \/ p.name = "operation" /\ s.name \in p.matches
    \/ p.name = "span.kind" /\ s.kind \in p.matches
    \/ p.name = "status.code" /\ s.status \in p.matches
    \/ p.name \in DOMAIN s.attrs /\ s.attrs[p.name] \in p.matches
    \/ p.name \in DOMAIN s.resource /\ s.resource[p.name] \in p.matches
-----------------------------------------------------------------------------
\* Histograms.

NewHistogram == [count |-> 0, sum |-> 0, bucketCounts |-> [i \in 0 .. Len(LatencyBounds) |-> 0],
                 exemplars |-> 0]

\* A clock that goes backwards gives latency 0.
Latency(s) == IF s.end > s.start THEN s.end - s.start ELSE 0

BucketIndex_PastEnd(latency) ==
  1 + Cardinality({i \in DOMAIN LatencyBounds : LatencyBounds[i] < latency})

\* sort.SearchFloat64s: the first bound that is not below the latency.
BucketIndex(latency) == Cardinality({i \in DOMAIN LatencyBounds : LatencyBounds[i] < latency})

\* updateHistogram of a family; the exponential histograms keep no exemplars.
updateHistogram(hists, f, k, latency) ==
  LET h == IF k \in DOMAIN hists THEN hists[k] ELSE NewHistogram
  IN MapPut(hists, k, [count |-> h.count + 1, sum |-> h.sum + latency,
                       bucketCounts |-> [h.bucketCounts EXCEPT ![BucketIndex(latency)] = @ + 1],
                       exemplars |-> IF f = "exp" THEN 0 ELSE h.exemplars + 1])

\* The families a span is counted in.
CountedIn(s) ==
  {"latency", "call"}
  \cup (IF EnableExpHistogram THEN {"exp"} ELSE {})
  \cup (IF s.kind = "client" /\ getRemoteAddress(s.attrs) # << >> THEN {"external"} ELSE {})
  \cup (IF s.kind # "server" /\ "db.system" \in DOMAIN s.attrs THEN {"db"} ELSE {})

\* Get of the dimensions, and Add if they are missing.
Cached(c, k, kvs) == IF CacheHas(c, k) THEN CacheGet(c, k) ELSE CacheAdd(c, k, kvs)

\* Totals of a family's histograms.
Held(f, field) == LET h == histograms[f] IN SumFunction([k \in DOMAIN h |-> h[k][field]])

-----------------------------------------------------------------------------
SpanMetricsInit ==
  /\ temporality \in Temporalities
  /\ holder = "none" /\ spans = << >>
  /\ serviceToOperations = EmptyMap
  /\ histograms = [f \in Family |-> EmptyMap]
  /\ dimCache = [f \in Family |-> NewCache]
  /\ tpcs = "created" /\ family = 1 /\ unread = {}
  /\ metricsConsumer = << >> /\ sending = << >>
  /\ done = "open" /\ stopping = "no"
  /\ aggregated = [f \in Family |-> 0]
  /\ exported = [f \in Family |-> [count |-> 0, exemplars |-> 0]]

\* Start keeps the exporters that were asked for, in the order of a Go map;
\* it fails if the host has none of them.
StartProcessor ==
  /\ tpcs = "created"
  /\ LET found == Exporters \cap Range(MetricsExporter) IN
     IF found = {} THEN tpcs' = "failed" /\ UNCHANGED metricsConsumer
     ELSE tpcs' = "wait" /\ metricsConsumer' \in {f \in [1 .. Cardinality(found) -> found] : IsInjective(f)}
  /\ UNCHANGED <<temporality, holder, spans, storeVars, family, unread, sending, done,
                 stopping, aggregated, exported>>

SpansSeen == aggregated["latency"] + Len(spans)

\* ConsumeTraces takes the lock.
ConsumeSpans(b) ==
  /\ tpcs # "created" /\ holder = "none"
  /\ SpansSeen + Len(b) <= MaxSpans
  /\ holder' = "consumer" /\ spans' = b
  /\ UNCHANGED <<temporality, storeVars, tickVars, done, stopping, aggregated, exported>>

\* A span of a resource without service.name, an excluded one, and one older
\* than skip_spans_older_than (the clock decides) are not counted.
SkipSpan ==
  /\ holder = "consumer" /\ spans # << >>
  /\ LET s == Head(spans) IN s.service = NoService \/ shouldSkip(s) \/ s.old
  /\ spans' = Tail(spans)
  /\ UNCHANGED <<temporality, holder, storeVars, tickVars, done, stopping, aggregated, exported>>

\* The latency, the exponential and the call key are built one after the other,
\* and each leaves its mark in serviceToOperations before the dimensions of
\* that key are made from it.
aggregateMetricsForSpan ==
  /\ holder = "consumer" /\ spans # << >>
  /\ LET s == Head(spans)
         t1 == Track(serviceToOperations, s)
         t2 == IF EnableExpHistogram THEN Track(t1, s) ELSE t1
         t3 == Track(t2, s)
         remote == getRemoteAddress(s.attrs)
         dims == dimensionsOf
         key == [latency |-> buildMetricKey(serviceToOperations, s, dims.latency),
                 exp |-> buildMetricKey(t1, s, dims.exp),
                 call |-> buildMetricKey(t2, s, dims.call),
                 external |-> buildCustomMetricKey(s, dims.external, <<remote>>),
                 db |-> buildCustomMetricKey(s, dims.db, << >>)]
         kvs == [latency |-> buildDimensionKVs(t1, s, dims.latency),
                 exp |-> buildDimensionKVs(t2, s, dims.exp),
                 call |-> buildDimensionKVs(t3, s, dims.call),
                 external |-> buildCustomDimensionKVs(s, dims.external, {<<"address", remote>>}),
                 db |-> buildCustomDimensionKVs(s, dims.db, {})]
         counted == CountedIn(s)
     IN /\ s.service # NoService /\ ~shouldSkip(s) /\ ~s.old
        /\ serviceToOperations' = t3
        /\ dimCache' = [f \in Family |->
             IF f \in counted THEN Cached(dimCache[f], key[f], kvs[f]) ELSE dimCache[f]]
        /\ histograms' = [f \in Family |->
             IF f \in counted THEN updateHistogram(histograms[f], f, key[f], Latency(s))
             ELSE histograms[f]]
        /\ aggregated' = [f \in Family |-> aggregated[f] + (IF f \in counted THEN 1 ELSE 0)]
  /\ spans' = Tail(spans)
  /\ UNCHANGED <<temporality, holder, tickVars, done, stopping, exported>>

\* The batch is counted: unlock, and forward it.
SpansCounted ==
  /\ holder = "consumer" /\ spans = << >>
  /\ holder' = "none"
  /\ UNCHANGED <<temporality, spans, storeVars, tickVars, done, stopping, aggregated, exported>>
-----------------------------------------------------------------------------
\* The ticker: exportMetrics.

CollectOrder == <<"call", "latency", "external", "db", "exp">>

\* Once the ticker is stopped at most the tick that was in its channel is left.
TickSpanMetrics ==
  /\ tpcs = "wait" /\ holder = "none" /\ done # "closed"
  /\ done' = IF done = "ticked" THEN "closed" ELSE done
  /\ holder' = "ticker" /\ tpcs' = "build"
  /\ family' = 1 /\ unread' = DOMAIN histograms[CollectOrder[1]]
  /\ UNCHANGED <<temporality, spans, storeVars, metricsConsumer, sending, stopping, aggregated,
                 exported>>

\* One histogram becomes a data point; its dimensions are fetched with Get,
\* which changes the cache.  If they are missing the build fails, and
\* ConsumeMetrics is called with metrics that do not exist.
CollectPoint(k) ==
  LET f == CollectOrder[family]
      h == histograms[f][k]
  IN /\ tpcs = "build" /\ k \in unread
     /\ unread' = unread \ {k}
     /\ dimCache' = [dimCache EXCEPT ![f] = CacheGet(@, k)]
     /\ exported' = [exported EXCEPT ![f] =
          [count |-> @.count + (IF temporality = "delta" THEN h.count ELSE 0),
           exemplars |-> @.exemplars + h.exemplars]]
     /\ tpcs' = IF CacheHas(dimCache[f], k) THEN "build" ELSE "panicked"
     /\ UNCHANGED <<temporality, holder, spans, serviceToOperations, histograms, family,
                    metricsConsumer, sending, done, stopping, aggregated>>

CollectNextFamily ==
  /\ tpcs = "build" /\ unread = {} /\ family < Len(CollectOrder)
  /\ family' = family + 1 /\ unread' = DOMAIN histograms[CollectOrder[family + 1]]
  /\ UNCHANGED <<temporality, holder, spans, storeVars, tpcs, metricsConsumer, sending, done,
                 stopping, aggregated, exported>>

resetExemplarData(hists) == [k \in DOMAIN hists |-> [hists[k] EXCEPT !.exemplars = 0]]

\* The end of buildMetrics: what was evicted is forgotten, and so are its
\* histograms; delta metrics start again from nothing.
MetricsBuilt_KeepsExemplars ==
  /\ tpcs = "build" /\ unread = {} /\ family = Len(CollectOrder)
  /\ IF temporality = "delta"
     THEN /\ histograms' = [f \in Family |-> EmptyMap]
          /\ dimCache' = [f \in Family |-> Purge(dimCache[f])]
     ELSE /\ histograms' = [f \in Family |-> Restrict(histograms[f], Range(dimCache[f].order))]
          /\ dimCache' = [f \in Family |-> RemoveEvictedItems(dimCache[f])]
  /\ holder' = "none" /\ tpcs' = "send" /\ sending' = metricsConsumer
  /\ UNCHANGED <<temporality, spans, serviceToOperations, family, unread, metricsConsumer, done,
                 stopping, aggregated, exported>>

MetricsBuilt ==
  /\ tpcs = "build" /\ unread = {} /\ family = Len(CollectOrder)
  /\ IF temporality = "delta"
     THEN /\ histograms' = [f \in Family |-> EmptyMap]
          /\ dimCache' = [f \in Family |-> Purge(dimCache[f])]
     ELSE /\ histograms' = [f \in Family |->
               resetExemplarData(Restrict(histograms[f], Range(dimCache[f].order)))]
          /\ dimCache' = [f \in Family |-> RemoveEvictedItems(dimCache[f])]
  /\ holder' = "none" /\ tpcs' = "send" /\ sending' = metricsConsumer
  /\ UNCHANGED <<temporality, spans, serviceToOperations, family, unread, metricsConsumer, done,
                 stopping, aggregated, exported>>

\* ConsumeMetrics of one exporter, outside the lock; a failure is only logged.
SendMetrics ==
  /\ tpcs = "send"
  /\ sending' = Tail(sending)
  /\ tpcs' = IF Len(sending) = 1 THEN "wait" ELSE "send"
  /\ UNCHANGED <<temporality, holder, spans, storeVars, family, unread, metricsConsumer, done,
                 stopping, aggregated, exported>>

TickerEnds ==
  /\ tpcs = "wait" /\ done # "open"
  /\ tpcs' = "ended"
  /\ UNCHANGED <<temporality, holder, spans, storeVars, family, unread, metricsConsumer, sending,
                 done, stopping, aggregated, exported>>

\* Shutdown stops the ticker, closes done and waits for the goroutine.
ShutdownProcessor ==
  /\ stopping = "no" /\ tpcs # "created"
  /\ done' \in IF tpcs = "failed" THEN {done} ELSE {"closed", "ticked"}
  /\ stopping' = "waiting"
  /\ UNCHANGED <<temporality, holder, spans, storeVars, tickVars, aggregated, exported>>

ProcessorStopped_NoWait ==
  /\ stopping = "waiting"
  /\ stopping' = "returned"
  /\ UNCHANGED <<temporality, holder, spans, storeVars, tickVars, done, aggregated, exported>>

ProcessorStopped ==
  /\ stopping = "waiting" /\ tpcs \in {"ended", "failed"}
  /\ stopping' = "returned"
  /\ UNCHANGED <<temporality, holder, spans, storeVars, tickVars, done, aggregated, exported>>

SpanMetricsNext ==
  \/ StartProcessor \/ \E b \in Batches : ConsumeSpans(b)
  \/ SkipSpan \/ aggregateMetricsForSpan \/ SpansCounted
  \/ TickSpanMetrics \/ \E k \in unread : CollectPoint(k)
  \/ CollectNextFamily \/ MetricsBuilt \/ SendMetrics \/ TickerEnds
  \/ ShutdownProcessor \/ ProcessorStopped

SpanMetricsSpec == SpanMetricsInit /\ [][SpanMetricsNext]_spanMetricsVars

-----------------------------------------------------------------------------
\* The type invariant.  A histogram counts every sample in exactly one bucket
\* (updateHistogram).
SpanMetricsTypeOK ==
  /\ temporality \in {"delta", "cumulative"}
  /\ holder \in {"none", "consumer", "ticker"}
  /\ spans # << >> => holder = "consumer"
  /\ tpcs \in {"created", "failed", "wait", "build", "send", "ended"}
  /\ holder = "ticker" <=> tpcs = "build"
  /\ family \in DOMAIN CollectOrder
  /\ done \in {"open", "closed", "ticked"} /\ stopping \in {"no", "waiting", "returned"}
  /\ \A f \in Family : \A k \in DOMAIN histograms[f] :
       LET h == histograms[f][k] IN h.count > 0 /\ SumFunction(h.bucketCounts) = h.count

\* A histogram is kept exactly as long as its dimensions are: evicted from the
\* LRU or revived by an export, the dimensions of every key that has a
\* histogram can be found, so buildMetrics never fails; and no dimensions
\* outlive their histogram.
DimensionsKept ==
  \A f \in Family : LET c == dimCache[f] IN
    /\ DOMAIN histograms[f] = Range(c.order) \cup DOMAIN c.evictedItems
    /\ Range(c.order) \cap DOMAIN c.evictedItems = {}
    /\ DOMAIN c.value = Range(c.order)
    /\ Len(c.order) <= CacheSize /\ IsInjective(c.order)

\* Nothing is counted twice or lost inside the processor: under delta
\* temporality every span counted in a family is in exactly one export or
\* still held, and under both temporalities so is every exemplar
\* (resetAccumulatedMetrics, resetExemplarData and the eviction together).
SpansConserved ==
  holder # "ticker" =>
    /\ temporality = "delta" =>
         \A f \in Family : aggregated[f] = exported[f].count + Held(f, "count")
    /\ aggregated["latency"] = exported["latency"].exemplars + Held("latency", "exemplars")

\* The limits on services and on operations per service hold up to the one that
\* crosses them and the overflow name, whatever the order of the spans.
LabelsBounded ==
  /\ Cardinality(DOMAIN serviceToOperations \ {overflowServiceName}) <= MaxServicesToTrack + 1
  /\ \A s \in DOMAIN serviceToOperations :
       Cardinality(serviceToOperations[s] \ {overflowOperation})
         <= MaxOperationsToTrackPerService + 1

\* After Shutdown has returned the ticker's goroutine exports nothing.
NoLateExport == stopping = "returned" => tpcs \in {"ended", "failed"}

\* Histograms, dimensions and names stay consistent and within their limits, and
\* nothing uses them when Shutdown has returned.
SpanMetricsInv == SpanMetricsTypeOK /\ DimensionsKept /\ LabelsBounded /\ NoLateExport
=============================================================================
