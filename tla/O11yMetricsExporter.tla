------------------------- MODULE O11yMetricsExporter -------------------------
(***************************************************************************)
(* The exporters of metrics (exporter/o11ydatastoremetrics) and of meter   *)
(* samples (exporter/o11ydatastoremeter): what they make of a payload, and *)
(* how they write it.                                                      *)
(*                                                                         *)
(* A metric is one of Metering's, with its temporality.  Its points also   *)
(* have an identity, the attributes of resource, scope and point as one    *)
(* value, the hour of their time, and whether one of their numbers is NaN. *)
(* A row of samples is <<point, name, suffix, k>>, where k is the number   *)
(* of a bucket or quantile and 0 for the others and for le="+Inf"; a row   *)
(* of time series is <<name, suffix, k, attributes, hour>>.                *)
(***************************************************************************)
EXTENDS DatastoreExporter, Metering

CONSTANTS
  Metrics,         \* [payload -> the set of its metrics], for the payloads of metrics
  Meters,          \* the same, for the payloads of the meter exporter
  enableExpHist

ASSUME MetricsAssumption ==
  /\ {"ts", "samples", "expHist", "metadata", "meter"} \subseteq Table
  /\ DOMAIN Metrics \cup DOMAIN Meters \subseteq Batch /\ DOMAIN Metrics \cap DOMAIN Meters = {}
  /\ NoBatch \notin Batch

-----------------------------------------------------------------------------
(* prepareBatch *)

\* The samples of one point, as <<suffix, k>>.
processGauge(p) == {<<"", 0>>}
processSum(p) == {<<"", 0>>}

Optional(condition, suffix) == IF condition THEN {<<suffix, 0>>} ELSE {}

Extremes(p) ==
  {<<".count", 0>>} \cup Optional(p.hasSum, ".sum") \cup Optional(p.hasMin, ".min")
  \cup Optional(p.hasMax, ".max")

processHistogram_NoInf(p) ==
  Extremes(p) \cup ({".bucket"} \X {k \in 1 .. p.bounds : k <= p.buckets})

\* Cumulative counts up to each bound, and the one of le="+Inf".
processHistogram(p) ==
  Extremes(p) \cup ({".bucket"} \X {k \in 1 .. p.bounds : k <= p.buckets}) \cup {<<".bucket", 0>>}

processSummary(p) == {<<".count", 0>>, <<".sum", 0>>} \cup ({".quantile"} \X (1 .. p.quantiles))

processExponentialHistogram(p) == Extremes(p)

PointSamples(type, p) ==
  CASE type = "gauge" -> processGauge(p)
    [] type = "sum" -> processSum(p)
    [] type = "histogram" -> processHistogram(p)
    [] type = "summary" -> processSummary(p)
    [] type = "exponential" -> processExponentialHistogram(p)

\* Exponential histograms only when they are enabled, and only deltas.
Processed(m) == m.type = "exponential" => enableExpHist /\ m.temporality = "delta"

\* The points that are written: not those with a NaN.
Points(m) == IF Processed(m) THEN {i \in DOMAIN m.points : ~m.points[i].nan} ELSE {}

samples(ms) ==
  UNION {UNION {{<<m.points[i].id, m.name, k[1], k[2]>> : k \in PointSamples(m.type, m.points[i])}
                : i \in Points(m)} : m \in ms}

\* The sketch of an exponential histogram is a row of exp_hist and has its own series.
expHist(ms) == UNION {{m.points[i].id : i \in Points(m)} : m \in {x \in ms : x.type = "exponential"}}

Series(m, p) ==
  {<<m.name, k[1], k[2], p.attrs, p.hour>> : k \in PointSamples(m.type, p)
     \cup (IF m.type = "exponential" THEN {<<"", 0>>} ELSE {})}

ts(ms) == UNION {UNION {Series(m, m.points[i]) : i \in Points(m)} : m \in ms}

seriesNames == [gauge |-> {""}, sum |-> {""}, histogram |-> {".count", ".sum", ".min", ".max", ".bucket"},
             summary |-> {".count", ".sum", ".quantile"}, exponential |-> {".count", ".sum", ".min", ".max"}]

\* addMetadata: the attributes of the points of each series, and of the resource and
\* scope for every suffix, also when no point is written.
metadata(ms) ==
  {<<r[1], r[2], r[4]>> : r \in ts(ms)}
  \cup UNION {{<<m.name, suffix, "resource">> : suffix \in seriesNames[m.type]} : m \in {x \in ms : Processed(x)}}

-----------------------------------------------------------------------------
(* PushMetrics and writeBatch of the metrics exporter *)

\* The batch of every payload: the rows its four writers are given.
prepareBatch ==
  [b \in DOMAIN Metrics |->
     [ts |-> ts(Metrics[b]), samples |-> samples(Metrics[b]), expHist |-> expHist(Metrics[b]),
      metadata |-> metadata(Metrics[b])]]

Batched(p) == prepareBatch[pbatch[p]]

metricsWriters == {"ts", "samples", "expHist"}

\* A writer without rows returns at once.
PushMetrics(p) ==
  /\ pbatch[p] \in DOMAIN Metrics
  /\ Select(p, [w \in metricsWriters |-> IF Batched(p)[w] = {} THEN "ok" ELSE "run"])

InMetrics(p, w) == pbatch[p] \in DOMAIN Metrics /\ Running(p, w)

SeriesAppend_CachesAlways(p) ==
  LET rows == Batched(p).ts IN
  /\ InMetrics(p, "ts")
  /\ \E prepared \in Prepared :
       /\ Fault(~prepared)
       /\ pstat' = [pstat EXCEPT ![p]["ts"] = IF prepared THEN "send" ELSE "failed"]
       /\ stmt' = IF prepared THEN [stmt EXCEPT ![p]["ts"] = Uncached("ts", rows)] ELSE stmt
       /\ cache' = cache \cup ({"ts"} \X rows)
  /\ UNCHANGED <<ppc, pbatch, acked, pushes, table, stored, lost, usageVars, stopping>>

\* writeTimeSeries appends the series that are not cached for their hour ...
SeriesAppend(p) ==
  LET rows == Batched(p).ts IN
  /\ InMetrics(p, "ts")
  /\ \E prepared \in Prepared :
       /\ Fault(~prepared)
       /\ pstat' = [pstat EXCEPT ![p]["ts"] = IF prepared THEN "send" ELSE "failed"]
       /\ stmt' = IF prepared THEN [stmt EXCEPT ![p]["ts"] = Uncached("ts", rows)] ELSE stmt
       /\ cache' = IF prepared THEN cache \cup ({"ts"} \X rows) ELSE cache
  /\ UNCHANGED <<ppc, pbatch, acked, pushes, table, stored, lost, usageVars, stopping>>

\* ... and sends them.
SeriesSend(p) ==
  /\ ppc[p] = "write" /\ pbatch[p] \in DOMAIN Metrics /\ pstat[p]["ts"] = "send"
  /\ \E out \in Outcomes :
       /\ InsertCached("ts", stmt[p]["ts"], out)
       /\ pstat' = [pstat EXCEPT ![p]["ts"] = IF out = "sent" THEN "ok" ELSE "failed"]
       /\ stmt' = [stmt EXCEPT ![p]["ts"] = {}]
  /\ UNCHANGED <<ppc, pbatch, acked, pushes, cache, usageVars, stopping>>

\* Samples of metrics whose name begins with o11y, chi or otelcol are not billed.
collectUsage(rows) == {r \in rows : r[2] \notin {"o11y", "chi", "otelcol"}}

\* writeSamples records the usage of the appended samples ...
SamplesAppend(p) ==
  LET rows == Batched(p).samples IN
  /\ InMetrics(p, "samples")
  /\ \E prepared \in Prepared :
       /\ Fault(~prepared)
       /\ pstat' = [pstat EXCEPT ![p]["samples"] = IF prepared THEN "send" ELSE "failed"]
       /\ recorded' = IF prepared THEN recorded + Cardinality(collectUsage(rows)) ELSE recorded
  /\ UNCHANGED <<ppc, pbatch, stmt, acked, pushes, table, stored, lost, cache, exported, flushed,
                 stopping>>

\* ... and sends them.
SamplesSend(p) ==
  LET rows == Batched(p).samples IN
  /\ ppc[p] = "write" /\ pbatch[p] \in DOMAIN Metrics /\ pstat[p]["samples"] = "send"
  /\ WriteRows(p, "samples", "samples", rows, Cardinality(collectUsage(rows)))

writeExpHist(p) ==
  /\ InMetrics(p, "expHist")
  /\ WriteRows(p, "expHist", "expHist", Batched(p).expHist, 0)

AllWritten_FirstResult(p) == pstat[p]["ts"] = "ok"

\* The errors of the writers are joined.
AllWritten(p) == \A w \in metricsWriters : pstat[p][w] = "ok"

\* writeMetadata, the fourth writer: its error becomes nil, so that when it writes makes
\* no difference to the others, and it is taken together with the join.
writeMetadata(p, out) == Insert("metadata", Batched(p).metadata, 0, out) /\ UNCHANGED lost

writeBatch(p) ==
  /\ ppc[p] = "write" /\ pbatch[p] \in DOMAIN Metrics /\ Ended(p)
  /\ \E out \in Outcomes : writeMetadata(p, out)
  /\ Return(p, AllWritten(p))
  /\ UNCHANGED <<cache, usageVars, stopping>>

\* usageCollector.Stop(), close(closeChan), wg.Wait(), conn.Close().
MetricsShutdown ==
  \/ StopUsage("idle", "stopped") \/ CloseChannel("stopped", "closing")
  \/ Wait("closing", "close") \/ CloseConn("close")

MetricsNext ==
  \/ \E p \in Pusher :
       \/ PushMetrics(p) \/ SeriesAppend(p) \/ SeriesSend(p)
       \/ SamplesAppend(p) \/ SamplesSend(p) \/ writeExpHist(p)
       \/ writeBatch(p) \/ \E b \in DOMAIN Metrics : Enter(p, b)
  \/ Expire \/ Report \/ MetricsShutdown

MetricsSpec == ExporterInit /\ [][MetricsNext]_exporterVars

-----------------------------------------------------------------------------
(* The meter exporter: gauges and sums, into one table *)

meterSamples(b) == samples({m \in Meters[b] : m.type \in {"gauge", "sum"}})

ConsumeMeters(p) == pbatch[p] \in DOMAIN Meters /\ Select(p, [w \in {"meter"} |-> "run"])

writeMeters(p) ==
  LET rows == meterSamples(pbatch[p]) IN
  /\ pbatch[p] \in DOMAIN Meters /\ Running(p, "meter")
  /\ IF rows = {}
     THEN Return(p, TRUE) /\ UNCHANGED datastore
     ELSE \E out \in Outcomes :
            Insert("meter", rows, 0, out) /\ Return(p, out = "sent") /\ UNCHANGED lost
  /\ UNCHANGED <<cache, usageVars, stopping>>

MeterExporterShutdown ==
  CloseChannel("idle", "closing") \/ Wait("closing", "close") \/ CloseConn("close")

MeterExporterNext ==
  \/ \E p \in Pusher :
       ConsumeMeters(p) \/ writeMeters(p) \/ \E b \in DOMAIN Meters : Enter(p, b)
  \/ MeterExporterShutdown

MeterExporterSpec == ExporterInit /\ [][MeterExporterNext]_exporterVars

-----------------------------------------------------------------------------
(* Properties *)

\* The samples and sketches of an accepted payload are stored, and so are its meters:
\* the error of a writer is not lost among those that run beside it.
AckedSamplesStored ==
  /\ \A b \in acked \cap DOMAIN Metrics : /\ prepareBatch[b].samples \subseteq table["samples"]
                                          /\ prepareBatch[b].expHist \subseteq table["expHist"]
  /\ \A b \in acked \cap DOMAIN Meters : meterSamples(b) \subseteq table["meter"]

\* Every sample of an accepted payload can be found: its series is stored for the hour
\* of the sample, or is in a statement under way, or was in one that failed.
AckedSeriesAccounted ==
  \A b \in acked \cap DOMAIN Metrics :
    prepareBatch[b].ts \subseteq table["ts"] \cup {r[2] : r \in {l \in lost : l[1] = "ts"}}
                            \cup UNION {stmt[p]["ts"] : p \in Pusher}

\* What the metrics and meter exporters accepted is in the datastore and can be found,
\* although their writers run and fail beside each other, a cache makes pushes leave out
\* series that another push has yet to send, and earlier pushes failed half way.
SamplesAccounted == AckedSamplesStored /\ AckedSeriesAccounted

Billed(m) == Cardinality(collectUsage(samples({m})))

\* Histograms with one bucket more than bounds, no NaN, no name that begins with chi.
WellFormed(m) ==
  /\ m.name # "chi" /\ \A i \in DOMAIN m.points : ~m.points[i].nan
  /\ m.type = "histogram" => \A i \in DOMAIN m.points : m.points[i].buckets = m.points[i].bounds + 1

\* What the exporter bills for a payload is what the meter (pkg/metering) counts, for
\* every type of metric but the exponential histograms: the exporter bills their count,
\* sum, min and max.
MeterMatchesUsage ==
  \A p \in Pusher : \A m \in IF pbatch[p] \in DOMAIN Metrics THEN Metrics[pbatch[p]] ELSE {} :
    WellFormed(m) /\ m.type # "exponential" => Billed(m) = MetricCount(m)
=============================================================================
