--------------------------- MODULE TracesExporter ---------------------------
(***************************************************************************)
(* The exporter of spans (exporter/datastoretracesexporter): a push writes *)
(* the index, the error and the attribute tables in parallel, then the     *)
(* resources of the spans.  A background goroutine fetches the attribute   *)
(* keys with too many values.                                              *)
(*                                                                         *)
(* A span is [id, old, bucket, resource, attrs, events]: whether it is     *)
(* older than max_allowed_data_age_days, the half hour of its start, the   *)
(* labels of its resource, its attributes with those of resource and       *)
(* scope, and the names of its events.  An attribute is                    *)
(* [key, tagType, type, value]; the value of a map is the set of the       *)
(* attributes it is flattened into.                                        *)
(***************************************************************************)
EXTENDS DatastoreExporter

CONSTANTS
  Spans,               \* [payload -> its spans], for the payloads of this exporter
  LongValue,           \* values beyond common.MaxAttributeValueLength
  MaxDistinctValues

ASSUME TracesAssumption ==
  /\ {"index", "error", "tags", "keys", "resource"} \subseteq Table
  /\ DOMAIN Spans \subseteq Batch /\ NoBatch \notin Batch

VARIABLE
  shouldSkipKeys       \* the keys of shouldSkipKeyValue

tracesVars == <<exporterVars, shouldSkipKeys>>

TracesInit == shouldSkipKeys = {}

-----------------------------------------------------------------------------
(* A payload's rows *)

\* Spans that are too old are skipped.
batchOfSpans(b) == {s \in Spans[b] : ~s.old}

\* <<bucket, fingerprint>> of the resources seen, one row for each bucket.
resourcesSeen(b) == {<<s.bucket, s.resource>> : s \in batchOfSpans(b)}

\* Every event has an error event; the one of an event that is no exception has no name.
errorEvents(s) == {<<s.id, i>> : i \in {j \in DOMAIN s.events : s.events[j] = "exception"}}

DataType == [double |-> "float64", int |-> "float64", bool |-> "bool", string |-> "string"]

\* attributesData.add: a map gives the attributes it is flattened into, NaN gives none.
add(a) ==
  {[key |-> l.key, tagType |-> l.tagType, dataType |-> DataType[l.type], value |-> l.value] :
     l \in {x \in (IF a.type = "map" THEN a.value ELSE {a}) : x.type # "NaN"}}

SpanAttributes(s) == UNION {add(a) : a \in s.attrs}

attributeKey(a) == <<a.key, a.tagType, a.dataType>>

KeyRows(b) == {attributeKey(a) : a \in UNION {SpanAttributes(s) : s \in batchOfSpans(b)}}

\* Rows of tag_attributes_v2, without their hour: the values that are neither too long
\* nor of a key with too many.  Booleans are written without their value.
ValueRows(b, skip) ==
  {<<attributeKey(a), IF a.dataType = "bool" THEN "" ELSE a.value>> :
     a \in {x \in UNION {SpanAttributes(s) : s \in batchOfSpans(b)} :
               x.value \notin LongValue /\ attributeKey(x) \notin skip}}

-----------------------------------------------------------------------------
(* Background: the keys with too many values *)

\* fetchShouldSkipKeys, at the start and with every tick until Close.  After a failed
\* Select the empty map is stored.
doFetchShouldSkipKeys ==
  /\ connOpen
  /\ shouldSkipKeys' \in
       {{}, {k \in {r[1] : r \in table["tags"]} :
               Cardinality({r \in table["tags"] : r[1] = k}) > MaxDistinctValues}}
  /\ UNCHANGED exporterVars

-----------------------------------------------------------------------------
(* pushTraceDataV3 *)

tracesWriters == {"index", "error", "tag"}

pushTraceDataV3(p) == Select(p, [w \in tracesWriters |-> "run"]) /\ UNCHANGED shouldSkipKeys

writeIndexBatchV3(p) ==
  LET rows == {s.id : s \in batchOfSpans(pbatch[p])} IN
  /\ Running(p, "index")
  /\ WriteRows(p, "index", "index", rows, Cardinality(rows))
  /\ UNCHANGED shouldSkipKeys

writeErrorBatchV3(p) ==
  /\ Running(p, "error")
  /\ WriteRows(p, "error", "error", UNION {errorEvents(s) : s \in batchOfSpans(pbatch[p])}, 0)
  /\ UNCHANGED shouldSkipKeys

\* writeTagBatchV3 loads the keys to skip, prepares two statements and appends the
\* values, and the keys that are not in keysCache, ...
TagAppend(p) ==
  /\ Running(p, "tag")
  /\ \E prepared \in Prepared :
       /\ Fault(~prepared)
       /\ IF prepared
          THEN /\ stmt' = [stmt EXCEPT ![p]["tags"] = ValueRows(pbatch[p], shouldSkipKeys),
                                       ![p]["keys"] = Uncached("keys", KeyRows(pbatch[p]))]
               /\ cache' = cache \cup ({"keys"} \X KeyRows(pbatch[p]))
               /\ pstat' = [pstat EXCEPT ![p]["tag"] = "values"]
          ELSE /\ pstat' = [pstat EXCEPT ![p]["tag"] = "failed"]
               /\ UNCHANGED <<stmt, cache>>
  /\ UNCHANGED <<ppc, pbatch, acked, pushes, table, stored, lost, usageVars, stopping,
                 shouldSkipKeys>>

\* ... sends the values, ...
TagSendValues(p) ==
  /\ ppc[p] = "write" /\ pstat[p]["tag"] = "values"
  /\ \E out \in Outcomes :
       /\ Insert("tags", stmt[p]["tags"], 0, out)
       /\ pstat' = [pstat EXCEPT ![p]["tag"] = IF out = "sent" THEN "keys" ELSE "failed"]
  /\ UNCHANGED <<ppc, pbatch, stmt, acked, pushes, lost, cache, usageVars, stopping, shouldSkipKeys>>

\* ... and then the keys.
TagSendKeys(p) ==
  /\ ppc[p] = "write" /\ pstat[p]["tag"] = "keys"
  /\ WriteRows(p, "tag", "keys", stmt[p]["keys"], 0)
  /\ UNCHANGED shouldSkipKeys

Failed_LastWriter(p) == pstat[p]["index"] = "failed"

\* An error of the index or of the error table; that of the tag writer is only logged.
Failed(p) == \E w \in {"index", "error"} : pstat[p][w] = "failed"

WriteBatchOfSpansV3_BillsSuccess(p) ==
  /\ ppc[p] = "write" /\ Ended(p)
  /\ recorded' = recorded + IF Failed(p) THEN 0 ELSE Cardinality(batchOfSpans(pbatch[p]))
  /\ IF Failed(p) THEN Return(p, FALSE)
     ELSE /\ ppc' = [ppc EXCEPT ![p] = "resources"]
          /\ UNCHANGED <<pbatch, pstat, stmt, acked, pushes>>
  /\ UNCHANGED <<datastore, cache, exported, flushed, stopping, shouldSkipKeys>>

\* wg.Wait(); the usage is recorded whatever the writers' outcome.
WriteBatchOfSpansV3(p) ==
  /\ ppc[p] = "write" /\ Ended(p)
  /\ recorded' = recorded + Cardinality(batchOfSpans(pbatch[p]))
  /\ IF Failed(p) THEN Return(p, FALSE)
     ELSE /\ ppc' = [ppc EXCEPT ![p] = "resources"]
          /\ UNCHANGED <<pbatch, pstat, stmt, acked, pushes>>
  /\ UNCHANGED <<datastore, cache, exported, flushed, stopping, shouldSkipKeys>>

rfCacheMisses_NoBucket(rows) ==
  {r \in rows : \A c \in cache : ~(c[1] = "resource" /\ c[2][2] = r[2])}

\* The rows whose bucket and fingerprint (utils.MakeKeyForRFCache) are not in rfCache.
rfCacheMisses(rows) == Uncached("resource", rows)

\* WriteResourcesV3: the statement cannot be prepared, or the rows are appended.
ResourcesAppend(p) ==
  LET rows == resourcesSeen(pbatch[p]) IN
  /\ ppc[p] = "resources"
  /\ \E prepared \in Prepared :
       /\ Fault(~prepared)
       /\ IF ~prepared THEN Return(p, FALSE) /\ UNCHANGED cache
          ELSE /\ stmt' = [stmt EXCEPT ![p]["resource"] = rfCacheMisses(rows)]
               /\ cache' = cache \cup ({"resource"} \X rows)
               /\ ppc' = [ppc EXCEPT ![p] = "sendResources"]
               /\ UNCHANGED <<pbatch, pstat, acked, pushes>>
  /\ UNCHANGED <<table, stored, lost, usageVars, stopping, shouldSkipKeys>>

ResourcesSend(p) ==
  /\ ppc[p] = "sendResources"
  /\ \E out \in Outcomes :
       InsertCached("resource", stmt[p]["resource"], out) /\ Return(p, out = "sent")
  /\ UNCHANGED <<cache, usageVars, stopping, shouldSkipKeys>>

-----------------------------------------------------------------------------
TracesShutdown_FlushesFirst ==
  \/ StopUsage("idle", "stop") \/ CloseChannel("stop", "closing")
  \/ Wait("closing", "close") \/ CloseConn("close")

\* close(closeChan), wg.Wait(), usageCollector.Stop(), Writer.Close().
TracesShutdown ==
  \/ CloseChannel("idle", "closing") \/ Wait("closing", "stop")
  \/ StopUsage("stop", "close") \/ CloseConn("close")

TracesPush(p) ==
  \/ pushTraceDataV3(p) \/ writeIndexBatchV3(p) \/ writeErrorBatchV3(p)
  \/ TagAppend(p) \/ TagSendValues(p) \/ TagSendKeys(p)
  \/ WriteBatchOfSpansV3(p) \/ ResourcesAppend(p) \/ ResourcesSend(p)

TracesNext ==
  \/ \E p \in Pusher : TracesPush(p)
  \/ \E p \in Pusher, b \in DOMAIN Spans : Enter(p, b) /\ UNCHANGED shouldSkipKeys
  \/ doFetchShouldSkipKeys
  \/ (Expire \/ Report \/ TracesShutdown) /\ UNCHANGED shouldSkipKeys

TracesSpec == ExporterInit /\ TracesInit /\ [][TracesNext]_<<exporterVars, shouldSkipKeys>>

-----------------------------------------------------------------------------
(* Properties *)

Unsent(t) == UNION {stmt[p][t] : p \in Pusher}
Lost(t) == {l[2] : l \in {x \in lost : x[1] = t}}

\* A payload that was accepted is in the index and in the error table, although the
\* writers run in parallel, fail on their own and earlier pushes of it failed half way.
AckedSpansStored ==
  \A b \in acked \cap DOMAIN Spans : \A s \in batchOfSpans(b) :
    s.id \in table["index"] /\ errorEvents(s) \subseteq table["error"]

\* The resource of an accepted span is stored in the span's bucket, or is in the
\* statement of a push under way, or was in one that failed: it is not missing because
\* it was cached for another bucket, by another payload, or by an earlier push.
AckedResourceAccounted ==
  \A b \in acked \cap DOMAIN Spans :
    resourcesSeen(b) \subseteq table["resource"] \cup Unsent("resource") \cup Lost("resource")

\* What was accepted is in the datastore or accounted for: spans, errors and resources.
SpansAccounted == AckedSpansStored /\ AckedResourceAccounted

\* Nothing is stored that is not in the recorded usage: the rows in the index are those
\* recorded and those of the pushes that have yet to record them.  (Samples of metrics
\* are recorded before they are sent.)
UsageCoversStored ==
  LET Unrecorded == {p \in Pusher : ppc[p] = "write" /\ pbatch[p] \in DOMAIN Spans}
      rows[S \in SUBSET Unrecorded] ==
        IF S = {} THEN 0
        ELSE LET p == CHOOSE p \in S : TRUE
             IN rows[S \ {p}] + Cardinality(batchOfSpans(pbatch[p]))
  IN stored <= recorded + rows[Unrecorded]
=============================================================================
