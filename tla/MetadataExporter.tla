-------------------------- MODULE MetadataExporter --------------------------
(***************************************************************************)
(* The exporter of attribute metadata (exporter/metadataexporter), for one *)
(* signal: a push writes the pairs of resource and attributes it has not   *)
(* seen, within limits that a key cache keeps, in memory or in Redis.      *)
(*                                                                         *)
(* A payload is a set of [resource, attrs, name] with sets of attributes,  *)
(* an attribute is <<key, value>>, and the fingerprint of a set of         *)
(* attributes is the set.  A push returns nil whatever happened; that a    *)
(* payload is pushed again stands for telemetry that repeats.              *)
(***************************************************************************)
EXTENDS DatastoreExporter

CONSTANTS
  Payload,             \* [payload -> its records]
  Untracked,           \* values that are empty, too long, or no strings
  AlwaysInclude,       \* keys of always_include_attributes
  MaxStringDistinctValues,
  TagCounts,           \* what the datastore may answer: [key -> [type, count]]
  MaxResources, MaxCardinality, MaxTotal   \* the limits, for every signal

VARIABLES
  ds, provider,        \* the signal; "in_memory" or "redis"
  tagCounts, tracker,  \* tagValueCountFromDB, ValueTracker
  resources, entries,  \* the entry of a resource; the attributes of an entry
  window,              \* Redis: the six hours that keys are made of
  records,             \* the records of a push, without those a limit left out
  todo,                \* their resources that were not looked at yet
  adding               \* [fp, new, entry, window] of a call of AddAttrsToResource

keyCache == <<resources, entries, window>>
metaState == <<ds, provider, tagCounts, tracker, keyCache, records, todo, adding>>
metadataVars == <<exporterVars, metaState>>

NoCall == [fp |-> {}, new |-> {}, entry |-> 0, window |-> 0]

MetadataInit ==
  /\ provider \in {"in_memory", "redis"} /\ ds \in {"traces", "metrics", "logs"}
  /\ tagCounts = << >> /\ tracker = << >>
  /\ resources = << >> /\ entries = << >> /\ window = 0
  /\ records = [p \in Pusher |-> {}] /\ todo = records /\ adding = [p \in Pusher |-> NoCall]

Goto(p, label) ==
  /\ ppc' = [ppc EXCEPT ![p] = label]
  /\ UNCHANGED <<pbatch, pstat, stmt, acked, pushes>>

-----------------------------------------------------------------------------
(* The attributes that are kept *)

getType(k) == IF k \in DOMAIN tagCounts THEN tagCounts[k].type ELSE "string"

shouldSkipAttributeFromDB(k) ==
  /\ k \notin AlwaysInclude /\ k \in DOMAIN tagCounts
  /\ \/ tagCounts[k].type = "string" /\ tagCounts[k].count > MaxStringDistinctValues
     \/ tagCounts[k].type \in {"float64", "int64"}

GetUniqueValueCount(k) == IF k \in DOMAIN tracker THEN Cardinality(tracker[k]) ELSE 0

shouldSkipAttributeUVT(k) ==
  /\ k \notin AlwaysInclude
  /\ \/ /\ getType(k) = "string" /\ MaxStringDistinctValues > 0
        /\ GetUniqueValueCount(k) > MaxStringDistinctValues
     \/ getType(k) = "float64"

filterAttrs(attrs) == {a \in attrs : ~shouldSkipAttributeUVT(a[1])}

AddValue_Unbounded(seen, new) == seen \cup new

\* AddValue of the kept string values: an LRU cache of MaxStringDistinctValues entries,
\* of which only their number matters.
AddValue(seen, new) ==
  IF Cardinality(seen \cup new) <= MaxStringDistinctValues THEN seen \cup new
  ELSE CHOOSE T \in SUBSET (seen \cup new) : Cardinality(T) = MaxStringDistinctValues

\* The values that filterAttrs keeps are added one key after the other.
addToUVT(attrs) ==
  LET kept == {a \in filterAttrs(attrs) : a[2] \notin Untracked}
      keys == {a[1] : a \in kept}
      Of(k) == IF k \in DOMAIN tracker THEN tracker[k] ELSE {}
  IN [k \in DOMAIN tracker \cup keys |-> AddValue(Of(k), {a[2] : a \in {x \in kept : x[1] = k}})]

fromDB(attrs) == {a \in attrs : ~shouldSkipAttributeFromDB(a[1])}

\* The attributes of the records of each signal, before filterAttrs; metrics are not
\* filtered at all.
spanAttrs(r) == fromDB(r.attrs) \cup {<<"name", r.name>>}
tracesRecords(b) == {<<fromDB(r.resource), filterAttrs(spanAttrs(r))>> : r \in Payload[b]}
metricsRecords(b) == {<<r.resource, r.attrs>> : r \in Payload[b]}
logsRecords(b) == {<<fromDB(r.resource), filterAttrs(fromDB(r.attrs))>> : r \in Payload[b]}

tracked(b) ==
  CASE ds = "traces" -> UNION {spanAttrs(r) : r \in Payload[b]}
    [] ds = "logs" -> UNION {fromDB(r.attrs) : r \in Payload[b]}
    [] OTHER -> {}

\* removeDuplicateRecords leaves one record for each pair of fingerprints.
removeDuplicateRecords(b) ==
  CASE ds = "traces" -> tracesRecords(b) [] ds = "metrics" -> metricsRecords(b) [] OTHER -> logsRecords(b)

\* A push prepares its statement, and makes its records if it could; it always returns nil.
PushRecords(p) ==
  /\ ppc[p] = "entered" /\ pbatch[p] \in DOMAIN Payload
  /\ \E prepared \in Prepared :
       /\ Fault(~prepared)
       /\ IF ~prepared THEN Return(p, TRUE) /\ UNCHANGED <<records, tracker>>
          ELSE /\ Goto(p, "resourcesLimit")
               /\ records' = [records EXCEPT ![p] = removeDuplicateRecords(pbatch[p])]
               /\ tracker' = addToUVT(tracked(pbatch[p]))
  /\ UNCHANGED <<table, stored, lost, cache, usageVars, stopping,
                 ds, provider, tagCounts, keyCache, todo, adding>>

\* periodicallyUpdateTagValueCountFromDB, started for traces and for logs.
updateTagValueCountFromDB ==
  /\ connOpen /\ ds # "metrics" /\ tagCounts' \in TagCounts
  /\ UNCHANGED <<exporterVars, ds, provider, tracker, keyCache, records, todo, adding>>

-----------------------------------------------------------------------------
(* KeyCache *)

inMemory == provider = "in_memory"

\* A call of Redis may fail.
Answers == IF inMemory THEN {TRUE} ELSE Prepared

Attrs(fp) == IF fp \in DOMAIN resources THEN entries[resources[fp]] ELSE {}

\* InMemoryKeyCache takes the limits of traces for every signal, ...
LimitOf(max) == IF inMemory THEN max["traces"] ELSE max[ds]

ResourcesLimitExceeded == Cardinality(DOMAIN resources) >= LimitOf(MaxResources)

\* ... and looks at its cache of traces only: it sums the attributes of its resources.
TotalCardinalityLimitExceeded ==
  IF inMemory
  THEN ds = "traces" /\ Cardinality(UNION {{fp} \X Attrs(fp) : fp \in DOMAIN resources}) >= MaxCardinality["traces"]
  ELSE Cardinality(UNION {Attrs(fp) : fp \in DOMAIN resources}) >= MaxTotal[ds]

CardinalityLimitExceeded(fp) == Cardinality(Attrs(fp)) >= LimitOf(MaxCardinality)

AttrsExistForResource_AnyResource(fp) == UNION {Attrs(x) : x \in DOMAIN resources}

AttrsExistForResource(fp) == Attrs(fp)

\* The six hours of an entry are over: of one resource in memory, of all keys in Redis.
ExpireKeys ==
  /\ faults < MaxFaults /\ Fault(TRUE) /\ DOMAIN resources # {}
  /\ \A p \in Pusher : ppc[p] # "get"
  /\ IF inMemory
     THEN /\ \E fp \in DOMAIN resources : resources' = [x \in DOMAIN resources \ {fp} |-> resources[x]]
          /\ UNCHANGED window
     ELSE resources' = << >> /\ window' = window + 1
  /\ UNCHANGED <<push, table, stored, lost, cache, usageVars, stopping, ds, provider, tagCounts,
                 tracker, entries, records, todo, adding>>
-----------------------------------------------------------------------------
(* writeToStatementBatch *)

\* One of the first two limits is exceeded, or the cache cannot tell.
CheckLimit(p, at, exceeded, next) ==
  /\ ppc[p] = at
  /\ \E ok \in Answers :
       /\ Fault(~ok)
       /\ IF ok /\ ~exceeded THEN Goto(p, next) /\ UNCHANGED records
          ELSE Return(p, TRUE) /\ records' = [records EXCEPT ![p] = {}]
  /\ UNCHANGED <<table, stored, lost, cache, usageVars, stopping, ds, provider, tagCounts, tracker,
                 keyCache, todo, adding>>

\* CardinalityLimitExceededMulti: the resources with too many attributes are left out,
\* none if the call fails.
CheckResources(p) ==
  /\ ppc[p] = "multi" /\ Goto(p, "groups")
  /\ \E ok \in Answers :
       LET kept == {r \in records[p] : ~(ok /\ CardinalityLimitExceeded(r[1]))} IN
       /\ Fault(~ok)
       /\ records' = [records EXCEPT ![p] = kept]
       /\ todo' = [todo EXCEPT ![p] = {r[1] : r \in kept}]
  /\ UNCHANGED <<table, stored, lost, cache, usageVars, stopping, ds, provider, tagCounts, tracker,
                 keyCache, adding>>

\* The next resource: what the cache does not have is appended.
Group(p, fp) ==
  LET group == {r \in records[p] : r[1] = fp}
      new == {r \in group : r[2] \notin AttrsExistForResource(fp)} IN
  /\ ppc[p] = "groups" /\ fp \in todo[p] /\ todo' = [todo EXCEPT ![p] = @ \ {fp}]
  /\ \E ok \in Answers :
       /\ Fault(~ok)
       /\ records' = IF ok THEN records ELSE [records EXCEPT ![p] = @ \ group]
       /\ IF ok /\ new # {}
          THEN /\ ppc' = [ppc EXCEPT ![p] = "add"]
               /\ stmt' = [stmt EXCEPT ![p]["attrs"] = @ \cup new]
               /\ adding' = [adding EXCEPT ![p] = [NoCall EXCEPT !.fp = fp, !.new = {r[2] : r \in new}]]
          ELSE UNCHANGED <<ppc, stmt, adding>>
  /\ UNCHANGED <<pbatch, pstat, acked, pushes, table, stored, lost, cache, usageVars, stopping,
                 ds, provider, tagCounts, tracker, keyCache>>

\* AddAttrsToResource returns, with an error that is logged or without.
Added(p) == Goto(p, "groups") /\ adding' = [adding EXCEPT ![p] = NoCall]

addingUnchanged ==
  <<datastore, cache, usageVars, stopping, ds, provider, tagCounts, tracker, records, todo>>

\* In memory: the entry is looked up, ...
AddGet(p) ==
  LET fp == adding[p].fp IN
  /\ ppc[p] = "add" /\ inMemory
  /\ CASE fp \in DOMAIN resources ->
            Goto(p, "lock") /\ adding' = [adding EXCEPT ![p].entry = resources[fp]]
       [] fp \notin DOMAIN resources /\ Cardinality(DOMAIN resources) >= MaxResources[ds] -> Added(p)
       [] OTHER -> Goto(p, "set") /\ UNCHANGED adding
  /\ UNCHANGED <<addingUnchanged, keyCache>>

Entry(fp, id) == [x \in DOMAIN resources \cup {fp} |-> IF x = fp THEN id ELSE resources[x]]

\* ... an empty one is set if there was none, in the place of one set meanwhile, ...
AddSet(p) ==
  /\ ppc[p] = "set" /\ Goto(p, "get")
  /\ entries' = Append(entries, {}) /\ resources' = Entry(adding[p].fp, Len(entries'))
  /\ UNCHANGED <<addingUnchanged, window, adding>>

TooMany_Before(had, new) == Cardinality(had) >= MaxCardinality[ds]
TooMany(had, new) == Cardinality(had) + Cardinality(new) > MaxCardinality[ds]

\* ... and with its lock held the attributes are added to the entry.
AddLocked(p) ==
  LET call == adding[p]
      e == IF ppc[p] = "get" THEN resources[call.fp] ELSE call.entry IN
  /\ ppc[p] \in {"get", "lock"} /\ Added(p)
  /\ entries' = IF TooMany(entries[e], call.new) THEN entries
                ELSE [entries EXCEPT ![e] = @ \cup call.new]
  /\ UNCHANGED <<addingUnchanged, resources, window>>

\* In Redis: the counts are read ...
AddCount(p) ==
  LET call == adding[p] IN
  /\ ppc[p] = "add" /\ ~inMemory
  /\ \E ok \in Answers :
       /\ Fault(~ok)
       /\ IF ~ok \/ Cardinality(DOMAIN resources) >= MaxResources[ds]
               \/ TooMany(Attrs(call.fp), call.new)
          THEN Added(p)
          ELSE Goto(p, "exec") /\ adding' = [adding EXCEPT ![p].window = window]
  /\ UNCHANGED <<table, stored, lost, cache, usageVars, stopping, ds, provider, tagCounts, tracker,
                 keyCache, records, todo>>

\* ... and the pipeline adds resource and attributes, to the keys of the window in which
\* the call began.
AddExec(p) ==
  LET call == adding[p] IN
  /\ ppc[p] = "exec" /\ Added(p)
  /\ \E out \in Outcomes :
       /\ Fault(out # "sent")
       /\ IF out = "refused" \/ call.window # window THEN UNCHANGED <<resources, entries>>
          ELSE /\ entries' = Append(entries, Attrs(call.fp) \cup call.new)
               /\ resources' = Entry(call.fp, Len(entries'))
  /\ UNCHANGED <<table, stored, lost, cache, usageVars, stopping, ds, provider, tagCounts, tracker,
                 window, records, todo>>

SendRecords(p) ==
  /\ ppc[p] = "groups" /\ todo[p] = {}
  /\ \E out \in Outcomes : InsertCached("attrs", stmt[p]["attrs"], out)
  /\ Return(p, TRUE) /\ records' = [records EXCEPT ![p] = {}]
  /\ UNCHANGED <<cache, usageVars, stopping, ds, provider, tagCounts, tracker, keyCache, todo, adding>>

writeToStatementBatch(p) ==
  \/ CheckLimit(p, "resourcesLimit", ResourcesLimitExceeded, "totalLimit")
  \/ CheckLimit(p, "totalLimit", TotalCardinalityLimitExceeded, "multi")
  \/ CheckResources(p) \/ (\E fp \in todo[p] : Group(p, fp)) \/ SendRecords(p)

AddAttrsToResource(p) ==
  AddGet(p) \/ AddSet(p) \/ AddLocked(p) \/ AddCount(p) \/ AddExec(p)

\* The sending queue has stopped before Shutdown is called.
MetadataShutdown == Waited /\ CloseConn("idle") /\ UNCHANGED metaState

MetadataNext ==
  \/ \E p \in Pusher :
       \/ PushRecords(p) \/ writeToStatementBatch(p) \/ AddAttrsToResource(p)
       \/ shut = "idle" /\ \E b \in DOMAIN Payload : Enter(p, b) /\ UNCHANGED metaState
  \/ updateTagValueCountFromDB \/ ExpireKeys \/ MetadataShutdown

-----------------------------------------------------------------------------
(* Properties *)

\* Entries are where the cache says, and a push has a call only while it makes one.
MetadataTypeOK ==
  /\ \A fp \in DOMAIN resources : resources[fp] \in DOMAIN entries
  /\ \A k \in DOMAIN tracker : Cardinality(tracker[k]) <= MaxStringDistinctValues
  /\ \A p \in Pusher : /\ todo[p] \subseteq {r[1] : r \in records[p]}
                       /\ adding[p] # NoCall => ppc[p] \in {"add", "set", "get", "lock", "exec"}

\* A pair of resource and attributes that a push passes over is one that was written: it
\* is stored, or in a statement under way, or was in one that failed, although the cache
\* is read before and added to after the Append, by several pushes, and forgets.
MetadataWritten ==
  \A p \in Pusher : \A r \in records[p] :
    \/ ppc[p] \in {"resourcesLimit", "totalLimit", "multi"} \/ r[1] \in todo[p]
    \/ r \in table["attrs"] \/ <<"attrs", r>> \in lost \/ \E q \in Pusher : r \in stmt[q]["attrs"]

\* How far the limits reach although they are checked before they are used: in memory
\* the attributes of a resource are counted under its lock; the number of resources,
\* and in Redis both, can be passed by what the other pushes add at the same time.
LimitsHold ==
  LET Others == Cardinality(Pusher) - 1 IN
  /\ Cardinality(DOMAIN resources) <= MaxResources[ds] + Others
  /\ \A fp \in DOMAIN resources :
       Cardinality(Attrs(fp)) <= MaxCardinality[ds] * IF inMemory THEN 1 ELSE 1 + Others
=============================================================================
