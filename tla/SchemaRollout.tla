----------------------------- MODULE SchemaRollout -----------------------------
(***************************************************************************)
(* The migrations of the code applied to one database, from an installation*)
(* in Installation: the sync command, then the async command (README of the*)
(* migrator: "The migrator first runs the synchronous operations and then  *)
(* the asynchronous operations"), each operation a step, with failures and *)
(* crashes between any two of them, and the down command, which rolls a    *)
(* failed migration back.  How commands record and select migrations is in *)
(* SchemaMigrate; here is what their operations do to the tables, while    *)
(* exporters write to them.                                                *)
(***************************************************************************)
EXTENDS TracesSchema, MetricsSchema, LogsSchema, OtherSchema, SequencesExt

CONSTANT Installation   \* installations, by their names in Boot

\* Migrations that made the tables there are at first: in a new installation the
\* table of migrations, by the bootstrap command; in the logs database of an old
\* one also the tables of the squashed migrations of that time.
Boot == "traces" :> V2MigrationTablesTraces
     @@ "metrics" :> V2MigrationTablesMetrics
     @@ "logs" :> V2MigrationTablesLogs
     @@ "logsOld" :> V2MigrationTablesLogs \o SquashedLogsMigrations
     @@ "logsV2" :> V2MigrationTablesLogs
     @@ "metadata" :> V2MigrationTablesMetadata
     @@ "analytics" :> V2MigrationTablesAnalytics
     @@ "meter" :> V2MigrationTablesMeter

Since == "traces" :> TracesMigrations
      @@ "metrics" :> MetricsMigrations
      @@ "logs" :> LogsMigrations
      @@ "logsOld" :> LogsMigrations
      @@ "logsV2" :> LogsMigrationsV2
      @@ "metadata" :> MetadataMigrations
      @@ "analytics" :> AnalyticsMigrations
      @@ "meter" :> MeterMigrations

Empty == [t \in {} |-> Nothing]

\* SyncUp, AsyncUp: the squashed migrations, unless there is a legacy table, and
\* the migrations since.
Lists == "traces" :> SquashedTracesMigrations \o TracesMigrations
      @@ "metrics" :> SquashedMetricsMigrations \o MetricsMigrations
      @@ "logs" :> CustomRetentionLogsMigrations \o LogsMigrations
      @@ "logsV2" :> CustomRetentionLogsMigrations \o LogsMigrationsV2
      @@ Since

VARIABLES start,   \* the installation
          schema,  \* the tables
          status,  \* status[i]: of the migration Lists[start][i] in its table of migrations
          at,      \* the migration a command is applying, 0 for none
          mode,    \* of the command: "sync" or "async"
          upItem,  \* the operation it is at
          down,    \* the migration rolled back, 0 for none
          way,     \* of the roll back: "sync" or "async"
          undone   \* operations of the roll back executed

rollout == <<start, schema, status, at, mode, upItem, down, way, undone>>

Ids(records) == {records[i].id : i \in DOMAIN records}
ups(i) == Lists[start][i].up
Ops(items) == [k \in DOMAIN items |-> items[k].is]
InMode(m, items) == IF m = "sync" THEN IsSync(Ops(items)) ELSE IsAsync(Ops(items))

\* MigrateDownSync, MigrateDownAsync: the operations of a mode.
downs(i) ==
  SelectSeq(Lists[start][i].down,
            LAMBDA o : IF way = "sync" THEN IsSyncOperation(o.is) ELSE IsAsyncOperation(o.is))

ApplyAll(items, s) == FoldLeft(LAMBDA t, o : Apply(o, t), s, items)
UpItems(records) == FlattenSeq([i \in DOMAIN records |-> records[i].up])

Booted == [n \in DOMAIN Boot |-> ApplyAll(UpItems(Boot[n]), Empty)]

RolloutInit ==
  /\ start \in Installation /\ schema = Booted[start]
  /\ status = [i \in DOMAIN Lists[start] |-> "none"]
  /\ at = 0 /\ mode = "sync" /\ upItem = 1 /\ down = 0 /\ way = "sync" /\ undone = 0

RollingBack == down # 0 /\ undone < Len(downs(down))

Pending(m) == {i \in DOMAIN status : status[i] # "Finished" /\ InMode(m, ups(i))}

Begin_AnyMode ==
  /\ at = 0 /\ down = 0
  /\ mode' \in {"sync", "async"}
  /\ \E i \in Pending(mode') :
       (\A j \in Pending(mode') : i <= j) /\ at' = i /\ upItem' = 1
  /\ UNCHANGED <<start, schema, status, down, way, undone>>

\* run finds the next migration of its mode that is not Finished.
Begin ==
  /\ at = 0 /\ down = 0
  /\ mode' = IF Pending("sync") # {} THEN "sync" ELSE "async"
  /\ \E i \in Pending(mode') :
       (\A j \in Pending(mode') : i <= j) /\ at' = i /\ upItem' = 1
  /\ UNCHANGED <<start, schema, status, down, way, undone>>

\* RunOperationWithoutUpdate: the next operation succeeds.
ExecuteUp ==
  /\ at # 0 /\ upItem <= Len(ups(at)) /\ Accepts(ups(at)[upItem], schema)
  /\ schema' = Apply(ups(at)[upItem], schema) /\ upItem' = upItem + 1
  /\ UNCHANGED <<start, status, at, mode, down, way, undone>>

EndUp(s) == at' = 0 /\ upItem' = 1 /\ status' = s /\ UNCHANGED <<start, schema, mode, down, way, undone>>

Finish_Early ==
  at # 0 /\ upItem >= Len(ups(at)) /\ EndUp([status EXCEPT ![at] = "Finished"])

\* InsertMigrationEntry after the last operation.
Finish == at # 0 /\ upItem > Len(ups(at)) /\ EndUp([status EXCEPT ![at] = "Finished"])

\* An operation fails, before it has an effect or, when ExecuteUp went before, after.
Fail == at # 0 /\ EndUp([status EXCEPT ![at] = "Failed"])

Killed == at # 0 /\ EndUp(status)

\* The down command with the version of a failed migration (shouldRunMigration
\* passes over Finished ones).
BeginDown(i) ==
  /\ at = 0 /\ down = 0 /\ status[i] = "Failed"
  /\ down' = i
  /\ \/ way' = "sync" /\ start # "metadata"
        /\ Lists[start][i].id \in Ids(Since[start])
     \/ way' = "async" /\ start \in {"traces", "metrics", "logs", "logsOld", "logsV2"}
        /\ Lists[start][i].id \in Ids(Since[IF start = "logsV2" THEN "logs" ELSE start])
  /\ UNCHANGED <<start, schema, status, at, mode, upItem, undone>>

\* RunOperation, of a roll back: it records every operation that succeeds as Finished.
ExecuteDown ==
  /\ RollingBack /\ Accepts(downs(down)[undone + 1], schema)
  /\ schema' = Apply(downs(down)[undone + 1], schema) /\ undone' = undone + 1
  /\ status' = [status EXCEPT ![down] = "Finished"]
  /\ UNCHANGED <<start, at, mode, upItem, down, way>>

RolloutNext ==
  \/ Begin \/ ExecuteUp \/ Finish \/ Fail \/ Killed
  \/ (\E i \in DOMAIN status : BeginDown(i)) \/ ExecuteDown

-----------------------------------------------------------------------------
(* What the exporters write *)

\* The statements of the exporters: the columns an INSERT names, or all of them in
\* the order of the table, of which there must be as many as values are appended.
Names(table, columns) == [on |-> table, columns |-> columns, values |-> 0]
Values(table, n) == [on |-> table, columns |-> {}, values |-> n]

TracesWrites ==
  {Names("distributed_o11y_index_v3",
     {"ts_bucket_start", "resource_fingerprint", "timestamp", "trace_id", "span_id",
      "trace_state", "parent_span_id", "flags", "name", "kind", "kind_string",
      "duration_nano", "status_code", "status_message", "status_code_string",
      "attributes_string", "attributes_number", "attributes_bool", "resources_string",
      "resource", "scope", "events", "links", "response_status_code",
      "external_http_url", "http_url", "external_http_method", "http_method",
      "http_host", "db_name", "db_operation", "has_error", "is_remote"}),
   Values("distributed_o11y_error_index_v2", 11),
   Values("distributed_span_attributes_keys", 4),
   Values("distributed_tag_attributes_v2", 6),
   Values("distributed_traces_v3_resource", 3)}

LogsWrites ==
  {Names("distributed_logs_v2",
     {"ts_bucket_start", "resource_fingerprint", "timestamp", "observed_timestamp", "id",
      "trace_id", "span_id", "trace_flags", "severity_text", "severity_number", "body",
      "attributes_string", "attributes_number", "attributes_bool", "resources_string",
      "resource", "scope_name", "scope_version", "scope_string"}),
   Names("distributed_logs_v2_resource", {"labels", "fingerprint", "seen_at_ts_bucket_start"}),
   Values("distributed_logs_attribute_keys", 2),
   Values("distributed_logs_resource_keys", 2),
   Values("distributed_tag_attributes_v2", 6)}

MetricsWrites ==
  {Names("distributed_samples_v4",
     {"env", "temporality", "metric_name", "fingerprint", "unix_milli", "value", "flags",
      "inserted_at_unix_milli"}),
   Names("distributed_time_series_v4",
     {"env", "temporality", "metric_name", "description", "unit", "type", "is_monotonic",
      "fingerprint", "unix_milli", "labels", "attrs", "scope_attrs", "resource_attrs",
      "__normalized", "inserted_at_unix_milli"}),
   Names("distributed_exp_hist",
     {"env", "temporality", "metric_name", "fingerprint", "unix_milli", "count", "sum",
      "min", "max", "sketch", "flags", "inserted_at_unix_milli"}),
   Names("distributed_metadata",
     {"temporality", "metric_name", "description", "unit", "type", "is_monotonic",
      "attr_name", "attr_type", "attr_datatype", "attr_string_value",
      "first_reported_unix_milli", "last_reported_unix_milli"})}

MeterWrites ==
  {Names("distributed_samples",
     {"temporality", "metric_name", "description", "unit", "type", "is_monotonic", "labels",
      "fingerprint", "unix_milli", "value"})}

UsageWrites == {Values("distributed_usage", 5)}

MetadataWrites == {Values("distributed_attributes_metadata", 6)}

Writes ==
  CASE start = "traces" -> TracesWrites \cup UsageWrites
    [] start \in {"logs", "logsOld", "logsV2"} -> LogsWrites \cup UsageWrites
    [] start = "metrics" -> MetricsWrites \cup UsageWrites
    [] start = "meter" -> MeterWrites
    [] start = "metadata" -> MetadataWrites
    [] OTHER -> {}

Fits(w, t) == IF w.values = 0 THEN w.columns \subseteq t.columns
              ELSE w.values = Cardinality(t.columns)

-----------------------------------------------------------------------------
(* Properties *)

\* The position of a command is one of its list, and tables are records of the
\* modelled form.
RolloutTypeOK ==
  /\ at \in 0 .. Len(status) /\ mode \in {"sync", "async"} /\ way \in {"sync", "async"}
  /\ \A t \in DOMAIN schema : DOMAIN schema[t] = DOMAIN Nothing
  /\ at # 0 => upItem \in 1 .. Len(ups(at)) + 1
  /\ undone # 0 => down # 0 /\ undone \in 1 .. Len(downs(down))

\* A migration the datastore refuses: 2001 shards a table by columns it does not
\* have (see README).
Refused == {<<"logsV2", 2001>>}

\* Every operation a command comes to is accepted: the tables and columns it
\* names are there, whatever was interrupted and repeated before it, and although
\* the async migrations are applied after later sync ones.
EveryOperationApplies ==
  at # 0 /\ upItem <= Len(ups(at)) /\ <<start, Lists[start][at].id>> \notin Refused =>
    Accepts(ups(at)[upItem], schema)

\* An insert into a table with views on it succeeds at every moment of a rollout
\* and of a roll back: views are made after the columns they read and write, and
\* taken away before them.
ViewsRun ==
  \A v \in DOMAIN schema :
    schema[v].from \in DOMAIN schema => Runs(schema[v], schema)

\* A distributed table has no column that the table below it does not have:
\* columns are added below first and dropped there last.
DistributedFits ==
  \A t \in DOMAIN schema : schema[t].of \in DOMAIN schema =>
    schema[t].columns \subseteq schema[schema[t].of].columns

\* Once the sync migrations are Finished the application may start ("These
\* migrations need to be successfully applied before bringing up the application"):
\* what its exporters insert fits the tables, and still does while the async
\* migrations run.
ExportersFit ==
  down = 0 /\ Pending("sync") = {} =>
    \A w \in Writes : w.on \in DOMAIN schema /\ Fits(w, schema[w.on])

\* Inserts succeed at every moment: through the views, through the distributed
\* tables, and, once the sync migrations are Finished, as the exporters make them.
InsertsSucceed == RolloutTypeOK /\ ViewsRun /\ DistributedFits /\ ExportersFit

\* When every migration is Finished the schema is the one the lists make when
\* they are applied in order without interruption.
Planned == [n \in DOMAIN Lists |-> ApplyAll(UpItems(Lists[n]), Booted[n])]
Converges ==
  down = 0 /\ Pending("sync") \cup Pending("async") = {} => schema = Planned[start]
=============================================================================
