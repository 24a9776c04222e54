---------------------------- MODULE MetricsSchema ----------------------------
(***************************************************************************)
(* The migrations of the metrics database: its table of migrations, the    *)
(* squashed migrations of a new installation, and the migrations since.    *)
(***************************************************************************)
EXTENDS SchemaTables

V2MigrationTablesMetrics ==
  <<Record(5,
      <<Local("schema_migrations_v2", Columns_schema_migrations_v2, {"migration_id"}, {})>>,
      <<>>),
    Record(6,
      <<Distributed("distributed_schema_migrations_v2", "schema_migrations_v2",
                    Columns_schema_migrations_v2, {})>>,
      <<>>)>>

Columns_time_series_v2 ==
  {"metric_name", "fingerprint", "timestamp_ms", "labels", "temporality", "description", "unit",
   "type", "is_monotonic"}

Columns_exp_hist ==
  {"env", "temporality", "metric_name", "fingerprint", "unix_milli", "count", "sum", "min",
   "max", "sketch"}

Columns_samples_v4 ==
  {"env", "temporality", "metric_name", "fingerprint", "unix_milli", "value"}

Columns_time_series_v4 ==
  {"env", "temporality", "metric_name", "description", "unit", "type", "is_monotonic",
   "fingerprint", "unix_milli", "labels"}

Columns_samples_v4_agg_5m ==
  {"env", "temporality", "metric_name", "fingerprint", "unix_milli", "last", "min", "max", "sum",
   "count"}

SquashedMetrics_28_upa ==
  <<Local("samples_v4_agg_5m", Columns_samples_v4_agg_5m,
          {"unix_milli", "env", "temporality", "metric_name", "fingerprint"}, {}),
    Local("samples_v4_agg_30m", Columns_samples_v4_agg_5m,
          {"unix_milli", "env", "temporality", "metric_name", "fingerprint"}, {}),
    View("samples_v4_agg_5m_mv", "samples_v4", Columns_samples_v4, "samples_v4_agg_5m",
         Columns_samples_v4_agg_5m),
    View("samples_v4_agg_30m_mv", "samples_v4_agg_5m", Columns_samples_v4_agg_5m,
         "samples_v4_agg_30m", Columns_samples_v4_agg_5m),
    Distributed("distributed_samples_v4_agg_5m", "samples_v4_agg_5m", Columns_samples_v4_agg_5m,
                {"env", "temporality", "metric_name", "fingerprint"})>>

SquashedMetrics_28_upb ==
  <<Distributed("distributed_samples_v4_agg_30m", "samples_v4_agg_30m", Columns_samples_v4_agg_5m,
                {"env", "temporality", "metric_name", "fingerprint"}),
    Local("time_series_v4_1week", Columns_time_series_v4,
          {"unix_milli", "env", "temporality", "metric_name", "fingerprint"}, {}),
    View("time_series_v4_1week_mv", "time_series_v4_1day", Columns_time_series_v4,
         "time_series_v4_1week", Columns_time_series_v4),
    Distributed("distributed_time_series_v4_1week", "time_series_v4_1week",
                {"env", "temporality", "metric_name", "description"},
                {"env", "temporality", "metric_name", "fingerprint"})>>

SquashedMetrics_28_down ==
  <<Dropped("samples_v4_agg_5m"),
    Dropped("samples_v4_agg_5m_mv"),
    Dropped("samples_v4_agg_30m"),
    Dropped("samples_v4_agg_30m_mv"),
    Dropped("distributed_samples_v4_agg_5m"),
    Dropped("distributed_samples_v4_agg_30m"),
    Dropped("time_series_v4_1week"),
    Dropped("distributed_time_series_v4_1week"),
    Dropped("time_series_v4_1week_mv")>>

SquashedMetrics_1_to_4 ==
  <<Record(1,
      <<Local("samples_v2", {"metric_name", "fingerprint", "timestamp_ms", "value"},
              {"timestamp_ms", "metric_name", "fingerprint"}, {})>>,
      <<Dropped("samples_v2")>>),
    Record(2,
      <<Distributed("distributed_samples_v2", "samples_v2",
                    {"metric_name", "fingerprint", "timestamp_ms", "value"},
                    {"metric_name", "fingerprint"})>>,
      <<Dropped("distributed_samples_v2")>>),
    Record(3,
      <<Local("time_series_v2", Columns_time_series_v2,
              {"timestamp_ms", "metric_name", "fingerprint"},
              {<<"temporality_index", "temporality">>})>>,
      <<>>),
    Record(4,
      <<Distributed("distributed_time_series_v2", "time_series_v2", Columns_time_series_v2,
                    {"metric_name", "fingerprint"})>>,
      <<>>)>>

SquashedMetrics_5_to_8 ==
  <<Record(5,
      <<Local("exp_hist", Columns_exp_hist,
              {"unix_milli", "env", "temporality", "metric_name", "fingerprint"}, {})>>,
      <<Dropped("exp_hist")>>),
    Record(6,
      <<Distributed("distributed_exp_hist", "exp_hist", Columns_exp_hist,
                    {"env", "temporality", "metric_name", "fingerprint"})>>,
      <<Dropped("distributed_exp_hist")>>),
    Record(7,
      <<Local("samples_v4", Columns_samples_v4,
              {"unix_milli", "env", "temporality", "metric_name", "fingerprint"}, {})>>,
      <<Dropped("samples_v4")>>),
    Record(8,
      <<Distributed("distributed_samples_v4", "samples_v4", Columns_samples_v4,
                    {"env", "temporality", "metric_name", "fingerprint"})>>,
      <<Dropped("distributed_samples_v4")>>)>>

SquashedMetrics_9_to_12 ==
  <<Record(9,
      <<Local("time_series_v4", Columns_time_series_v4,
              {"unix_milli", "env", "temporality", "metric_name", "fingerprint"}, {})>>,
      <<Dropped("time_series_v4")>>),
    Record(10,
      <<Distributed("distributed_time_series_v4", "time_series_v4", Columns_time_series_v4,
                    {"env", "temporality", "metric_name", "fingerprint"})>>,
      <<Dropped("distributed_time_series_v4")>>),
    Record(11,
      <<Local("time_series_v4_6hrs", Columns_time_series_v4,
              {"unix_milli", "env", "temporality", "metric_name", "fingerprint"}, {})>>,
      <<Dropped("time_series_v4_6hrs")>>),
    Record(12,
      <<Distributed("distributed_time_series_v4_6hrs", "time_series_v4_6hrs",
                    Columns_time_series_v4, {"env", "temporality", "metric_name", "fingerprint"})>>,
      <<Dropped("distributed_time_series_v4_6hrs")>>)>>

SquashedMetrics_13_to_16 ==
  <<Record(13,
      <<Local("time_series_v4_1day", Columns_time_series_v4,
              {"unix_milli", "env", "temporality", "metric_name", "fingerprint"}, {})>>,
      <<Dropped("time_series_v4_1day")>>),
    Record(14,
      <<Distributed("distributed_time_series_v4_1day", "time_series_v4_1day",
                    Columns_time_series_v4, {"env", "temporality", "metric_name", "fingerprint"})>>,
      <<Dropped("distributed_time_series_v4_1day")>>),
    Record(15,
      <<Local("time_series_v4_1week", Columns_time_series_v4,
              {"unix_milli", "env", "temporality", "metric_name", "fingerprint"}, {})>>,
      <<Dropped("time_series_v4_1week")>>),
    Record(16,
      <<Distributed("distributed_time_series_v4_1week", "time_series_v4_1week",
                    Columns_time_series_v4, {"env", "temporality", "metric_name", "fingerprint"})>>,
      <<Dropped("distributed_time_series_v4_1week")>>)>>

SquashedMetrics_17_to_19 ==
  <<Record(17,
      <<View("time_series_v4_6hrs_mv", "time_series_v4", Columns_time_series_v4,
             "time_series_v4_6hrs", Columns_time_series_v4)>>,
      <<Dropped("time_series_v4_6hrs_mv")>>),
    Record(18,
      <<View("time_series_v4_1day_mv", "time_series_v4", Columns_time_series_v4,
             "time_series_v4_1day", Columns_time_series_v4)>>,
      <<Dropped("time_series_v4_1day_mv")>>),
    Record(19,
      <<View("time_series_v4_1week_mv", "time_series_v4_1day", Columns_time_series_v4,
             "time_series_v4_1week", Columns_time_series_v4)>>,
      <<Dropped("time_series_v4_1week_mv")>>)>>

SquashedMetrics_20_to_23 ==
  <<Record(20,
      <<Local("samples_v4_agg_5m", Columns_samples_v4_agg_5m,
              {"unix_milli", "env", "temporality", "metric_name", "fingerprint"}, {})>>,
      <<Dropped("samples_v4_agg_5m")>>),
    Record(21,
      <<Local("samples_v4_agg_30m", Columns_samples_v4_agg_5m,
              {"unix_milli", "env", "temporality", "metric_name", "fingerprint"}, {})>>,
      <<Dropped("samples_v4_agg_30m")>>),
    Record(22,
      <<View("samples_v4_agg_5m_mv", "samples_v4", Columns_samples_v4, "samples_v4_agg_5m",
             Columns_samples_v4_agg_5m)>>,
      <<Dropped("samples_v4_agg_5m_mv")>>),
    Record(23,
      <<View("samples_v4_agg_30m_mv", "samples_v4_agg_5m", Columns_samples_v4_agg_5m,
             "samples_v4_agg_30m", Columns_samples_v4_agg_5m)>>,
      <<Dropped("samples_v4_agg_30m_mv")>>)>>

SquashedMetrics_24_to_27 ==
  <<Record(24,
      <<Distributed("distributed_samples_v4_agg_5m", "samples_v4_agg_5m",
                    Columns_samples_v4_agg_5m,
                    {"env", "temporality", "metric_name", "fingerprint"})>>,
      <<Dropped("distributed_samples_v4_agg_5m")>>),
    Record(25,
      <<Distributed("distributed_samples_v4_agg_30m", "samples_v4_agg_30m",
                    Columns_samples_v4_agg_5m,
                    {"env", "temporality", "metric_name", "fingerprint"})>>,
      <<Dropped("distributed_samples_v4_agg_30m")>>),
    Record(26,
      <<Local("usage", Columns_usage, {"tenant", "collector_id", "exporter_id", "timestamp"}, {})>>,
      <<Dropped("usage")>>),
    Record(27,
      <<Distributed("distributed_usage", "usage", Columns_usage, {})>>,
      <<Dropped("distributed_usage")>>)>>

SquashedMetrics_28 ==
  <<Record(28, SquashedMetrics_28_upa \o SquashedMetrics_28_upb, SquashedMetrics_28_down)>>

SquashedMetricsMigrations ==
  SquashedMetrics_1_to_4 \o SquashedMetrics_5_to_8 \o SquashedMetrics_9_to_12 \o
  SquashedMetrics_13_to_16 \o SquashedMetrics_17_to_19 \o SquashedMetrics_20_to_23 \o
  SquashedMetrics_24_to_27 \o SquashedMetrics_28

Metrics_1000_upa ==
  <<Column("time_series_v4", "attrs", {}),
    Column("time_series_v4", "scope_attrs", {}),
    Column("time_series_v4", "resource_attrs", {}),
    Column("distributed_time_series_v4", "attrs", {}),
    Column("distributed_time_series_v4", "scope_attrs", {}),
    Column("distributed_time_series_v4", "resource_attrs", {}),
    Column("time_series_v4_6hrs", "attrs", {}),
    Column("time_series_v4_6hrs", "scope_attrs", {}),
    Column("time_series_v4_6hrs", "resource_attrs", {}),
    Column("distributed_time_series_v4_6hrs", "attrs", {}),
    Column("distributed_time_series_v4_6hrs", "scope_attrs", {})>>

Metrics_1000_upb ==
  <<Column("distributed_time_series_v4_6hrs", "resource_attrs", {}),
    Column("time_series_v4_1day", "attrs", {}),
    Column("time_series_v4_1day", "scope_attrs", {}),
    Column("time_series_v4_1day", "resource_attrs", {}),
    Column("distributed_time_series_v4_1day", "attrs", {}),
    Column("distributed_time_series_v4_1day", "scope_attrs", {}),
    Column("distributed_time_series_v4_1day", "resource_attrs", {}),
    Column("time_series_v4_1week", "attrs", {}),
    Column("time_series_v4_1week", "scope_attrs", {}),
    Column("time_series_v4_1week", "resource_attrs", {}),
    Column("distributed_time_series_v4_1week", "attrs", {})>>

Columns_metadata ==
  {"temporality", "metric_name", "description", "unit", "type", "is_monotonic", "attr_name",
   "attr_type", "attr_datatype", "attr_string_value", "first_reported_unix_milli",
   "last_reported_unix_milli"}

Reads_time_series_v4_6hrs_mv_separate_attrs ==
  {"env", "temporality", "metric_name", "description", "unit", "type", "is_monotonic",
   "fingerprint", "unix_milli", "labels", "attrs", "scope_attrs", "resource_attrs"}

Metrics_1000_upc ==
  <<Column("distributed_time_series_v4_1week", "scope_attrs", {}),
    Column("distributed_time_series_v4_1week", "resource_attrs", {}),
    Local("metadata", Columns_metadata,
          {"last_reported_unix_milli", "temporality", "metric_name", "attr_name", "attr_type", "attr_datatype", "attr_string_value"},
          {}),
    Distributed("distributed_metadata", "metadata", Columns_metadata, {}),
    View("time_series_v4_6hrs_mv_separate_attrs", "time_series_v4",
         Reads_time_series_v4_6hrs_mv_separate_attrs, "time_series_v4_6hrs",
         Reads_time_series_v4_6hrs_mv_separate_attrs),
    View("time_series_v4_1day_mv_separate_attrs", "time_series_v4_6hrs",
         Reads_time_series_v4_6hrs_mv_separate_attrs, "time_series_v4_1day",
         Reads_time_series_v4_6hrs_mv_separate_attrs)>>

Metrics_1000_upd ==
  <<View("time_series_v4_1week_mv_separate_attrs", "time_series_v4_1day",
         Reads_time_series_v4_6hrs_mv_separate_attrs, "time_series_v4_1week",
         Reads_time_series_v4_6hrs_mv_separate_attrs)>>

Reads_time_series_v4_6hrs_mv ==
  {"env", "temporality", "metric_name", "description", "unit", "type", "is_monotonic",
   "fingerprint", "unix_milli", "labels", "__normalized"}

Metrics_1001_upa ==
  <<Column("time_series_v4", "__normalized", {}),
    Column("distributed_time_series_v4", "__normalized", {}),
    Column("time_series_v4_6hrs", "__normalized", {}),
    Column("distributed_time_series_v4_6hrs", "__normalized", {}),
    Column("time_series_v4_1day", "__normalized", {}),
    Column("distributed_time_series_v4_1day", "__normalized", {}),
    Column("time_series_v4_1week", "__normalized", {}),
    Column("distributed_time_series_v4_1week", "__normalized", {}),
    Query("time_series_v4_6hrs_mv", "time_series_v4", Reads_time_series_v4_6hrs_mv,
          Reads_time_series_v4_6hrs_mv),
    Query("time_series_v4_1day_mv", "time_series_v4_6hrs", Reads_time_series_v4_6hrs_mv,
          Reads_time_series_v4_6hrs_mv),
    Query("time_series_v4_1week_mv", "time_series_v4_1day", Reads_time_series_v4_6hrs_mv,
          Reads_time_series_v4_6hrs_mv)>>

Reads_time_series_v4_6hrs_mv_separate_attrs_ ==
  {"env", "temporality", "metric_name", "description", "unit", "type", "is_monotonic",
   "fingerprint", "unix_milli", "labels", "attrs", "scope_attrs", "resource_attrs",
   "__normalized"}

Metrics_1001_upb ==
  <<Query("time_series_v4_6hrs_mv_separate_attrs", "time_series_v4",
          Reads_time_series_v4_6hrs_mv_separate_attrs_,
          Reads_time_series_v4_6hrs_mv_separate_attrs_),
    Query("time_series_v4_1day_mv_separate_attrs", "time_series_v4_6hrs",
          Reads_time_series_v4_6hrs_mv_separate_attrs_,
          Reads_time_series_v4_6hrs_mv_separate_attrs_),
    Query("time_series_v4_1week_mv_separate_attrs", "time_series_v4_1day",
          Reads_time_series_v4_6hrs_mv_separate_attrs_,
          Reads_time_series_v4_6hrs_mv_separate_attrs_)>>

Columns_updated_metadata ==
  {"metric_name", "temporality", "is_monotonic", "type", "description", "unit", "created_at"}

Reads_samples_v4_agg_5m_mv ==
  {"env", "temporality", "metric_name", "fingerprint", "unix_milli", "value", "flags"}

Metrics_1003_up ==
  <<Column("samples_v4", "flags", {}),
    Column("distributed_samples_v4", "flags", {}),
    Column("exp_hist", "flags", {}),
    Column("distributed_exp_hist", "flags", {}),
    Query("samples_v4_agg_5m_mv", "samples_v4", Reads_samples_v4_agg_5m_mv,
          Columns_samples_v4_agg_5m),
    Query("samples_v4_agg_30m_mv", "samples_v4_agg_5m", Columns_samples_v4_agg_5m,
          Columns_samples_v4_agg_5m)>>

Metrics_1006_up ==
  <<WithoutIndex("time_series_v4", "idx_labels"),
    WithoutIndex("time_series_v4_6hrs", "idx_labels"),
    WithoutIndex("time_series_v4_1day", "idx_labels"),
    WithoutIndex("time_series_v4_1week", "idx_labels")>>

Metrics_1007_up ==
  <<Column("samples_v4", "inserted_at_unix_milli", {}),
    Column("distributed_samples_v4", "inserted_at_unix_milli", {}),
    Column("time_series_v4", "inserted_at_unix_milli", {}),
    Column("distributed_time_series_v4", "inserted_at_unix_milli", {}),
    Column("exp_hist", "inserted_at_unix_milli", {}),
    Column("distributed_exp_hist", "inserted_at_unix_milli", {})>>

Metrics_1000 ==
  <<Record(1000, Metrics_1000_upa \o Metrics_1000_upb \o Metrics_1000_upc \o Metrics_1000_upd, <<>>)>>

Metrics_1001 ==
  <<Record(1001, Metrics_1001_upa \o Metrics_1001_upb, <<>>)>>

Metrics_1002_to_1003 ==
  <<Record(1002,
      <<Local("updated_metadata", Columns_updated_metadata, {"metric_name"}, {}),
        Distributed("distributed_updated_metadata", "updated_metadata", Columns_updated_metadata,
                    {"metric_name"})>>,
      <<>>),
    Record(1003, Metrics_1003_up, <<>>)>>

Metrics_1004_to_1006 ==
  <<Record(1004,
      <<Query("time_series_v4_6hrs_mv", "time_series_v4",
              Reads_time_series_v4_6hrs_mv_separate_attrs_,
              Reads_time_series_v4_6hrs_mv_separate_attrs_),
        Query("time_series_v4_1day_mv", "time_series_v4_6hrs",
              Reads_time_series_v4_6hrs_mv_separate_attrs_,
              Reads_time_series_v4_6hrs_mv_separate_attrs_),
        Query("time_series_v4_1week_mv", "time_series_v4_1day",
              Reads_time_series_v4_6hrs_mv_separate_attrs_,
              Reads_time_series_v4_6hrs_mv_separate_attrs_)>>,
      <<>>),
    Record(1005,
      <<Dropped("time_series_v4_6hrs_mv_separate_attrs"),
        Dropped("time_series_v4_1day_mv_separate_attrs"),
        Dropped("time_series_v4_1week_mv_separate_attrs")>>,
      <<>>),
    Record(1006, Metrics_1006_up, <<>>)>>

Metrics_1007 ==
  <<Record(1007, Metrics_1007_up, <<>>)>>

MetricsMigrations ==
  Metrics_1000 \o Metrics_1001 \o Metrics_1002_to_1003 \o Metrics_1004_to_1006 \o Metrics_1007

=============================================================================
