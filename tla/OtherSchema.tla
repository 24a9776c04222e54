----------------------------- MODULE OtherSchema -----------------------------
(***************************************************************************)
(* The migrations of the metadata, analytics and meter databases.          *)
(***************************************************************************)
EXTENDS SchemaTables

V2MigrationTablesMetadata ==
  <<Record(7,
      <<Local("schema_migrations_v2", Columns_schema_migrations_v2, {"migration_id"}, {})>>,
      <<>>),
    Record(8,
      <<Distributed("distributed_schema_migrations_v2", "schema_migrations_v2",
                    Columns_schema_migrations_v2, {})>>,
      <<>>)>>

V2MigrationTablesAnalytics ==
  <<Record(9,
      <<Local("schema_migrations_v2", Columns_schema_migrations_v2, {"migration_id"}, {}),
        Distributed("distributed_schema_migrations_v2", "schema_migrations_v2",
                    Columns_schema_migrations_v2, {})>>,
      <<>>)>>

V2MigrationTablesMeter ==
  <<Record(10,
      <<Local("schema_migrations_v2", Columns_schema_migrations_v2, {"migration_id"}, {}),
        Distributed("distributed_schema_migrations_v2", "schema_migrations_v2",
                    Columns_schema_migrations_v2, {})>>,
      <<>>)>>

Columns_attributes_metadata ==
  {"unix_milli", "data_source", "resource_fingerprint", "attrs_fingerprint",
   "resource_attributes", "attributes"}

Indexes_attributes_metadata ==
  {<<"idx_resource_attributes_map_keys", "resource_attributes">>,
   <<"idx_attributes_map_keys", "attributes">>,
   <<"idx_resource_attributes_map_values", "resource_attributes">>,
   <<"idx_attributes_map_values", "attributes">>}

Metadata_1000_up ==
  <<Local("attributes_metadata", Columns_attributes_metadata,
          {"unix_milli", "data_source", "resource_fingerprint", "attrs_fingerprint"},
          Indexes_attributes_metadata),
    Distributed("distributed_attributes_metadata", "attributes_metadata",
                Columns_attributes_metadata,
                {"data_source", "resource_fingerprint", "attrs_fingerprint"})>>

Metadata_1000_down ==
  <<Dropped("distributed_attributes_metadata"),
    Dropped("attributes_metadata")>>

Columns_column_evolution_metadata ==
  {"signal", "column_name", "column_type", "field_context", "field_name", "version",
   "release_time"}

Metadata_1001_up ==
  <<Local("column_evolution_metadata", Columns_column_evolution_metadata,
          {"release_time", "signal", "column_name", "column_type", "field_context", "field_name", "version"},
          {}),
    Distributed("distributed_column_evolution_metadata", "column_evolution_metadata",
                Columns_column_evolution_metadata, {"signal", "column_name"}),
    Inserted("distributed_column_evolution_metadata",
             {"signal", "column_name", "column_type", "field_context", "field_name", "version", "release_time"}),
    Inserted("distributed_column_evolution_metadata",
             {"signal", "column_name", "column_type", "field_context", "field_name", "version", "release_time"}),
    Inserted("distributed_column_evolution_metadata",
             {"signal", "column_name", "column_type", "field_context", "field_name", "version", "release_time"}),
    Inserted("distributed_column_evolution_metadata",
             {"signal", "column_name", "column_type", "field_context", "field_name", "version", "release_time"})>>

Metadata_1001_down ==
  <<Dropped("distributed_column_evolution_metadata"),
    Dropped("column_evolution_metadata")>>

MetadataMigrations ==
  <<Record(1000, Metadata_1000_up, Metadata_1000_down),
    Record(1001, Metadata_1001_up, Metadata_1001_down)>>

Columns_rule_state_history_v0 ==
  {"_retention_days", "rule_id", "rule_name", "overall_state", "overall_state_changed", "state",
   "state_changed", "unix_milli", "fingerprint", "value", "labels"}

Columns_distributed_rule_state_history_v0 ==
  {"rule_id", "rule_name", "overall_state", "overall_state_changed", "state", "state_changed",
   "unix_milli", "fingerprint", "value", "labels"}

Analytics_1_up ==
  <<Local("rule_state_history_v0", Columns_rule_state_history_v0,
          {"unix_milli", "rule_id", "_retention_days"}, {}),
    Distributed("distributed_rule_state_history_v0", "rule_state_history_v0",
                Columns_distributed_rule_state_history_v0,
                {"rule_id", "rule_name", "fingerprint"})>>

Analytics_1_down ==
  <<Dropped("distributed_rule_state_history_v0"),
    Dropped("rule_state_history_v0")>>

AnalyticsMigrations ==
  <<Record(1, Analytics_1_up, Analytics_1_down)>>

Columns_samples ==
  {"temporality", "metric_name", "description", "unit", "type", "is_monotonic", "labels",
   "fingerprint", "unix_milli", "value"}

Writes_samples_agg_1d_mv ==
  {"temporality", "metric_name", "description", "unit", "type", "is_monotonic", "labels",
   "fingerprint", "unix_milli", "last", "min", "max", "sum", "count"}

Meter_1_to_4 ==
  <<Record(1,
      <<Local("samples", Columns_samples,
              {"unix_milli", "temporality", "metric_name", "fingerprint"}, {})>>,
      <<Dropped("samples")>>),
    Record(2,
      <<Distributed("distributed_samples", "samples", Columns_samples,
                    {"temporality", "metric_name", "fingerprint"})>>,
      <<Dropped("distributed_samples")>>),
    Record(3,
      <<Local("samples_agg_1d",
              (Columns_samples \cup {"last", "min", "max", "sum", "count"}) \ {"value"},
              {"unix_milli", "temporality", "metric_name", "fingerprint"}, {})>>,
      <<Dropped("samples_agg_1d")>>),
    Record(4,
      <<Distributed("distributed_samples_agg_1d", "samples_agg_1d",
                    (Columns_samples \cup {"last", "min", "max", "sum", "count"}) \ {"value"},
                    {"temporality", "metric_name", "fingerprint"})>>,
      <<Dropped("distributed_samples_agg_1d")>>)>>

Meter_5 ==
  <<Record(5,
      <<View("samples_agg_1d_mv", "samples", Columns_samples, "samples_agg_1d",
             Writes_samples_agg_1d_mv)>>,
      <<Dropped("samples_agg_1d_mv")>>)>>

MeterMigrations ==
  Meter_1_to_4 \o Meter_5

=============================================================================
