----------------------------- MODULE LogsSchema ------------------------------
(***************************************************************************)
(* The migrations of the logs database: its table of migrations, the squashed *)
(* migrations of old installations and of new ones (with custom retention), *)
(* and the migrations since, of which there are two lists.                 *)
(***************************************************************************)
EXTENDS SchemaTables

V2MigrationTablesLogs ==
  <<Record(1,
      <<Local("schema_migrations_v2", Columns_schema_migrations_v2, {"migration_id"}, {})>>,
      <<>>),
    Record(2,
      <<Distributed("distributed_schema_migrations_v2", "schema_migrations_v2",
                    Columns_schema_migrations_v2, {})>>,
      <<>>)>>

Columns_logs ==
  {"timestamp", "observed_timestamp", "id", "trace_id", "span_id", "trace_flags",
   "severity_text", "severity_number", "body", "resources_string_key",
   "resources_string_value", "attributes_string_key", "attributes_string_value",
   "attributes_int64_key", "attributes_int64_value", "attributes_float64_key",
   "attributes_float64_value", "attributes_bool_key", "attributes_bool_value", "scope_name",
   "scope_version", "scope_string_key", "scope_string_value"}

Indexes_logs ==
  {<<"id_minmax", "id">>, <<"severity_number_idx", "severity_number">>,
   <<"severity_text_idx", "severity_text">>, <<"trace_flags_idx", "trace_flags">>,
   <<"body_idx", "body">>, <<"scope_name_idx", "scope_name">>}

Columns_tag_attributes ==
  {"timestamp", "tagKey", "tagType", "tagDataType", "stringTagValue", "int64TagValue",
   "float64TagValue"}

Columns_logs_v2 ==
  {"ts_bucket_start", "resource_fingerprint", "timestamp", "observed_timestamp", "id",
   "trace_id", "span_id", "trace_flags", "severity_text", "severity_number", "body",
   "attributes_string", "attributes_number", "attributes_bool", "resources_string",
   "scope_name", "scope_version", "scope_string"}

Indexes_logs_v2 ==
  {<<"id_minmax", "id">>, <<"severity_number_idx", "severity_number">>,
   <<"severity_text_idx", "severity_text">>, <<"trace_flags_idx", "trace_flags">>,
   <<"body_idx", "body">>, <<"scope_name_idx", "scope_name">>,
   <<"attributes_string_idx_key", "attributes_string">>,
   <<"attributes_string_idx_val", "attributes_string">>,
   <<"attributes_number_idx_key", "attributes_number">>,
   <<"attributes_number_idx_val", "attributes_number">>,
   <<"attributes_bool_idx_key", "attributes_bool">>}

SquashedLogs_18_up ==
  <<Dropped("resource_keys_string_final_mv"),
    Dropped("attribute_keys_float64_final_mv"),
    Dropped("attribute_keys_int64_final_mv"),
    Dropped("attribute_keys_string_final_mv"),
    Dropped("attribute_keys_bool_final_mv")>>

SquashedLogs_19_up ==
  <<View("attribute_keys_string_final_mv", "logs_v2", {"attributes_string"},
         "logs_attribute_keys", {"name", "datatype"}),
    View("attribute_keys_float64_final_mv", "logs_v2", {"attributes_number"},
         "logs_attribute_keys", {"name", "datatype"}),
    View("attribute_keys_bool_final_mv", "logs_v2", {"attributes_bool"}, "logs_attribute_keys",
         {"name", "datatype"}),
    View("resource_keys_string_final_mv", "logs_v2", {"resources_string"}, "logs_resource_keys",
         {"name", "datatype"})>>

SquashedLogs_20_up ==
  <<Local("logs_v2_resource", {"labels", "fingerprint", "seen_at_ts_bucket_start"},
          {"seen_at_ts_bucket_start", "labels", "fingerprint"},
          {<<"idx_labels", "labels">>, <<"idx_labels_v1", "labels">>}),
    Distributed("distributed_logs_v2_resource", "logs_v2_resource",
                {"labels", "fingerprint", "seen_at_ts_bucket_start"}, {"labels", "fingerprint"})>>

SquashedLogs_20_down ==
  <<Dropped("logs_v2_resource"),
    Dropped("distributed_logs_v2_resource")>>

SquashedLogs_1_to_3 ==
  <<Record(1,
      <<Local("logs", Columns_logs, {"timestamp", "id"}, Indexes_logs)>>,
      <<Dropped("logs")>>),
    Record(2,
      <<Distributed("distributed_logs", "logs", Columns_logs, {"id"})>>,
      <<Dropped("distributed_logs")>>),
    Record(3,
      <<Local("logs_attribute_keys", {"name", "datatype"}, {"name", "datatype"}, {})>>,
      <<Dropped("logs_attribute_keys")>>)>>

SquashedLogs_4_to_8 ==
  <<Record(4,
      <<Distributed("distributed_logs_attribute_keys", "logs_attribute_keys",
                    {"name", "datatype"}, {"datatype"})>>,
      <<Dropped("distributed_logs_attribute_keys")>>),
    Record(5,
      <<View("attribute_keys_bool_final_mv", "logs", {"attributes_bool_key"},
             "logs_attribute_keys", {"name", "datatype"})>>,
      <<Dropped("attribute_keys_bool_final_mv")>>),
    Record(6,
      <<View("attribute_keys_float64_final_mv", "logs", {"attributes_float64_key"},
             "logs_attribute_keys", {"name", "datatype"})>>,
      <<Dropped("attribute_keys_float64_final_mv")>>),
    Record(7,
      <<View("attribute_keys_int64_final_mv", "logs", {"attributes_int64_key"},
             "logs_attribute_keys", {"name", "datatype"})>>,
      <<Dropped("attribute_keys_int64_final_mv")>>),
    Record(8,
      <<View("attribute_keys_string_final_mv", "logs", {"attributes_string_key"},
             "logs_attribute_keys", {"name", "datatype"})>>,
      <<Dropped("attribute_keys_string_final_mv")>>)>>

SquashedLogs_9_to_13 ==
  <<Record(9,
      <<Local("logs_resource_keys", {"name", "datatype"}, {"name", "datatype"}, {})>>,
      <<Dropped("logs_resource_keys")>>),
    Record(10,
      <<Distributed("distributed_logs_resource_keys", "logs_resource_keys", {"name", "datatype"},
                    {"datatype"})>>,
      <<>>),
    Record(11,
      <<View("resource_keys_string_final_mv", "logs", {"resources_string_key"},
             "logs_resource_keys", {"name", "datatype"})>>,
      <<Dropped("resource_keys_string_final_mv")>>),
    Record(12,
      <<Local("tag_attributes", Columns_tag_attributes,
              {"tagKey", "tagType", "tagDataType", "stringTagValue", "int64TagValue", "float64TagValue", "timestamp"},
              {})>>,
      <<Dropped("tag_attributes")>>),
    Record(13,
      <<Distributed("distributed_tag_attributes", "tag_attributes", Columns_tag_attributes, {})>>,
      <<Dropped("distributed_tag_attributes")>>)>>

SquashedLogs_14_to_16 ==
  <<Record(14,
      <<Local("usage", Columns_usage, {"tenant", "collector_id", "exporter_id", "timestamp"}, {})>>,
      <<Dropped("usage")>>),
    Record(15,
      <<Distributed("distributed_usage", "usage", Columns_usage, {})>>,
      <<Dropped("distributed_usage")>>),
    Record(16,
      <<Local("logs_v2", Columns_logs_v2,
              {"timestamp", "ts_bucket_start", "resource_fingerprint", "severity_text", "id"},
              Indexes_logs_v2)>>,
      <<Dropped("logs_v2")>>)>>

SquashedLogs_17_to_19 ==
  <<Record(17,
      <<Distributed("distributed_logs_v2", "logs_v2", Columns_logs_v2, {"id"})>>,
      <<Dropped("distributed_logs_v2")>>),
    Record(18, SquashedLogs_18_up, <<>>),
    Record(19, SquashedLogs_19_up, <<>>)>>

SquashedLogs_20 ==
  <<Record(20, SquashedLogs_20_up, SquashedLogs_20_down)>>

SquashedLogsMigrations ==
  SquashedLogs_1_to_3 \o SquashedLogs_4_to_8 \o SquashedLogs_9_to_13 \o
  SquashedLogs_14_to_16 \o SquashedLogs_17_to_19 \o SquashedLogs_20

Indexes_logs_v2_ ==
  {<<"id_minmax", "id">>, <<"severity_number_idx", "severity_number">>,
   <<"severity_text_idx", "severity_text">>, <<"trace_flags_idx", "trace_flags">>,
   <<"body_index_v2_token", "body">>, <<"body_index_v2_ngram", "body">>,
   <<"scope_name_idx", "scope_name">>, <<"attributes_string_idx_key", "attributes_string">>,
   <<"attributes_string_idx_val", "attributes_string">>,
   <<"attributes_number_idx_key", "attributes_number">>,
   <<"attributes_number_idx_val", "attributes_number">>,
   <<"attributes_bool_idx_key", "attributes_bool">>}

Columns_logs_v2_resource ==
  {"labels", "fingerprint", "seen_at_ts_bucket_start", "_retention_days", "_retention_days_cold"}

CustomRetentionLogs_9_up ==
  <<Local("logs_v2_resource", Columns_logs_v2_resource,
          {"seen_at_ts_bucket_start", "_retention_days", "_retention_days_cold", "labels", "fingerprint"},
          {<<"idx_labels", "labels">>, <<"idx_labels_v1", "labels">>}),
    Distributed("distributed_logs_v2_resource", "logs_v2_resource", Columns_logs_v2_resource,
                {"labels", "fingerprint"})>>

CustomRetentionLogs_9_down ==
  <<Dropped("logs_v2_resource"),
    Dropped("distributed_logs_v2_resource")>>

CustomRetentionLogs_1_to_5 ==
  <<Record(1,
      <<Local("logs_attribute_keys", {"name", "datatype"}, {"name", "datatype"}, {})>>,
      <<Dropped("logs_attribute_keys")>>),
    Record(2,
      <<Distributed("distributed_logs_attribute_keys", "logs_attribute_keys",
                    {"name", "datatype"}, {"datatype"})>>,
      <<Dropped("distributed_logs_attribute_keys")>>),
    Record(3,
      <<Local("logs_resource_keys", {"name", "datatype"}, {"name", "datatype"}, {})>>,
      <<Dropped("logs_resource_keys")>>),
    Record(4,
      <<Distributed("distributed_logs_resource_keys", "logs_resource_keys", {"name", "datatype"},
                    {"datatype"})>>,
      <<>>),
    Record(5,
      <<Local("usage", Columns_usage, {"tenant", "collector_id", "exporter_id", "timestamp"}, {})>>,
      <<Dropped("usage")>>)>>

CustomRetentionLogs_6_to_8 ==
  <<Record(6,
      <<Distributed("distributed_usage", "usage", Columns_usage, {})>>,
      <<Dropped("distributed_usage")>>),
    Record(7,
      <<Local("logs_v2", Columns_logs_v2 \cup {"_retention_days", "_retention_days_cold"},
              {"timestamp", "_retention_days", "_retention_days_cold", "ts_bucket_start", "resource_fingerprint", "severity_text", "id"},
              Indexes_logs_v2_)>>,
      <<Dropped("logs_v2")>>),
    Record(8,
      <<Distributed("distributed_logs_v2", "logs_v2",
                    Columns_logs_v2 \cup {"_retention_days", "_retention_days_cold"}, {"id"})>>,
      <<Dropped("distributed_logs_v2")>>)>>

CustomRetentionLogs_9 ==
  <<Record(9, CustomRetentionLogs_9_up, CustomRetentionLogs_9_down)>>

CustomRetentionLogsMigrations ==
  CustomRetentionLogs_1_to_5 \o CustomRetentionLogs_6_to_8 \o CustomRetentionLogs_9

Logs_1000_up ==
  <<Dropped("attribute_keys_bool_final_mv"),
    Dropped("attribute_keys_float64_final_mv"),
    Dropped("attribute_keys_string_final_mv"),
    Dropped("resource_keys_string_final_mv")>>

Logs_1000_down ==
  <<View("attribute_keys_bool_final_mv", "logs_v2", {"attributes_bool"}, "logs_attribute_keys",
         {"name", "datatype"}),
    View("attribute_keys_float64_final_mv", "logs_v2", {"attributes_number"},
         "logs_attribute_keys", {"name", "datatype"}),
    View("attribute_keys_string_final_mv", "logs_v2", {"attributes_string"},
         "logs_attribute_keys", {"name", "datatype"}),
    View("resource_keys_string_final_mv", "logs_v2", {"resources_string"}, "logs_resource_keys",
         {"name", "datatype"})>>

Logs_1002_up ==
  <<Column("logs_attribute_keys", "timestamp", {}),
    Column("logs_resource_keys", "timestamp", {}),
    TTL("logs_attribute_keys", {"timestamp"}),
    TTL("logs_resource_keys", {"timestamp"})>>

Logs_1004_up_DistributedFirst ==
  <<Column("distributed_logs_v2", "resource", {}), Column("logs_v2", "resource", {})>>

Logs_1004_up ==
  <<Column("logs_v2", "resource", {}),
    Column("distributed_logs_v2", "resource", {})>>

Logs_1004_down ==
  <<WithoutColumn("distributed_logs_v2", "resource"),
    WithoutColumn("logs_v2", "resource")>>

Logs_1005_up ==
  <<Index("logs_v2", "trace_id_idx", {"trace_id"}),
    Index("logs_v2", "span_id_idx", {"span_id"})>>

Logs_1005_down ==
  <<WithoutIndex("logs_v2", "trace_id_idx"),
    WithoutIndex("logs_v2", "span_id_idx")>>

Logs_1000_to_1001 ==
  <<Record(1000, Logs_1000_up, Logs_1000_down),
    Record(1001,
      <<Local("tag_attributes_v2", Columns_tag_attributes_v2,
              {"unix_milli", "tag_key", "tag_type", "tag_data_type", "string_value", "number_value"},
              {<<"string_value_index", "string_value">>, <<"number_value_index", "number_value">>}),
        Distributed("distributed_tag_attributes_v2", "tag_attributes_v2",
                    Columns_tag_attributes_v2, {})>>,
      <<>>)>>

Logs_1002_to_1005 ==
  <<Record(1002, Logs_1002_up, <<>>),
    Record(1003,
      <<Materialized("logs_attribute_keys", "timestamp"),
        Materialized("logs_resource_keys", "timestamp")>>,
      <<>>),
    Record(1004, Logs_1004_up, Logs_1004_down),
    Record(1005, Logs_1005_up, Logs_1005_down)>>

LogsMigrations ==
  Logs_1000_to_1001 \o Logs_1002_to_1005

LogsV2_1000_up ==
  <<Dropped("attribute_keys_bool_final_mv"),
    Dropped("attribute_keys_float64_final_mv"),
    Dropped("attribute_keys_string_final_mv"),
    Dropped("resource_keys_string_final_mv")>>

LogsV2_1000_down ==
  <<View("attribute_keys_bool_final_mv", "logs_v2", {"attributes_bool"}, "logs_attribute_keys",
         {"name", "datatype"}),
    View("attribute_keys_float64_final_mv", "logs_v2", {"attributes_number"},
         "logs_attribute_keys", {"name", "datatype"}),
    View("attribute_keys_string_final_mv", "logs_v2", {"attributes_string"},
         "logs_attribute_keys", {"name", "datatype"}),
    View("resource_keys_string_final_mv", "logs_v2", {"resources_string"}, "logs_resource_keys",
         {"name", "datatype"})>>

LogsV2_1002_up ==
  <<Column("logs_attribute_keys", "timestamp", {}),
    Column("logs_resource_keys", "timestamp", {}),
    TTL("logs_attribute_keys", {"timestamp"}),
    TTL("logs_resource_keys", {"timestamp"})>>

LogsV2_1004_up ==
  <<Column("logs_v2", "resource", {}),
    Column("distributed_logs_v2", "resource", {})>>

LogsV2_1004_down ==
  <<WithoutColumn("distributed_logs_v2", "resource"),
    WithoutColumn("logs_v2", "resource")>>

LogsV2_1005_up ==
  <<Index("logs_v2", "trace_id_idx", {"trace_id"}),
    Index("logs_v2", "span_id_idx", {"span_id"})>>

LogsV2_1005_down ==
  <<WithoutIndex("logs_v2", "trace_id_idx"),
    WithoutIndex("logs_v2", "span_id_idx")>>

Columns_json_path_types ==
  {"signal", "field_context", "field_name", "field_data_type", "last_seen"}

LogsV2_2001_up ==
  <<Local("json_path_types", Columns_json_path_types,
          {"last_seen", "signal", "field_context", "field_name", "field_data_type"}, {}),
    Distributed("distributed_json_path_types", "json_path_types", Columns_json_path_types,
                {"path", "type"}),
    Settings("logs_v2"),
    Column("logs_v2", "body_v2", {"body"}),
    Column("distributed_logs_v2", "body_v2", {"body"}),
    Column("logs_v2", "body_promoted", {"body_v2"}),
    Column("distributed_logs_v2", "body_promoted", {"body_v2"}),
    Index("logs_v2", "body_v2_string_ngram_idx", {"body_v2"}),
    Index("logs_v2", "body_v2_string_token_idx", {"body_v2"}),
    Index("logs_v2", "body_v2_paths_ngram_idx", {"body_v2"}),
    Index("logs_v2", "body_v2_paths_token_idx", {"body_v2"})>>

LogsV2_2001_down ==
  <<WithoutIndex("logs_v2", "body_v2_string_ngram_idx"),
    WithoutIndex("logs_v2", "body_v2_string_token_idx"),
    WithoutIndex("logs_v2", "body_v2_paths_ngram_idx"),
    WithoutIndex("logs_v2", "body_v2_paths_token_idx"),
    WithoutColumn("logs_v2", "body_promoted"),
    WithoutColumn("logs_v2", "body_v2"),
    Dropped("json_path_types"),
    Dropped("distributed_json_path_types")>>

LogsV2_1000_to_1001 ==
  <<Record(1000, LogsV2_1000_up, LogsV2_1000_down),
    Record(1001,
      <<Local("tag_attributes_v2", Columns_tag_attributes_v2,
              {"unix_milli", "tag_key", "tag_type", "tag_data_type", "string_value", "number_value"},
              {<<"string_value_index", "string_value">>, <<"number_value_index", "number_value">>}),
        Distributed("distributed_tag_attributes_v2", "tag_attributes_v2",
                    Columns_tag_attributes_v2, {})>>,
      <<>>)>>

LogsV2_1002_to_1005 ==
  <<Record(1002, LogsV2_1002_up, <<>>),
    Record(1003,
      <<Materialized("logs_attribute_keys", "timestamp"),
        Materialized("logs_resource_keys", "timestamp")>>,
      <<>>),
    Record(1004, LogsV2_1004_up, LogsV2_1004_down),
    Record(1005, LogsV2_1005_up, LogsV2_1005_down)>>

LogsV2_2001 ==
  <<Record(2001, LogsV2_2001_up, LogsV2_2001_down)>>

LogsMigrationsV2 ==
  LogsV2_1000_to_1001 \o LogsV2_1002_to_1005 \o LogsV2_2001

=============================================================================
