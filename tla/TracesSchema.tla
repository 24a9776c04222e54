---------------------------- MODULE TracesSchema -----------------------------
(***************************************************************************)
(* The migrations of the traces database: its table of migrations, the     *)
(* squashed migrations of a new installation, and the migrations since.    *)
(***************************************************************************)
EXTENDS SchemaTables

V2MigrationTablesTraces ==
  <<Record(3,
      <<Local("schema_migrations_v2", Columns_schema_migrations_v2, {"migration_id"}, {})>>,
      <<>>),
    Record(4,
      <<Distributed("distributed_schema_migrations_v2", "schema_migrations_v2",
                    Columns_schema_migrations_v2, {})>>,
      <<>>)>>

Columns_o11y_index_v2 ==
  {"timestamp", "traceID", "spanID", "parentSpanID", "serviceName", "name", "kind",
   "durationNano", "statusCode", "externalHttpMethod", "externalHttpUrl", "dbSystem", "dbName",
   "dbOperation", "peerService", "events", "httpMethod", "httpUrl", "httpRoute", "httpHost",
   "msgSystem", "msgOperation", "hasError", "rpcSystem", "rpcService", "rpcMethod",
   "responseStatusCode", "stringTagMap", "numberTagMap", "boolTagMap", "resourceTagsMap",
   "isRemote", "statusMessage", "statusCodeString", "spanKind"}

Indexes_o11y_index_v2 ==
  {<<"idx_service", "serviceName">>, <<"idx_name", "name">>, <<"idx_kind", "kind">>,
   <<"idx_duration", "durationNano">>, <<"idx_hasError", "hasError">>,
   <<"idx_httpRoute", "httpRoute">>, <<"idx_httpUrl", "httpUrl">>,
   <<"idx_httpHost", "httpHost">>, <<"idx_httpMethod", "httpMethod">>,
   <<"idx_timestamp", "timestamp">>, <<"idx_rpcMethod", "rpcMethod">>,
   <<"idx_responseStatusCode", "responseStatusCode">>,
   <<"idx_resourceTagsMapKeys", "resourceTagsMap">>,
   <<"idx_resourceTagsMapValues", "resourceTagsMap">>,
   <<"idx_statusCodeString", "statusCodeString">>, <<"idx_spanKind", "spanKind">>,
   <<"idx_stringTagMapKeys", "stringTagMap">>, <<"idx_stringTagMapValues", "stringTagMap">>,
   <<"idx_numberTagMapKeys", "numberTagMap">>, <<"idx_numberTagMapValues", "numberTagMap">>,
   <<"idx_boolTagMapKeys", "boolTagMap">>, <<"idx_resourceTagMapKeys", "resourceTagsMap">>,
   <<"idx_resourceTagMapValues", "resourceTagsMap">>}

Columns_durationSort ==
  {"timestamp", "traceID", "spanID", "parentSpanID", "serviceName", "name", "kind",
   "durationNano", "statusCode", "httpMethod", "httpUrl", "httpRoute", "httpHost", "hasError",
   "rpcSystem", "rpcService", "rpcMethod", "responseStatusCode", "stringTagMap",
   "numberTagMap", "boolTagMap", "isRemote", "statusMessage", "statusCodeString", "spanKind"}

Indexes_durationSort ==
  {<<"idx_service", "serviceName">>, <<"idx_name", "name">>, <<"idx_kind", "kind">>,
   <<"idx_duration", "durationNano">>, <<"idx_hasError", "hasError">>,
   <<"idx_httpRoute", "httpRoute">>, <<"idx_httpUrl", "httpUrl">>,
   <<"idx_httpHost", "httpHost">>, <<"idx_httpMethod", "httpMethod">>,
   <<"idx_timestamp", "timestamp">>, <<"idx_rpcMethod", "rpcMethod">>,
   <<"idx_responseStatusCode", "responseStatusCode">>}

Columns_o11y_error_index_v2 ==
  {"timestamp", "errorID", "groupID", "traceID", "spanID", "serviceName", "exceptionType",
   "exceptionMessage", "exceptionStacktrace", "exceptionEscaped", "resourceTagsMap"}

Columns_dependency_graph_minutes_v2 ==
  {"src", "dest", "duration_quantiles_state", "error_count", "total_count", "timestamp",
   "deployment_environment", "k8s_cluster_name", "k8s_namespace_name"}

Reads_dependency_graph_minutes_db_calls_mv_v2 ==
  {"serviceName", "dbSystem", "durationNano", "statusCode", "timestamp", "resourceTagsMap",
   "kind"}

Reads_dependency_graph_minutes_messaging_calls_mv_v2 ==
  {"serviceName", "msgSystem", "durationNano", "statusCode", "timestamp", "resourceTagsMap",
   "kind"}

Reads_dependency_graph_minutes_service_calls_mv_v2 ==
  {"serviceName", "durationNano", "statusCode", "timestamp", "resourceTagsMap", "spanID",
   "parentSpanID"}

Reads_sub_root_operations ==
  {"name", "serviceName", "parentSpanID", "spanID"}

Columns_span_attributes ==
  {"timestamp", "tagKey", "tagType", "dataType", "stringTagValue", "float64TagValue", "isColumn"}

SquashedTraces_1_to_2 ==
  <<Record(1,
      <<Local("o11y_index_v2", Columns_o11y_index_v2,
              {"timestamp", "serviceName", "hasError", "name"}, Indexes_o11y_index_v2)>>,
      <<Dropped("o11y_index_v2")>>),
    Record(2,
      <<Distributed("distributed_o11y_index_v2", "o11y_index_v2", Columns_o11y_index_v2,
                    {"traceID"})>>,
      <<Dropped("distributed_o11y_index_v2")>>)>>

SquashedTraces_3_to_4 ==
  <<Record(3,
      <<Local("durationSort", Columns_durationSort, {"timestamp", "durationNano"},
              Indexes_durationSort)>>,
      <<Dropped("durationSort")>>),
    Record(4,
      <<View("durationSortMV", "o11y_index_v2", Columns_durationSort, "durationSort",
             Columns_durationSort)>>,
      <<Dropped("durationSortMV")>>)>>

SquashedTraces_5_to_7 ==
  <<Record(5,
      <<Distributed("distributed_durationSort", "durationSort", Columns_durationSort, {"traceID"})>>,
      <<Dropped("distributed_durationSort")>>),
    Record(6,
      <<Local("o11y_error_index_v2", Columns_o11y_error_index_v2, {"timestamp", "groupID"},
              {<<"idx_error_id", "errorID">>, <<"idx_resourceTagsMapKeys", "resourceTagsMap">>, <<"idx_resourceTagsMapValues", "resourceTagsMap">>})>>,
      <<Dropped("o11y_error_index_v2")>>),
    Record(7,
      <<Distributed("distributed_o11y_error_index_v2", "o11y_error_index_v2",
                    Columns_o11y_error_index_v2, {"groupID"})>>,
      <<Dropped("distributed_o11y_error_index_v2")>>)>>

SquashedTraces_8_to_11 ==
  <<Record(8,
      <<Local("o11y_spans", {"timestamp", "traceID", "model"}, {"timestamp", "traceID"}, {})>>,
      <<Dropped("o11y_spans")>>),
    Record(9,
      <<Distributed("distributed_o11y_spans", "o11y_spans", {"timestamp", "traceID", "model"},
                    {"traceID"})>>,
      <<Dropped("distributed_o11y_spans")>>),
    Record(10,
      <<Local("dependency_graph_minutes_v2", Columns_dependency_graph_minutes_v2,
              {"timestamp", "src", "dest", "deployment_environment", "k8s_cluster_name", "k8s_namespace_name"},
              {})>>,
      <<Dropped("dependency_graph_minutes_v2")>>),
    Record(11,
      <<View("dependency_graph_minutes_db_calls_mv_v2", "o11y_index_v2",
             Reads_dependency_graph_minutes_db_calls_mv_v2, "dependency_graph_minutes_v2",
             Columns_dependency_graph_minutes_v2)>>,
      <<Dropped("dependency_graph_minutes_db_calls_mv_v2")>>)>>

SquashedTraces_12_to_14 ==
  <<Record(12,
      <<View("dependency_graph_minutes_messaging_calls_mv_v2", "o11y_index_v2",
             Reads_dependency_graph_minutes_messaging_calls_mv_v2, "dependency_graph_minutes_v2",
             Columns_dependency_graph_minutes_v2)>>,
      <<Dropped("dependency_graph_minutes_messaging_calls_mv_v2")>>),
    Record(13,
      <<View("dependency_graph_minutes_service_calls_mv_v2", "o11y_index_v2",
             Reads_dependency_graph_minutes_service_calls_mv_v2, "dependency_graph_minutes_v2",
             Columns_dependency_graph_minutes_v2)>>,
      <<Dropped("dependency_graph_minutes_service_calls_mv_v2")>>),
    Record(14,
      <<Distributed("distributed_dependency_graph_minutes_v2", "dependency_graph_minutes_v2",
                    Columns_dependency_graph_minutes_v2, {})>>,
      <<Dropped("distributed_dependency_graph_minutes_v2")>>)>>

SquashedTraces_15_to_19 ==
  <<Record(15,
      <<Local("usage_explorer", {"timestamp", "service_name", "count"},
              {"timestamp", "service_name"}, {})>>,
      <<Dropped("usage_explorer")>>),
    Record(16,
      <<View("usage_explorer_mv", "o11y_index_v2", {"timestamp", "serviceName"}, "usage_explorer",
             {"timestamp", "service_name", "count"})>>,
      <<Dropped("usage_explorer_mv")>>),
    Record(17,
      <<Distributed("distributed_usage_explorer", "usage_explorer",
                    {"timestamp", "service_name", "count"}, {})>>,
      <<Dropped("distributed_usage_explorer")>>),
    Record(18,
      <<Local("top_level_operations", {"name", "serviceName", "time"},
              {"serviceName", "name", "time"}, {})>>,
      <<Dropped("top_level_operations")>>),
    Record(19,
      <<Distributed("distributed_top_level_operations", "top_level_operations",
                    {"name", "serviceName", "time"}, {})>>,
      <<Dropped("distributed_top_level_operations")>>)>>

SquashedTraces_20_to_24 ==
  <<Record(20,
      <<View("root_operations", "o11y_index_v2", {"name", "serviceName", "parentSpanID"},
             "top_level_operations", {"name", "serviceName"})>>,
      <<Dropped("root_operations")>>),
    Record(21,
      <<View("sub_root_operations", "o11y_index_v2", Reads_sub_root_operations,
             "top_level_operations", {"name", "serviceName"})>>,
      <<Dropped("sub_root_operations")>>),
    Record(22,
      <<Local("span_attributes", Columns_span_attributes,
              {"tagKey", "tagType", "dataType", "stringTagValue", "float64TagValue", "isColumn", "timestamp"},
              {})>>,
      <<Dropped("span_attributes")>>),
    Record(23,
      <<Distributed("distributed_span_attributes", "span_attributes", Columns_span_attributes, {})>>,
      <<Dropped("distributed_span_attributes")>>),
    Record(24,
      <<Local("span_attributes_keys", {"tagKey", "tagType", "dataType", "isColumn"},
              {"tagKey", "tagType", "dataType", "isColumn"}, {})>>,
      <<Dropped("span_attributes_keys")>>)>>

SquashedTraces_25_to_27 ==
  <<Record(25,
      <<Distributed("distributed_span_attributes_keys", "span_attributes_keys",
                    {"tagKey", "tagType", "dataType", "isColumn"}, {})>>,
      <<Dropped("distributed_span_attributes_keys")>>),
    Record(26,
      <<Local("usage", Columns_usage, {"tenant", "collector_id", "exporter_id", "timestamp"}, {})>>,
      <<Dropped("usage")>>),
    Record(27, <<Distributed("distributed_usage", "usage", Columns_usage, {})>>, <<>>)>>

SquashedTracesMigrations ==
  SquashedTraces_1_to_2 \o SquashedTraces_3_to_4 \o SquashedTraces_5_to_7 \o
  SquashedTraces_8_to_11 \o SquashedTraces_12_to_14 \o SquashedTraces_15_to_19 \o
  SquashedTraces_20_to_24 \o SquashedTraces_25_to_27

Columns_o11y_index_v3 ==
  {"ts_bucket_start", "resource_fingerprint", "timestamp", "trace_id", "span_id", "trace_state",
   "parent_span_id", "flags", "name", "kind", "kind_string", "duration_nano", "status_code",
   "status_message", "status_code_string", "attributes_string", "attributes_number",
   "attributes_bool", "resources_string", "events", "links", "response_status_code",
   "external_http_url", "http_url", "external_http_method", "http_method", "http_host",
   "db_name", "db_operation", "has_error", "is_remote", "resource_string_service$$name",
   "attribute_string_http$$route", "attribute_string_messaging$$system",
   "attribute_string_messaging$$operation", "attribute_string_db$$system",
   "attribute_string_rpc$$system", "attribute_string_rpc$$service",
   "attribute_string_rpc$$method", "attribute_string_peer$$service", "traceID", "spanID",
   "parentSpanID", "spanKind", "durationNano", "statusCode", "statusMessage",
   "statusCodeString", "references", "responseStatusCode", "externalHttpUrl", "httpUrl",
   "externalHttpMethod", "httpMethod", "httpHost", "dbName", "dbOperation", "hasError",
   "isRemote", "serviceName", "httpRoute", "msgSystem", "msgOperation", "dbSystem",
   "rpcSystem", "rpcService", "rpcMethod", "peerService"}

Uses_o11y_index_v3 ==
  {"timestamp", "ts_bucket_start", "resource_fingerprint", "has_error", "name",
   "resources_string", "attributes_string", "trace_id", "span_id", "parent_span_id",
   "kind_string", "duration_nano", "status_code", "status_message", "status_code_string",
   "links", "response_status_code", "external_http_url", "http_url", "external_http_method",
   "http_method", "http_host", "db_name", "db_operation", "is_remote",
   "resource_string_service$$name", "attribute_string_http$$route",
   "attribute_string_messaging$$system", "attribute_string_messaging$$operation",
   "attribute_string_db$$system", "attribute_string_rpc$$system",
   "attribute_string_rpc$$service", "attribute_string_rpc$$method",
   "attribute_string_peer$$service"}

Indexes_o11y_index_v3 ==
  {<<"idx_trace_id", "trace_id">>, <<"idx_span_id", "span_id">>,
   <<"idx_duration", "duration_nano">>, <<"idx_name", "name">>, <<"idx_kind", "kind">>,
   <<"idx_http_route", "attribute_string_http$$route">>, <<"idx_http_url", "http_url">>,
   <<"idx_http_host", "http_host">>, <<"idx_http_method", "http_method">>,
   <<"idx_timestamp", "timestamp">>, <<"idx_rpc_method", "attribute_string_rpc$$method">>,
   <<"idx_response_statusCode", "response_status_code">>,
   <<"idx_status_code_string", "status_code_string">>, <<"idx_kind_string", "kind_string">>,
   <<"attributes_string_idx_key", "attributes_string">>,
   <<"attributes_string_idx_val", "attributes_string">>,
   <<"attributes_number_idx_key", "attributes_number">>,
   <<"attributes_number_idx_val", "attributes_number">>,
   <<"attributes_bool_idx_key", "attributes_bool">>,
   <<"resources_string_idx_key", "resources_string">>,
   <<"resources_string_idx_val", "resources_string">>}

Traces_1000_upa ==
  <<Local("o11y_index_v3", Columns_o11y_index_v3, Uses_o11y_index_v3, Indexes_o11y_index_v3)>>

Uses_distributed_o11y_index_v3 ==
  {"trace_id", "resources_string", "attributes_string", "span_id", "parent_span_id",
   "kind_string", "duration_nano", "status_code", "status_message", "status_code_string",
   "links", "response_status_code", "external_http_url", "http_url", "external_http_method",
   "http_method", "http_host", "db_name", "db_operation", "has_error", "is_remote",
   "resource_string_service$$name", "attribute_string_http$$route",
   "attribute_string_messaging$$system", "attribute_string_messaging$$operation",
   "attribute_string_db$$system", "attribute_string_rpc$$system",
   "attribute_string_rpc$$service", "attribute_string_rpc$$method",
   "attribute_string_peer$$service"}

Traces_1000_upb ==
  <<Distributed("distributed_o11y_index_v3", "o11y_index_v3", Columns_o11y_index_v3,
                Uses_distributed_o11y_index_v3),
    Local("traces_v3_resource", {"labels", "fingerprint", "seen_at_ts_bucket_start"},
          {"seen_at_ts_bucket_start", "labels", "fingerprint"},
          {<<"idx_labels", "labels">>, <<"idx_labels_v1", "labels">>}),
    Distributed("distributed_traces_v3_resource", "traces_v3_resource",
                {"labels", "fingerprint", "seen_at_ts_bucket_start"}, {"labels", "fingerprint"})>>

Writes_trace_summary_mv ==
  {"trace_id", "start", "end", "num_spans"}

Reads_sub_root_operations_ ==
  {"name", "resource_string_service$$name", "parent_span_id", "span_id"}

Traces_1000_upc ==
  <<Local("trace_summary", {"trace_id", "start", "end", "num_spans"}, {"end", "trace_id"}, {}),
    Distributed("distributed_trace_summary", "trace_summary",
                {"trace_id", "start", "end", "num_spans"}, {"trace_id"}),
    View("trace_summary_mv", "o11y_index_v3", {"trace_id", "timestamp"}, "trace_summary",
         Writes_trace_summary_mv),
    Query("root_operations", "o11y_index_v3",
          {"name", "resource_string_service$$name", "parent_span_id"}, {"name", "serviceName"}),
    Query("sub_root_operations", "o11y_index_v3", Reads_sub_root_operations_,
          {"name", "serviceName"})>>

Traces_1000_down_SummaryFirst ==
  <<Dropped("trace_summary"), Dropped("trace_summary_mv"), Dropped("o11y_index_v3")>>

Traces_1000_down ==
  <<Dropped("o11y_index_v3"),
    Dropped("distributed_o11y_index_v3"),
    Dropped("traces_v3_resource"),
    Dropped("distributed_traces_v3_resource"),
    Dropped("trace_summary"),
    Dropped("distributed_trace_summary"),
    Dropped("trace_summary_mv"),
    Query("root_operations", "o11y_index_v2", {"name", "serviceName", "parentSpanID"},
          {"name", "serviceName"}),
    Query("sub_root_operations", "o11y_index_v2", Reads_sub_root_operations,
          {"name", "serviceName"})>>

Reads_dependency_graph_minutes_db_calls_mv_v2_ ==
  {"resource_string_service$$name", "attribute_string_db$$system", "duration_nano",
   "status_code", "timestamp", "resources_string", "kind"}

Reads_dependency_graph_minutes_messaging_calls_mv_v2_ ==
  {"resource_string_service$$name", "attribute_string_messaging$$system", "duration_nano",
   "status_code", "timestamp", "resources_string", "kind"}

Reads_dependency_graph_minutes_service_calls_mv_v2_ ==
  {"resource_string_service$$name", "duration_nano", "status_code", "timestamp",
   "resources_string", "span_id", "parent_span_id"}

Traces_1003_up ==
  <<Dropped("dependency_graph_minutes_db_calls_mv"),
    Dropped("dependency_graph_minutes_messaging_calls_mv"),
    Dropped("dependency_graph_minutes_service_calls_mv"),
    Dropped("distributed_dependency_graph_minutes")>>

Traces_1005_upa ==
  <<Column("o11y_index_v3", "resource_string_service$$name_exists", {"resources_string"}),
    Column("o11y_index_v3", "attribute_string_http$$route_exists", {"attributes_string"}),
    Column("o11y_index_v3", "attribute_string_messaging$$system_exists", {"attributes_string"}),
    Column("o11y_index_v3", "attribute_string_messaging$$operation_exists", {"attributes_string"}),
    Column("o11y_index_v3", "attribute_string_db$$system_exists", {"attributes_string"}),
    Column("o11y_index_v3", "attribute_string_rpc$$system_exists", {"attributes_string"}),
    Column("o11y_index_v3", "attribute_string_rpc$$service_exists", {"attributes_string"}),
    Column("o11y_index_v3", "attribute_string_rpc$$method_exists", {"attributes_string"}),
    Column("o11y_index_v3", "attribute_string_peer$$service_exists", {"attributes_string"}),
    Column("distributed_o11y_index_v3", "resource_string_service$$name_exists",
           {"resources_string"}),
    Column("distributed_o11y_index_v3", "attribute_string_http$$route_exists",
           {"attributes_string"}),
    Column("distributed_o11y_index_v3", "attribute_string_messaging$$system_exists",
           {"attributes_string"}),
    Column("distributed_o11y_index_v3", "attribute_string_messaging$$operation_exists",
           {"attributes_string"}),
    Column("distributed_o11y_index_v3", "attribute_string_db$$system_exists",
           {"attributes_string"})>>

Traces_1005_upb ==
  <<Column("distributed_o11y_index_v3", "attribute_string_rpc$$system_exists",
           {"attributes_string"}),
    Column("distributed_o11y_index_v3", "attribute_string_rpc$$service_exists",
           {"attributes_string"}),
    Column("distributed_o11y_index_v3", "attribute_string_rpc$$method_exists",
           {"attributes_string"}),
    Column("distributed_o11y_index_v3", "attribute_string_peer$$service_exists",
           {"attributes_string"})>>

Traces_1005_down ==
  <<WithoutColumn("distributed_o11y_index_v3", "resource_string_service$$name_exists"),
    WithoutColumn("distributed_o11y_index_v3", "attribute_string_http$$route_exists"),
    WithoutColumn("distributed_o11y_index_v3", "attribute_string_messaging$$system_exists"),
    WithoutColumn("distributed_o11y_index_v3", "attribute_string_messaging$$operation_exists"),
    WithoutColumn("distributed_o11y_index_v3", "attribute_string_db$$system_exists"),
    WithoutColumn("distributed_o11y_index_v3", "attribute_string_rpc$$system_exists"),
    WithoutColumn("distributed_o11y_index_v3", "attribute_string_rpc$$service_exists"),
    WithoutColumn("distributed_o11y_index_v3", "attribute_string_rpc$$method_exists"),
    WithoutColumn("distributed_o11y_index_v3", "attribute_string_peer$$service_exists"),
    WithoutColumn("o11y_index_v3", "resource_string_service$$name_exists"),
    WithoutColumn("o11y_index_v3", "attribute_string_http$$route_exists"),
    WithoutColumn("o11y_index_v3", "attribute_string_messaging$$system_exists"),
    WithoutColumn("o11y_index_v3", "attribute_string_messaging$$operation_exists"),
    WithoutColumn("o11y_index_v3", "attribute_string_db$$system_exists"),
    WithoutColumn("o11y_index_v3", "attribute_string_rpc$$system_exists"),
    WithoutColumn("o11y_index_v3", "attribute_string_rpc$$service_exists"),
    WithoutColumn("o11y_index_v3", "attribute_string_rpc$$method_exists"),
    WithoutColumn("o11y_index_v3", "attribute_string_peer$$service_exists")>>

Traces_1006_up ==
  <<Column("o11y_index_v3", "resource", {}),
    Column("distributed_o11y_index_v3", "resource", {})>>

Traces_1006_down ==
  <<WithoutColumn("distributed_o11y_index_v3", "resource"),
    WithoutColumn("o11y_index_v3", "resource")>>

Traces_1007_up ==
  <<Query("dependency_graph_minutes_service_calls_mv_v2", "o11y_index_v3",
          Reads_dependency_graph_minutes_service_calls_mv_v2_,
          Columns_dependency_graph_minutes_v2),
    Query("sub_root_operations", "o11y_index_v3", Reads_sub_root_operations_,
          {"name", "serviceName"})>>

Traces_1007_down ==
  <<Query("dependency_graph_minutes_service_calls_mv_v2", "o11y_index_v3",
          Reads_dependency_graph_minutes_service_calls_mv_v2_,
          Columns_dependency_graph_minutes_v2),
    Query("sub_root_operations", "o11y_index_v3", Reads_sub_root_operations_,
          {"name", "serviceName"})>>

Traces_1008_up ==
  <<Column("span_attributes_keys", "timestamp", {}),
    TTL("span_attributes_keys", {"timestamp"})>>

Traces_1008_down ==
  <<WithoutColumn("span_attributes_keys", "timestamp"),
    WithoutTTL("span_attributes_keys")>>

Traces_1009_up_LocalOnly ==
  <<Column("o11y_index_v3", "scope", {})>>

Traces_1009_up ==
  <<Column("o11y_index_v3", "scope", {}),
    Column("distributed_o11y_index_v3", "scope", {})>>

Traces_1009_down ==
  <<WithoutColumn("distributed_o11y_index_v3", "scope"),
    WithoutColumn("o11y_index_v3", "scope")>>

Traces_1010_up ==
  <<ColumnType("span_attributes_keys", "tagType"),
    ColumnType("distributed_span_attributes_keys", "tagType")>>

Traces_1010_down ==
  <<ColumnType("distributed_span_attributes_keys", "tagType"),
    ColumnType("span_attributes_keys", "tagType")>>

Traces_1000 ==
  <<Record(1000, Traces_1000_upa \o Traces_1000_upb \o Traces_1000_upc, Traces_1000_down)>>

Traces_1001_to_1003 ==
  <<Record(1001,
      <<Dropped("durationSortMV"),
        Dropped("distributed_durationSort")>>,
      <<>>),
    Record(1002,
      <<Query("dependency_graph_minutes_db_calls_mv_v2", "o11y_index_v3",
              Reads_dependency_graph_minutes_db_calls_mv_v2_, Columns_dependency_graph_minutes_v2),
        Query("dependency_graph_minutes_messaging_calls_mv_v2", "o11y_index_v3",
              Reads_dependency_graph_minutes_messaging_calls_mv_v2_,
              Columns_dependency_graph_minutes_v2),
        Query("dependency_graph_minutes_service_calls_mv_v2", "o11y_index_v3",
              Reads_dependency_graph_minutes_service_calls_mv_v2_,
              Columns_dependency_graph_minutes_v2)>>,
      <<>>),
    Record(1003, Traces_1003_up, <<>>)>>

Traces_1004 ==
  <<Record(1004,
      <<Local("tag_attributes_v2", Columns_tag_attributes_v2,
              {"unix_milli", "tag_key", "tag_type", "tag_data_type", "string_value", "number_value"},
              {<<"string_value_index", "string_value">>, <<"number_value_index", "number_value">>}),
        Distributed("distributed_tag_attributes_v2", "tag_attributes_v2",
                    Columns_tag_attributes_v2, {})>>,
      <<>>)>>

Traces_1005 ==
  <<Record(1005, Traces_1005_upa \o Traces_1005_upb, Traces_1005_down)>>

Traces_1006_to_1008 ==
  <<Record(1006, Traces_1006_up, Traces_1006_down),
    Record(1007, Traces_1007_up, Traces_1007_down),
    Record(1008, Traces_1008_up, Traces_1008_down)>>

Traces_1009_to_1010 ==
  <<Record(1009, Traces_1009_up, Traces_1009_down),
    Record(1010, Traces_1010_up, Traces_1010_down)>>

TracesMigrations ==
  Traces_1000 \o Traces_1001_to_1003 \o Traces_1004 \o Traces_1005 \o Traces_1006_to_1008 \o
  Traces_1009_to_1010

=============================================================================
