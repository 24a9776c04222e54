---------------------------- MODULE MCProcessors ----------------------------
(***************************************************************************)
(* The components between receivers and exporters, each on its own: the    *)
(* tail sampler, the span metrics processor, the meter connector and the   *)
(* system tables receiver.  They share no state, so one of them, chosen in *)
(* the initial state, runs and the others stay where they started.         *)
(***************************************************************************)
EXTENDS TailSampler, SpanMetrics, MeterConnector, SystemTables

CONSTANTS a, b   \* trace ids

VARIABLE part

processorVars == <<samplerVars, spanMetricsVars, meterVars, systemTablesVars, part>>

ProcessorsInit ==
  /\ SamplerInit /\ SpanMetricsInit /\ MeterInit /\ SystemTablesInit
  /\ part \in {"sampler", "spanmetrics", "meter", "systemtables"}
  /\ part # "spanmetrics" => temporality = "delta"

ProcessorsNext ==
  \/ part = "sampler" /\ SamplerNext /\ UNCHANGED <<spanMetricsVars, meterVars, systemTablesVars, part>>
  \/ part = "spanmetrics" /\ SpanMetricsNext /\ UNCHANGED <<samplerVars, meterVars, systemTablesVars, part>>
  \/ part = "meter" /\ MeterNext /\ UNCHANGED <<samplerVars, spanMetricsVars, systemTablesVars, part>>
  \/ part = "systemtables" /\ SystemTablesNext /\ UNCHANGED <<samplerVars, spanMetricsVars, meterVars, part>>

ProcessorsSpec == ProcessorsInit /\ [][ProcessorsNext]_processorVars

-----------------------------------------------------------------------------
\* The tail sampler: three spans of two traces, and a policy that samples only the
\* traces that s2 is in.
MCTraceOf == "s1" :> a @@ "s2" :> a @@ "s3" :> b
MCPolicies == <<[spanSet \in SUBSET Span |-> IF "s2" \in spanSet THEN "Sampled" ELSE "NotSampled"]>>

\* The span metrics processor: spans of three services, two operations of one, a
\* database call, a call to another service, one without a service and one too old.
NoAttrs == [n \in {} |-> ""]
MCSpan(service, name, kind, attrs, start, end, old) ==
  [service |-> service, name |-> name, kind |-> kind, status |-> "ok", attrs |-> attrs,
   resource |-> "team" :> "x", start |-> start, end |-> end, old |-> old]
MCSpanBatches ==
  {<<MCSpan("a", "op", "server", NoAttrs, 0, 1, FALSE)>>,
   <<MCSpan("a", "op2", "server", "dim" :> "v", 61, 60, FALSE)>>,
   <<MCSpan("b", "op", "client", "db.system" :> "sql" @@ "http.host" :> "h", 0, 5, FALSE),
     MCSpan("a", "op", "server", NoAttrs, 0, 1, TRUE)>>,
   <<MCSpan("none", "op", "server", NoAttrs, 0, 1, FALSE)>>,
   <<MCSpan("c", "op", "client", "http.url" :> "u" @@ "http.response.status_code" :> "200", 70, 72, FALSE)>>}
MCDimensions == <<[name |-> "dim", default |-> << >>], [name |-> "team", default |-> <<"none">>]>>
MCUrlHost == "u" :> <<"host">>
MCLatencyBounds == <<2, 4>>
MCMetricsExporter == <<"m1", "m2">>

\* The meter connector: two services, a payload of each signal; the metrics have a
\* histogram, an exponential one, a summary and a metric that is not metered.
MCResource(service, attrsSize, items) ==
  [attrs |-> "service" :> service @@ "pod" :> "p", attrsSize |-> attrsSize, items |-> items]
MCMetric(name, type, points) == [name |-> name, type |-> type, points |-> points]
MCTelemetry ==
  {[signal |-> "logs", resources |-> << >>],
   [signal |-> "logs", resources |-> <<MCResource("a", 2, <<1, 3>>), MCResource("b", 1, <<2>>)>>],
   [signal |-> "traces", resources |-> <<MCResource("a", 2, <<1>>), MCResource("a", 2, << >>)>>],
   [signal |-> "metrics", resources |->
      <<MCResource("b", 0,
          <<MCMetric("m", "histogram",
              <<[buckets |-> 2, hasSum |-> TRUE, hasMin |-> FALSE, hasMax |-> TRUE]>>),
            MCMetric("m", "gauge", <<1, 2>>), MCMetric("m", "exponential", <<1>>),
            MCMetric("m", "summary", <<[quantiles |-> 1]>>), MCMetric("otelcol", "sum", <<1>>)>>)>>]}
=============================================================================
