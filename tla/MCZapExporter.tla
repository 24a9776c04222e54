---------------------------- MODULE MCZapExporter ----------------------------
(***************************************************************************)
(* ZapExporter for two consumers, with payloads of every signal: resources *)
(* without records, metrics of a type the wire does not have, histograms   *)
(* of several points, and a metric that cannot be encoded.                 *)
(***************************************************************************)
EXTENDS ZapExporter, TLC

Metric(name, type, points, nan) == [name |-> name, type |-> type, points |-> points, nan |-> nan]

Histogram ==
  Metric("h", "histogram", <<[bounds |-> 1, counts |-> <<1, 1>>, count |-> 2],
                             [bounds |-> 2, counts |-> <<1, 0, 0>>, count |-> 1]>>, FALSE)

TwoConsumers ==
  {"c1" :> [signal |-> "traces", resources |-> <<{"s1"}, {}>>]
     @@ "c2" :> [signal |-> "metrics", resources |->
                   <<{Histogram, Metric("e", "exponential", <<1>>, FALSE)}, {Metric("s", "summary", <<1>>, FALSE)}>>],
   "c1" :> [signal |-> "logs", resources |-> <<{}, {"l1"}, {"l2"}>>]
     @@ "c2" :> [signal |-> "metrics", resources |-> <<{Metric("n", "sum", <<1>>, TRUE)}>>]}

ZapSpec == ZapInit /\ [][ZapNext]_zapVars /\ ZapFairness
=============================================================================
