------------------------------ MODULE Metering ------------------------------
(***************************************************************************)
(* How much telemetry is metered (pkg/metering/v1): the number of items    *)
(* and of bytes of one resource of a logs, traces or metrics payload.      *)
(*                                                                         *)
(* A resource is [attrs, attrsSize, items]: its attributes, the size of    *)
(* the JSON of those that are not o11y.workspace ones, and its items.  A   *)
(* log record or a span is its own size in bytes.  A metric is             *)
(* [name, type, points]; a point has the parts its type gives it: bounds,  *)
(* buckets (their numbers), hasSum, hasMin, hasMax, quantiles, noValue.    *)
(***************************************************************************)
EXTENDS Naturals, Sequences

\* The sum of a sequence of numbers.
Total(s) ==
  LET upTo[i \in 0..Len(s)] == IF i = 0 THEN 0 ELSE upTo[i - 1] + s[i]
  IN upTo[Len(s)]

One(condition) == IF condition THEN 1 ELSE 0

\* What a payload is made of: sizes and numbers of buckets and quantiles are natural
\* numbers, and a metric has one of the types of a pdata metric.
MetricOK(m) ==
  /\ m.type \in {"gauge", "sum", "histogram", "summary", "exponential"}
  /\ m.points \in Seq({m.points[i] : i \in DOMAIN m.points})
  /\ \A i \in DOMAIN m.points :
       /\ m.type = "histogram" => m.points[i].buckets \in Nat
       /\ m.type = "summary" => m.points[i].quantiles \in Nat

ResourceOK(signal, r) ==
  /\ r.attrsSize \in Nat
  /\ r.items \in Seq({r.items[i] : i \in DOMAIN r.items})
  /\ \A i \in DOMAIN r.items :
       IF signal = "metrics" THEN MetricOK(r.items[i]) ELSE r.items[i] \in Nat

\* excludeRegex: ^(o11y|otelcol).*; a metric's name is represented by its prefix.
excludeRegex == {"o11y", "otelcol"}

\* The samples of one point of each type.  Exponential histograms are not counted.
PointCount(type, p) ==
  CASE type \in {"gauge", "sum"} -> 1
    [] type = "histogram" -> p.buckets + 1 + One(p.hasSum) + One(p.hasMin) + One(p.hasMax)
    [] type = "summary" -> p.quantiles + 2
    [] type = "exponential" -> 0

MetricCount(m) ==
  IF m.name \in excludeRegex THEN 0
  ELSE Total([i \in DOMAIN m.points |-> PointCount(m.type, m.points[i])])

CountPerResource(signal, r) ==
  IF signal = "metrics"
  THEN Total([i \in DOMAIN r.items |-> MetricCount(r.items[i])])
  ELSE Len(r.items)

\* A record is billed together with the attributes of its resource; metrics have no
\* size of their own.
SizePerResource_Failed(signal, r) ==
  IF signal = "metrics" THEN 0 - 1
  ELSE Total([i \in DOMAIN r.items |-> r.attrsSize + r.items[i]])
SizePerResource(signal, r) ==
  IF signal = "metrics" THEN 0
  ELSE Total([i \in DOMAIN r.items |-> r.attrsSize + r.items[i]])
=============================================================================
