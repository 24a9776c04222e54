--------------------------- MODULE MeterConnector ---------------------------
(***************************************************************************)
(* The meter connector (connectors/o11ymeterconnector).  Pipelines call    *)
(* Consume{Logs,Traces,Metrics}, which adds up the count and the size of   *)
(* each resource under the dimensions of the configuration, one lock per   *)
(* resource.  A goroutine with a ticker, and Shutdown, export what has     *)
(* been added up: under the lock the sums are turned into delta metrics    *)
(* and purged, and without it they are sent.  A failed send is logged.     *)
(*                                                                         *)
(* The collector stops the pipelines before the connector they feed        *)
(* (external), so Shutdown begins when no Consume call is left.            *)
(***************************************************************************)
EXTENDS Metering, FiniteSets

CONSTANTS
  MeterPipeline,     \* the callers of Consume*
  Telemetry,    \* the payloads: [signal, resources]
  MeterDims,    \* the configured dimensions
  MaxPayloads   \* bound: payloads consumed

Signal == {"logs", "traces", "metrics"}

ASSUME MeterAssumption ==
  /\ MaxPayloads \in Nat
  /\ \A t \in Telemetry :
       /\ t.signal \in Signal
       /\ t.resources \in Seq({t.resources[i] : i \in DOMAIN t.resources})
       /\ \A i \in DOMAIN t.resources : ResourceOK(t.signal, t.resources[i])

MeterExporter == {"ticker", "shutdown"}

VARIABLES
  meterMetrics,    \* dimensions -> signal -> [count, size]; aggregatedMeterMetrics
  payload,         \* pipeline -> the payload it is in the middle of, NoPayload
  resource,        \* pipeline -> the next resource of it
  building,        \* exporter -> the metrics it has built and not yet sent
  meterPc,         \* exporter -> where it is
  meterStarted,
  consumed,        \* history: payloads consumed
  observed,        \* history: what the pipelines have handed over
  delivered,       \* history: what the next consumer has accepted
  undelivered      \* history: what it has refused

meterVars == <<meterMetrics, payload, resource, building, meterPc, meterStarted,
               consumed, observed, delivered, undelivered>>

NoPayload == [signal |-> "none", resources |-> << >>]

NoMeter == [s \in Signal |-> [count |-> 0, size |-> 0]]

\* Sums per dimensions: what a map without an entry holds for them is nothing.
MeterAt(m, d) == IF d \in DOMAIN m THEN m[d] ELSE NoMeter

\* Update*MeterMetrics: an entry is made when there is none.
UpdateMeterMetrics(m, d, signal, count, size) ==
  [e \in DOMAIN m \cup {d} |->
     IF e = d
     THEN [MeterAt(m, d) EXCEPT ![signal] = [count |-> @.count + count, size |-> @.size + size]]
     ELSE m[e]]

\* The sums of two maps.
MeterPlus(m, n) ==
  [d \in DOMAIN m \cup DOMAIN n |->
     [s \in Signal |-> [count |-> MeterAt(m, d)[s].count + MeterAt(n, d)[s].count,
                        size  |-> MeterAt(m, d)[s].size + MeterAt(n, d)[s].size]]]

Unmetered == [d \in {} |-> NoMeter]

buildDimensionsMapFromResourceAttributes(attrs) ==
  [k \in DOMAIN attrs \cap MeterDims |-> attrs[k]]

\* buildMetrics: two points for each signal whose count is not 0.
buildMetrics(m) ==
  [d \in DOMAIN m |-> [s \in Signal |-> IF m[d][s].count = 0 THEN NoMeter[s] ELSE m[d][s]]]

DataPointCount(m) == Cardinality({c \in (DOMAIN m) \X Signal : m[c[1]][c[2]].count # 0})

MeterInit ==
  /\ meterMetrics = Unmetered
  /\ payload = [p \in MeterPipeline |-> NoPayload]
  /\ resource = [p \in MeterPipeline |-> 1]
  /\ building = [e \in MeterExporter |-> Unmetered]
  /\ meterPc = [e \in MeterExporter |-> "idle"]
  /\ meterStarted = FALSE
  /\ consumed = 0
  /\ observed = Unmetered
  /\ delivered = Unmetered
  /\ undelivered = Unmetered

StartMeter ==
  /\ ~meterStarted /\ meterPc["shutdown"] = "idle"
  /\ meterStarted' = TRUE
  /\ meterPc' = [meterPc EXCEPT !["ticker"] = "select"]
  /\ UNCHANGED <<meterMetrics, payload, resource, building, consumed, observed, delivered, undelivered>>

-----------------------------------------------------------------------------
\* A payload without resources is consumed at once.
ConsumeTelemetry(p, t) ==
  /\ meterStarted /\ meterPc["shutdown"] = "idle"
  /\ payload[p] = NoPayload /\ consumed < MaxPayloads
  /\ payload' = [payload EXCEPT ![p] = IF Len(t.resources) = 0 THEN NoPayload ELSE t]
  /\ resource' = [resource EXCEPT ![p] = 1]
  /\ consumed' = consumed + 1
  /\ UNCHANGED <<meterMetrics, building, meterPc, meterStarted, observed, delivered, undelivered>>

\* One round of aggregateMeterMetricsFrom*; after the last one the call returns.
AggregateResource(p) ==
  /\ payload[p] # NoPayload
  /\ LET t == payload[p]
         r == t.resources[resource[p]]
         d == buildDimensionsMapFromResourceAttributes(r.attrs)
         Add(m) == UpdateMeterMetrics(m, d, t.signal, CountPerResource(t.signal, r),
                                      SizePerResource(t.signal, r))
     IN /\ meterMetrics' = Add(meterMetrics)
        /\ observed' = Add(observed)
        /\ IF resource[p] = Len(t.resources)
           THEN /\ payload' = [payload EXCEPT ![p] = NoPayload]
                /\ resource' = [resource EXCEPT ![p] = 1]
           ELSE /\ resource' = [resource EXCEPT ![p] = @ + 1]
                /\ UNCHANGED payload
  /\ UNCHANGED <<building, meterPc, meterStarted, consumed, delivered, undelivered>>

-----------------------------------------------------------------------------
\* Where exportMetrics returns to: the ticker's select, or the rest of Shutdown.
AfterExport(e) == IF e = "ticker" THEN "select" ELSE "signalDone"

\* exportMetrics up to Unlock: build and resetState under one lock.
exportMetrics_KeepsSums(e) ==
  /\ building' = [building EXCEPT ![e] = buildMetrics(meterMetrics)]
  /\ UNCHANGED meterMetrics
exportMetrics(e) ==
  /\ building' = [building EXCEPT ![e] = buildMetrics(meterMetrics)]
  /\ meterMetrics' = Unmetered

ExportBuilt(e) ==
  /\ exportMetrics(e)
  /\ meterPc' = [meterPc EXCEPT ![e] =
       IF DataPointCount(buildMetrics(meterMetrics)) = 0 THEN AfterExport(e) ELSE "sending"]

TickMeter ==
  /\ meterPc["ticker"] = "select"
  /\ ExportBuilt("ticker")
  /\ UNCHANGED <<payload, resource, meterStarted, consumed, observed, delivered, undelivered>>

\* Shutdown flushes first; it does nothing when the connector was never started.
ShutdownMeter ==
  /\ meterPc["shutdown"] = "idle"
  /\ \A p \in MeterPipeline : payload[p] = NoPayload
  /\ IF meterStarted
     THEN ExportBuilt("shutdown")
     ELSE /\ meterPc' = [meterPc EXCEPT !["shutdown"] = "returned"]
          /\ UNCHANGED <<meterMetrics, building>>
  /\ UNCHANGED <<payload, resource, meterStarted, consumed, observed, delivered, undelivered>>

\* ConsumeMetrics of the next consumer, outside the lock.
SendMeter(e) ==
  /\ meterPc[e] = "sending"
  /\ \/ delivered' = MeterPlus(delivered, building[e]) /\ UNCHANGED undelivered
     \/ undelivered' = MeterPlus(undelivered, building[e]) /\ UNCHANGED delivered
  /\ building' = [building EXCEPT ![e] = Unmetered]
  /\ meterPc' = [meterPc EXCEPT ![e] = AfterExport(e)]
  /\ UNCHANGED <<meterMetrics, payload, resource, meterStarted, consumed, observed>>

\* done <- struct{}{} meets the ticker's select; started = false and wg.Wait follow.
SignalDone_NoWait ==
  /\ meterPc["shutdown"] = "signalDone"
  /\ meterPc' = [meterPc EXCEPT !["shutdown"] = "returned"]
  /\ meterStarted' = FALSE
  /\ UNCHANGED <<meterMetrics, building, payload, resource, consumed, observed, delivered, undelivered>>
SignalDone ==
  /\ meterPc["shutdown"] = "signalDone" /\ meterPc["ticker"] = "select"
  /\ meterPc' = [e \in MeterExporter |-> "returned"]
  /\ meterStarted' = FALSE
  /\ UNCHANGED <<meterMetrics, building, payload, resource, consumed, observed, delivered, undelivered>>

MeterNext ==
  \/ StartMeter
  \/ \E p \in MeterPipeline : AggregateResource(p) \/ \E t \in Telemetry : ConsumeTelemetry(p, t)
  \/ TickMeter
  \/ \E e \in MeterExporter : SendMeter(e)
  \/ ShutdownMeter
  \/ SignalDone

MeterSpec == MeterInit /\ [][MeterNext]_meterVars

-----------------------------------------------------------------------------
\* The values each variable may have: sums are per signal, and an exporter's position
\* is one of exportMetrics, Start's loop and Shutdown.
MeterTypeOK ==
  /\ \A m \in {meterMetrics, building["ticker"], building["shutdown"], observed, delivered, undelivered} :
       \A d \in DOMAIN m : m[d] \in [Signal -> [count : Nat, size : Nat]]
  /\ payload \in [MeterPipeline -> Telemetry \cup {NoPayload}]
  /\ \A p \in MeterPipeline : resource[p] \in 1..(Len(payload[p].resources) + 1)
  /\ meterPc \in [MeterExporter -> {"idle", "select", "sending", "signalDone", "returned"}]
  /\ meterStarted \in BOOLEAN
  /\ consumed \in 0..MaxPayloads

\* Nothing is metered twice and nothing is dropped on the way: for all dimensions and
\* signals, what the pipelines have handed over is held, being sent, delivered or
\* refused by the next consumer, however exports and Consume calls interleave.
MeterConserved ==
  LET accounted == MeterPlus(MeterPlus(meterMetrics, MeterPlus(building["ticker"], building["shutdown"])),
                             MeterPlus(delivered, undelivered))
  IN \A d \in DOMAIN observed : \A s \in Signal :
       MeterAt(accounted, d)[s] = observed[d][s]

\* Once Shutdown has returned nothing is left behind: its flush, and the wait for the
\* ticker's own export, leave no sum in memory and no metrics unsent.
FlushedAtShutdown ==
  (meterPc["shutdown"] = "returned") =>
    /\ \A d \in DOMAIN meterMetrics : \A s \in Signal : meterMetrics[d][s].count = 0
    /\ \A e \in MeterExporter : meterPc[e] # "sending"

\* Every count is exported exactly once, the last ones at Shutdown.
MeterInv == MeterTypeOK /\ MeterConserved /\ FlushedAtShutdown
=============================================================================
