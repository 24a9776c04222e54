-------------------------- MODULE DatastoreExporter --------------------------
(***************************************************************************)
(* What the exporters of spans, metrics and meter samples have in common:  *)
(* pushes that pass a WaitGroup and a close channel, statements that are   *)
(* built and sent to a table, a cache of the rows that need not be written *)
(* again, the usage that is recorded, the collector that exports it        *)
(* (usage/usage.go), and the end of Shutdown.                              *)
(*                                                                         *)
(* A batch is a name; the module of an exporter says what it contains.     *)
(* Rows are tuples; a table is the set of its rows.                        *)
(***************************************************************************)
EXTENDS Integers, FiniteSets, Sequences

CONSTANTS
  Pusher,      \* the consumers of the sending queue
  Batch,       \* the payloads that are pushed
  NoBatch,
  Table,       \* the tables of the exporters
  MaxPushes,   \* bound: pushes of each payload, retries included
  MaxFaults    \* bound: calls to the datastore that fail, and times a cache gets too old

VARIABLES
  ppc,        \* where the push of p is
  pbatch,     \* its payload
  pstat,      \* its writers: "run", "send", "ok" or "failed"
  stmt,       \* rows appended to statements that are not sent yet, per table
  faults,
  table,      \* the tables of the datastore
  cache,      \* <<table, row>>: rfCache, keysCache, the cache of time series
  closeChan, shut, connOpen,
  recorded,   \* the usage recorded in the process
  exported,   \* the usage in the last row of the usage table
  flushed,    \* the last export, of UsageCollector.Stop: "no", "ok" or "failed"
  acked, pushes,
  stored,     \* history: billable rows inserted, those inserted again included
  lost        \* history: <<table, row>> of the cached rows whose statement failed

push == <<ppc, pbatch, pstat, stmt, acked, pushes>>
datastore == <<table, faults, stored, lost>>
usageVars == <<recorded, exported, flushed>>
stopping == <<closeChan, shut, connOpen>>
exporterVars == <<push, datastore, cache, usageVars, stopping>>

NoRows == [t \in Table |-> {}]
NoWriters == [w \in {} |-> ""]

ExporterInit ==
  /\ ppc = [p \in Pusher |-> "idle"] /\ pbatch = [p \in Pusher |-> NoBatch]
  /\ pstat = [p \in Pusher |-> NoWriters] /\ stmt = [p \in Pusher |-> NoRows]
  /\ table = NoRows /\ faults = 0 /\ cache = {} /\ stored = 0 /\ lost = {}
  /\ closeChan = FALSE /\ shut = "idle" /\ connOpen = TRUE
  /\ recorded = 0 /\ exported = 0 /\ flushed = "no"
  /\ acked = {} /\ pushes = [b \in Batch |-> 0]

-----------------------------------------------------------------------------
(* The gate of a push *)

\* wg.Add(1).  The sender pushes a payload again until it was accepted.
Enter(p, b) ==
  /\ ppc[p] = "idle" /\ b \notin acked /\ pushes[b] < MaxPushes[b]
  /\ \A q \in Pusher : pbatch[q] # b
  /\ ppc' = [ppc EXCEPT ![p] = "entered"] /\ pbatch' = [pbatch EXCEPT ![p] = b]
  /\ pushes' = [pushes EXCEPT ![b] = @ + 1]
  /\ UNCHANGED <<pstat, stmt, acked, datastore, cache, usageVars, stopping>>

Return_KeepsStatement(p, ok) ==
  /\ ppc' = [ppc EXCEPT ![p] = "idle"] /\ pbatch' = [pbatch EXCEPT ![p] = NoBatch]
  /\ pstat' = [pstat EXCEPT ![p] = NoWriters]
  /\ acked' = IF ok THEN acked \cup {pbatch[p]} ELSE acked
  /\ UNCHANGED <<stmt, pushes>>

\* The return of the push, with wg.Done().
Return(p, ok) ==
  /\ ppc' = [ppc EXCEPT ![p] = "idle"] /\ pbatch' = [pbatch EXCEPT ![p] = NoBatch]
  /\ pstat' = [pstat EXCEPT ![p] = NoWriters] /\ stmt' = [stmt EXCEPT ![p] = NoRows]
  /\ acked' = IF ok THEN acked \cup {pbatch[p]} ELSE acked
  /\ UNCHANGED pushes

\* The select on closeChan: an error, or the writers run in parallel; status is what they
\* begin with.
Select(p, status) ==
  /\ ppc[p] = "entered"
  /\ IF closeChan THEN Return(p, FALSE)
     ELSE /\ ppc' = [ppc EXCEPT ![p] = "write"]
          /\ pstat' = [pstat EXCEPT ![p] = status]
          /\ UNCHANGED <<pbatch, stmt, acked, pushes>>
  /\ UNCHANGED <<datastore, cache, usageVars, stopping>>

-----------------------------------------------------------------------------
(* Statements *)

Running(p, w) == ppc[p] = "write" /\ pstat[p][w] = "run"

Outcomes == {"sent"} \cup IF faults < MaxFaults THEN {"refused", "unanswered"} ELSE {}
Prepared == {TRUE} \cup IF faults < MaxFaults THEN {FALSE} ELSE {}

Fault(fails) == faults' = IF fails THEN faults + 1 ELSE faults

\* The effect of sending rows to a table: they are inserted, they are not, or they
\* are and the answer does not arrive in time.
Insert(t, rows, billable, out) ==
  /\ table' = IF out = "refused" THEN table ELSE [table EXCEPT ![t] = @ \cup rows]
  /\ stored' = IF out = "refused" THEN stored ELSE stored + billable
  /\ Fault(out # "sent")

InsertCached(t, rows, out) ==
  /\ Insert(t, rows, 0, out)
  /\ lost' = IF out = "refused" THEN lost \cup ({t} \X rows) ELSE lost

\* A writer that prepares, fills and sends one statement.
WriteRows(p, w, t, rows, billable) ==
  /\ \E out \in Outcomes :
       /\ Insert(t, rows, billable, out)
       /\ pstat' = [pstat EXCEPT ![p][w] = IF out = "sent" THEN "ok" ELSE "failed"]
  /\ UNCHANGED <<ppc, pbatch, stmt, acked, pushes, lost, cache, usageVars, stopping>>

\* The rows that are appended: those whose key is not cached.  The key is cached with
\* its Append, before the statement is sent.
Uncached(t, rows) == {r \in rows : <<t, r>> \notin cache}

Ended(p) == \A w \in DOMAIN pstat[p] : pstat[p][w] \in {"ok", "failed"}

\* The entries of one cache, set within a short time, get older than its TTL.
Expire ==
  /\ faults < MaxFaults /\ Fault(TRUE)
  /\ \E t \in {entry[1] : entry \in cache} : cache' = {c \in cache : c[1] # t}
  /\ UNCHANGED <<push, table, stored, lost, usageVars, stopping>>

-----------------------------------------------------------------------------
(* UsageCollector *)

\* The parser of an exporter finds the sums of its own id.
UsageExporter == recorded

\* A row with the sums since the start, or an error that is logged.
ExportMetrics(ok) == exported' = IF ok THEN UsageExporter ELSE exported

Report ==
  /\ flushed = "no" /\ exported # recorded
  /\ \E ok \in BOOLEAN : ExportMetrics(ok)
  /\ UNCHANGED <<push, datastore, cache, recorded, flushed, stopping>>

\* Stop stops the interval reader and flushes once more.
StopUsage(from, to) ==
  /\ shut = from /\ shut' = to
  /\ \E ok \in BOOLEAN : /\ ExportMetrics(ok)
                         /\ flushed' = IF ok THEN "ok" ELSE "failed"
  /\ UNCHANGED <<push, datastore, cache, recorded, closeChan, connOpen>>

-----------------------------------------------------------------------------
(* Shutdown *)

CloseChannel(from, to) ==
  /\ shut = from /\ shut' = to /\ closeChan' = TRUE
  /\ UNCHANGED <<push, datastore, cache, usageVars, connOpen>>

Waited_Not == TRUE

\* wg.Wait()
Waited == \A p \in Pusher : ppc[p] = "idle"

Wait(from, to) ==
  /\ shut = from /\ Waited /\ shut' = to
  /\ UNCHANGED <<push, datastore, cache, usageVars, closeChan, connOpen>>

CloseConn(from) ==
  /\ shut = from /\ shut' = "done" /\ connOpen' = FALSE
  /\ UNCHANGED <<push, datastore, cache, usageVars, closeChan>>

-----------------------------------------------------------------------------
(* Properties *)

\* Every variable stays in its range, and no statement is kept by an idle push.
ExporterTypeOK ==
  /\ DOMAIN ppc = Pusher
  /\ pbatch \in [Pusher -> Batch \cup {NoBatch}]
  /\ \A p \in Pusher : /\ ppc[p] = "idle" <=> pbatch[p] = NoBatch
                       /\ ppc[p] = "idle" => stmt[p] = NoRows /\ pstat[p] = NoWriters
  /\ DOMAIN table = Table /\ acked \subseteq Batch
  /\ recorded \in Nat /\ exported \in Nat /\ flushed \in {"no", "ok", "failed"}
  /\ closeChan \in BOOLEAN /\ connOpen \in BOOLEAN

\* Shutdown closes the connection after the last push that passed the gate, whatever
\* push began between close(closeChan) and wg.Wait().
NoPushAfterClose == connOpen \/ \A p \in Pusher : ppc[p] \in {"idle", "entered"}
=============================================================================
