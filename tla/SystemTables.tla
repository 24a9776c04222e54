---------------------------- MODULE SystemTables ----------------------------
(***************************************************************************)
(* The system-tables receiver (receiver/datastoresystemtablesreceiver).    *)
(* One goroutine scrapes the rows of system.query_log in consecutive       *)
(* windows of scrapeIntervalSeconds, each one only after the server's      *)
(* clock is scrapeDelaySeconds past its end, and pushes them as logs.  A   *)
(* failed attempt leaves the window as it is and is retried.               *)
(*                                                                         *)
(* Outside the receiver: the server's clock; queries, whose rows the       *)
(* server writes to query_log up to FlushDelay seconds after the event;    *)
(* and every call to the server or to the next consumer, which may fail.   *)
(* Seconds are the receiver's uint32: all of its sums wrap at Modulus.     *)
(***************************************************************************)
EXTENDS Naturals, FiniteSets

CONSTANTS
  ScrapeIntervalSeconds,   \* width of a window
  ScrapeDelaySeconds,      \* how long after its end a window is scraped
  FlushDelay,              \* the longest a row takes to reach query_log
  StartTs,                 \* the server's clock when the receiver starts
  MaxTs,                   \* bound: the last second of the clock
  Query,                   \* the query events, one row each
  Modulus                  \* 2^32 in the code

\* The interval is never 0: createLogsReceiver replaces a 0 by the default.  The
\* clock's seconds are positive and leave room for one window (2^32 s is 2106).
ASSUME SystemTablesAssumption ==
  /\ ScrapeIntervalSeconds \in Nat \ {0}
  /\ ScrapeDelaySeconds \in Nat
  /\ FlushDelay \in Nat
  /\ StartTs \in Nat \ {0}
  /\ MaxTs \in Nat
  /\ StartTs <= MaxTs
  /\ Modulus \in Nat \ {0}
  /\ MaxTs + 2 * ScrapeIntervalSeconds + ScrapeDelaySeconds < Modulus

VARIABLES
  clock,        \* the server's now()
  eventTime,    \* query -> second of its event, 0 while it has not happened
  visible,      \* the queries whose rows are in query_log
  client,       \* r.datastore # nil
  nextScrapeIntervalStartTs,
  firstTs,      \* history: the start of the first window
  serverTsNow,  \* the attempt's reading of the clock, 0 between attempts
  rows,         \* the rows the attempt has scraped
  scrapePc,     \* where the run loop is
  nextAttempt,  \* when the ticker fires next
  lastFailure,  \* history: when an attempt last failed
  slack,        \* history: how long the last attempt took after it read the clock
  pushed,       \* query -> how often ConsumeLogs has accepted its row
  cancelled     \* requestShutdown has been called

tableVars == <<clock, eventTime, visible>>
windowVars == <<nextScrapeIntervalStartTs, firstTs>>
systemTablesVars == <<tableVars, windowVars, client, serverTsNow, rows, scrapePc,
                      nextAttempt, lastFailure, slack, pushed, cancelled>>

U32(n) == n % Modulus

\* The end of the window that starts at ts, and the clock it is scraped at.
scrapeIntervalEndTs(ts) == U32(ts + ScrapeIntervalSeconds)

minServerTsForNextScrapeAttempt_NoDelay(ts) == scrapeIntervalEndTs(ts)
minServerTsForNextScrapeAttempt(ts) == U32(scrapeIntervalEndTs(ts) + ScrapeDelaySeconds)

\* scrapeQueryLogTable: event_time >= minTs and event_time < maxTs.
scrapeQueryLogTable(minTs, maxTs) ==
  {q \in visible : minTs <= eventTime[q] /\ eventTime[q] < maxTs}

\* Wait after a successful scrape of the window before ts.
nextWaitSeconds_Wraps(ts) ==
  (minServerTsForNextScrapeAttempt(ts) + Modulus - serverTsNow) % Modulus
nextWaitSeconds(ts) ==
  IF minServerTsForNextScrapeAttempt(ts) > serverTsNow
  THEN minServerTsForNextScrapeAttempt(ts) - serverTsNow
  ELSE 0

-----------------------------------------------------------------------------
SystemTablesInit ==
  /\ clock = StartTs
  /\ eventTime = [q \in Query |-> 0]
  /\ visible = {}
  /\ client = FALSE
  /\ nextScrapeIntervalStartTs = 0
  /\ firstTs = 0
  /\ serverTsNow = 0
  /\ rows = {}
  /\ scrapePc = "waiting"
  /\ nextAttempt = StartTs + ScrapeIntervalSeconds + ScrapeDelaySeconds
  /\ lastFailure = 0
  /\ slack = 0
  /\ pushed = [q \in Query |-> 0]
  /\ cancelled = FALSE

\* The server's clock; a row that is due is written before the clock moves on.
ClockTicks ==
  /\ clock < MaxTs
  /\ \A q \in Query : (eventTime[q] # 0 /\ q \notin visible) => clock < eventTime[q] + FlushDelay
  /\ clock' = clock + 1
  /\ UNCHANGED <<eventTime, visible, windowVars, client, serverTsNow, rows, scrapePc,
                 nextAttempt, lastFailure, slack, pushed, cancelled>>

QueryRuns(q) ==
  /\ eventTime[q] = 0
  /\ eventTime' = [eventTime EXCEPT ![q] = clock]
  /\ UNCHANGED <<clock, visible, windowVars, client, serverTsNow, rows, scrapePc,
                 nextAttempt, lastFailure, slack, pushed, cancelled>>

QueryLogged(q) ==
  /\ eventTime[q] # 0
  /\ visible' = visible \cup {q}
  /\ UNCHANGED <<clock, eventTime, windowVars, client, serverTsNow, rows, scrapePc,
                 nextAttempt, lastFailure, slack, pushed, cancelled>>

-----------------------------------------------------------------------------
\* An attempt that ends: back to the select, with the ticker reset to wait.
AttemptEnds(wait) ==
  /\ scrapePc' = "waiting"
  /\ nextAttempt' = clock + wait
  /\ slack' = IF serverTsNow = 0 THEN 0 ELSE clock - serverTsNow
  /\ serverTsNow' = 0
  /\ rows' = {}

AttemptFails ==
  /\ AttemptEnds(ScrapeIntervalSeconds)
  /\ lastFailure' = clock

\* The ticker fires and scrapeQueryLogIfReady makes sure that it has a client.
CreateClient ==
  /\ scrapePc = "waiting" /\ clock >= nextAttempt
  /\ \/ /\ scrapePc' = "attempt"
        /\ client' = TRUE
        /\ UNCHANGED <<serverTsNow, rows, nextAttempt, lastFailure, slack>>
     \/ /\ ~client
        /\ AttemptFails
        /\ UNCHANGED client
  /\ UNCHANGED <<tableVars, windowVars, pushed, cancelled>>

\* It reads the server's clock, takes it as the start of the first window, and
\* returns when the window is not ready.
ReadServerTs ==
  /\ scrapePc = "attempt"
  /\ LET start == IF nextScrapeIntervalStartTs = 0 THEN clock ELSE nextScrapeIntervalStartTs
         ready == minServerTsForNextScrapeAttempt(start)
     IN \/ /\ AttemptFails
           /\ UNCHANGED windowVars
        \/ /\ nextScrapeIntervalStartTs' = start
           /\ firstTs' = IF nextScrapeIntervalStartTs = 0 THEN start ELSE firstTs
           /\ UNCHANGED lastFailure
           /\ IF clock < ready
              THEN AttemptEnds(ready - clock)
              ELSE /\ scrapePc' = "ready"
                   /\ serverTsNow' = clock
                   /\ UNCHANGED <<rows, nextAttempt, slack>>
  /\ UNCHANGED <<tableVars, client, pushed, cancelled>>

\* scrapeAndPushQueryLogs: the query, which may fail, and
ScrapeQueryLog ==
  /\ scrapePc = "ready"
  /\ \/ /\ rows' = scrapeQueryLogTable(nextScrapeIntervalStartTs,
                                       scrapeIntervalEndTs(nextScrapeIntervalStartTs))
        /\ scrapePc' = "scraped"
        /\ UNCHANGED <<serverTsNow, nextAttempt, lastFailure, slack>>
     \/ AttemptFails
  /\ UNCHANGED <<tableVars, windowVars, client, pushed, cancelled>>

\* the push; the window advances only when the next consumer has accepted it.
PushQueryLogs ==
  /\ scrapePc = "scraped"
  /\ \/ LET next == scrapeIntervalEndTs(nextScrapeIntervalStartTs)
        IN /\ nextScrapeIntervalStartTs' = next
           /\ pushed' = [q \in Query |-> IF q \in rows THEN pushed[q] + 1 ELSE pushed[q]]
           /\ AttemptEnds(nextWaitSeconds(next))
           /\ UNCHANGED lastFailure
     \/ /\ AttemptFails
        /\ UNCHANGED <<nextScrapeIntervalStartTs, pushed>>
  /\ UNCHANGED <<tableVars, firstTs, client, cancelled>>

\* Shutdown cancels the context, and the loop leaves at its next select.
RequestShutdown ==
  /\ ~cancelled
  /\ cancelled' = TRUE
  /\ UNCHANGED <<tableVars, windowVars, client, serverTsNow, rows, scrapePc,
                 nextAttempt, lastFailure, slack, pushed>>

RunReturns ==
  /\ cancelled /\ scrapePc = "waiting"
  /\ scrapePc' = "returned"
  /\ UNCHANGED <<tableVars, windowVars, client, serverTsNow, rows,
                 nextAttempt, lastFailure, slack, pushed, cancelled>>

SystemTablesNext ==
  \/ ClockTicks
  \/ \E q \in Query : QueryRuns(q) \/ QueryLogged(q)
  \/ CreateClient \/ ReadServerTs \/ ScrapeQueryLog \/ PushQueryLogs
  \/ RequestShutdown \/ RunReturns

SystemTablesSpec == SystemTablesInit /\ [][SystemTablesNext]_systemTablesVars

-----------------------------------------------------------------------------
\* The values each variable may have; in particular every query's row is pushed a
\* natural number of times and the run loop is at one of its five points.
SystemTablesTypeOK ==
  /\ clock \in StartTs..MaxTs
  /\ eventTime \in [Query -> 0..MaxTs]
  /\ visible \in SUBSET Query
  /\ client \in BOOLEAN
  /\ nextScrapeIntervalStartTs \in 0..Modulus
  /\ firstTs \in 0..MaxTs
  /\ serverTsNow \in 0..MaxTs
  /\ rows \in SUBSET Query
  /\ scrapePc \in {"waiting", "attempt", "ready", "scraped", "returned"}
  /\ nextAttempt \in Nat
  /\ lastFailure \in 0..MaxTs
  /\ slack \in 0..MaxTs
  /\ pushed \in [Query -> Nat]
  /\ cancelled \in BOOLEAN

\* When rows reach query_log within the scrape delay, every query that ran since the
\* first window began and before the next one does has been pushed, exactly once: the
\* windows neither overlap nor leave a gap, across failed scrapes and failed pushes.
EveryQueryPushedOnce ==
  FlushDelay <= ScrapeDelaySeconds =>
    \A q \in Query :
      pushed[q] = IF eventTime[q] # 0 /\ firstTs <= eventTime[q]
                     /\ eventTime[q] < nextScrapeIntervalStartTs
                  THEN 1 ELSE 0

\* A receiver that lags behind catches up: the ticker never sleeps past the second in
\* which the next window is ready by more than the last scrape took, save for one
\* interval after a failed attempt.
NeverSleepsPastReady ==
  (scrapePc = "waiting" /\ nextScrapeIntervalStartTs # 0) =>
    \/ nextAttempt <= clock
    \/ nextAttempt <= minServerTsForNextScrapeAttempt(nextScrapeIntervalStartTs) + slack
    \/ lastFailure # 0 /\ nextAttempt <= lastFailure + ScrapeIntervalSeconds
=============================================================================
