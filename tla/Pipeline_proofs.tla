-------------------------- MODULE Pipeline_proofs --------------------------
(***************************************************************************)
(* The receivers and the meter connector, which share no state: the Kafka  *)
(* receiver delivers at least once, the system tables receiver pushes every *)
(* query once, and the meter connector counts every item it is handed once. *)
(***************************************************************************)
EXTENDS KafkaReceiver, SystemTables, MeterConnector, WellFoundedInduction, FiniteSetTheorems, TLAPS

\* A leaf goes to the SMT solver unless it cites another prover.
USE SMTT(30)

-----------------------------------------------------------------------------
(* The Kafka receiver, for any set of partitions, any set of poison messages *)
(* and any number of messages.                                               *)

\* The variables of the receiver keep their types through every session,
\* rebalance, crash and restart.
THEOREM TypeCorrect == Spec => []TypeOK
<1>1. Init => TypeOK
  <2> SUFFICES ASSUME Init PROVE TypeOK
    BY Zenon
  <2>1. stopped \in BOOLEAN /\ paused \in BOOLEAN
    BY Zenon DEF Init
  <2> QED
    BY <2>1, KafkaAssumption DEF Init, TypeOK, Offset, NoOffset
<1>2. TypeOK /\ [Next]_vars => TypeOK'
  <2> SUFFICES ASSUME TypeOK, [Next]_vars PROVE TypeOK'
    BY Zenon
  <2> USE KafkaAssumption DEF TypeOK, Offset, NoOffset, broker, history
  <2>1. ASSUME NEW p \in Partition, Produce(p) PROVE TypeOK'
    BY <2>1 DEF Produce
  <2>2. ASSUME NEW p \in Partition, Fetch(p) PROVE TypeOK'
    BY <2>2 DEF Fetch
  <2>3. ASSUME NEW p \in Partition, Claim(p) PROVE TypeOK'
    BY <2>3 DEF Claim, MarkMessage
  <2>4. ASSUME NEW p \in Partition, ClaimDone(p) PROVE TypeOK'
    BY <2>4, Zenon DEF ClaimDone
  <2>5. ASSUME NEW p \in Partition,
               ConsumeOk(p) \/ ConsumeError(p) \/ ConsumeHighMemory(p)
        PROVE  TypeOK'
    <3>1. CASE ConsumeOk(p)
      BY <3>1, Zenon DEF ConsumeOk
    <3>2. CASE ConsumeError(p)
      BY <3>2, Zenon DEF ConsumeError
    <3>3. CASE ConsumeHighMemory(p)
      BY <3>3, Zenon DEF ConsumeHighMemory
    <3> QED
      BY <2>5, <3>1, <3>2, <3>3, Zenon
  <2>6. ASSUME NEW p \in Partition,
               RetryOk(p) \/ RetryError(p) \/ RetryDone(p)
        PROVE  TypeOK'
    <3>1. CASE RetryOk(p)
      BY <3>1, Zenon DEF RetryOk
    <3>2. CASE RetryError(p)
      BY <3>2, Zenon DEF RetryError
    <3>3. CASE RetryDone(p)
      BY <3>3, Zenon DEF RetryDone
    <3> QED
      BY <2>6, <3>1, <3>2, <3>3, Zenon
  <2>7. ASSUME NEW p \in Partition, Finish(p) PROVE TypeOK'
    BY <2>7 DEF Finish, MarkMessage, CommitIf, Commit
  <2>8. ASSUME NEW p \in Partition, Fail(p) PROVE TypeOK'
    BY <2>8 DEF Fail, MarkMessage
  <2>9. ASSUME NEW p \in Partition, Return(p) PROVE TypeOK'
    BY <2>9, Zenon DEF Return, CommitIf, Commit
  <2>10. CASE StartSession
    BY <2>10 DEF StartSession, InitialOffset
  <2>11. CASE Rebalance \/ Shutdown \/ LoopExit \/ Restart
    BY <2>11, Zenon DEF Rebalance, Shutdown, LoopExit, Restart
  <2>12. CASE EndSession \/ AutoCommitTick
    BY <2>12, Zenon DEF EndSession, AutoCommitTick, CommitIf, Commit
  <2>13. CASE UNCHANGED vars
    BY <2>13, Zenon DEF vars
  <2> QED
    BY <2>1, <2>2, <2>3, <2>4, <2>5, <2>6, <2>7, <2>8, <2>9, <2>10, <2>11,
       <2>12, <2>13, Zenon DEF Next, Handler
<1> QED
  BY <1>1, <1>2, PTL DEF Spec

PauseInv == SessionInv /\ PausedHasRetrier

\* A session that is over has no handler and no pause; a paused one that is open
\* has a handler in the retry loop of WithMemoryLimiter.
LEMMA PauseInvariant == Spec => []PauseInv
<1>1. Init => PauseInv
  BY Zenon DEF Init, PauseInv, SessionInv, PausedHasRetrier
<1>2. TypeOK /\ PauseInv /\ [Next]_vars => PauseInv'
  <2> SUFFICES ASSUME TypeOK, PauseInv, [Next]_vars PROVE PauseInv'
    BY Zenon
  <2> USE DEF TypeOK, PauseInv, SessionInv, PausedHasRetrier, broker, history
  <2>1. ASSUME NEW p \in Partition, Produce(p) PROVE PauseInv'
    BY <2>1, Zenon DEF Produce
  <2>2. ASSUME NEW p \in Partition, Fetch(p) PROVE PauseInv'
    BY <2>2, Zenon DEF Fetch
  <2>3. ASSUME NEW p \in Partition, Claim(p) PROVE PauseInv'
    BY <2>3, Zenon DEF Claim, MarkMessage, MarksBefore, MarksFailure
  <2>4. ASSUME NEW p \in Partition, ClaimDone(p) PROVE PauseInv'
    BY <2>4, Zenon DEF ClaimDone
  <2>5. ASSUME NEW p \in Partition, ConsumeOk(p) PROVE PauseInv'
    BY <2>5, Zenon DEF ConsumeOk
  <2>6. ASSUME NEW p \in Partition, ConsumeError(p) PROVE PauseInv'
    BY <2>6, Zenon DEF ConsumeError
  <2>7. ASSUME NEW p \in Partition, ConsumeHighMemory(p) PROVE PauseInv'
    BY <2>7, Zenon DEF ConsumeHighMemory
  <2>8. ASSUME NEW p \in Partition, RetryOk(p) PROVE PauseInv'
    BY <2>8, Zenon DEF RetryOk
  <2>9. ASSUME NEW p \in Partition, RetryError(p) PROVE PauseInv'
    BY <2>9, Zenon DEF RetryError
  <2>10. ASSUME NEW p \in Partition, RetryDone(p) PROVE PauseInv'
    BY <2>10, Zenon DEF RetryDone
  <2>11. ASSUME NEW p \in Partition, Finish(p) PROVE PauseInv'
    BY <2>11, Zenon DEF Finish, MarkMessage, CommitIf, Commit
  <2>12. ASSUME NEW p \in Partition, Fail(p) PROVE PauseInv'
    BY <2>12, Zenon DEF Fail, MarkMessage, MarksFailure
  <2>13. ASSUME NEW p \in Partition, Return(p) PROVE PauseInv'
    BY <2>13, Zenon DEF Return, CommitIf, Commit
  <2>14. CASE StartSession
    BY <2>14, Zenon DEF StartSession, InitialOffset
  <2>15. CASE Rebalance
    BY <2>15, Zenon DEF Rebalance
  <2>16. CASE EndSession
    BY <2>16, Zenon DEF EndSession, CommitIf, Commit
  <2>17. CASE AutoCommitTick
    BY <2>17, Zenon DEF AutoCommitTick, Commit
  <2>18. CASE Shutdown
    BY <2>18, Zenon DEF Shutdown
  <2>19. CASE LoopExit
    BY <2>19, Zenon DEF LoopExit
  <2>20. CASE Restart
    BY <2>20, Zenon DEF Restart
  <2>21. CASE UNCHANGED vars
    BY <2>21, Zenon DEF vars
  <2> QED
    BY <2>1, <2>2, <2>3, <2>4, <2>5, <2>6, <2>7, <2>8, <2>9, <2>10,
       <2>11, <2>12, <2>13, <2>14, <2>15, <2>16, <2>17, <2>18, <2>19,
       <2>20, <2>21, Zenon
       DEF Next, Handler
<1> QED
  BY <1>1, <1>2, TypeCorrect, PTL DEF Spec

\* PauseAll is never left behind: a paused open session always has a handler in
\* the retry loop, which will call ResumeAll.
THEOREM PauseIsReleased == Spec => []PausedHasRetrier
BY PauseInvariant, PTL DEF PauseInv

\* While a handler runs, the committed offset is at most the mark and the mark
\* at most the position, so nothing committed is handed to the pipeline again.
THEOREM CommittedNotRedelivered ==
  After => (Spec => []NoRedeliveryOfCommitted)
<1> SUFFICES ASSUME After PROVE Spec => []NoRedeliveryOfCommitted
  BY Zenon
<1>1. Init => OrderInv
  BY DEF Init, OrderInv
<1>2. TypeOK /\ OrderInv /\ [Next]_vars => OrderInv'
  <2> SUFFICES ASSUME TypeOK, OrderInv, [Next]_vars PROVE OrderInv'
    BY Zenon
  <2> USE After DEF TypeOK, OrderInv, Offset, NoOffset, broker, history
  <2>1. ASSUME NEW p \in Partition, Produce(p) PROVE OrderInv'
    BY <2>1, Zenon DEF Produce
  <2>2. ASSUME NEW p \in Partition, Fetch(p) PROVE OrderInv'
    BY <2>2, Zenon DEF Fetch
  <2>3. ASSUME NEW p \in Partition, Claim(p) PROVE OrderInv'
    BY <2>3 DEF Claim, MarkMessage, MarksBefore, MarksFailure
  <2>4. ASSUME NEW p \in Partition, ClaimDone(p) PROVE OrderInv'
    BY <2>4 DEF ClaimDone
  <2>5. ASSUME NEW p \in Partition, ConsumeOk(p) PROVE OrderInv'
    BY <2>5, Zenon DEF ConsumeOk
  <2>6. ASSUME NEW p \in Partition, ConsumeError(p) PROVE OrderInv'
    BY <2>6, Zenon DEF ConsumeError
  <2>7. ASSUME NEW p \in Partition, ConsumeHighMemory(p) PROVE OrderInv'
    BY <2>7, Zenon DEF ConsumeHighMemory
  <2>8. ASSUME NEW p \in Partition, RetryOk(p) PROVE OrderInv'
    BY <2>8, Zenon DEF RetryOk
  <2>9. ASSUME NEW p \in Partition, RetryError(p) PROVE OrderInv'
    BY <2>9, Zenon DEF RetryError
  <2>10. ASSUME NEW p \in Partition, RetryDone(p) PROVE OrderInv'
    BY <2>10, Zenon DEF RetryDone
  <2>11. ASSUME NEW p \in Partition, Finish(p) PROVE OrderInv'
    BY <2>11 DEF Finish, MarkMessage, CommitIf, Commit
  <2>12. ASSUME NEW p \in Partition, Fail(p) PROVE OrderInv'
    BY <2>12 DEF Fail, MarkMessage, MarksFailure
  <2>13. ASSUME NEW p \in Partition, Return(p) PROVE OrderInv'
    BY <2>13 DEF Return, CommitIf, Commit
  <2>14. CASE StartSession
    BY <2>14 DEF StartSession, InitialOffset
  <2>15. CASE Rebalance
    BY <2>15, Zenon DEF Rebalance
  <2>16. CASE EndSession
    BY <2>16, Zenon DEF EndSession, CommitIf, Commit
  <2>17. CASE AutoCommitTick
    BY <2>17 DEF AutoCommitTick, Commit
  <2>18. CASE Shutdown
    BY <2>18, Zenon DEF Shutdown
  <2>19. CASE LoopExit
    BY <2>19, Zenon DEF LoopExit
  <2>20. CASE Restart
    BY <2>20, Zenon DEF Restart
  <2>21. CASE UNCHANGED vars
    BY <2>21, Zenon DEF vars
  <2> QED
    BY <2>1, <2>2, <2>3, <2>4, <2>5, <2>6, <2>7, <2>8, <2>9, <2>10,
       <2>11, <2>12, <2>13, <2>14, <2>15, <2>16, <2>17, <2>18, <2>19,
       <2>20, <2>21, Zenon
       DEF Next, Handler
<1>3. TypeOK /\ OrderInv => NoRedeliveryOfCommitted
  BY DEF TypeOK, OrderInv, NoRedeliveryOfCommitted, Offset, NoOffset
<1> QED
  BY <1>1, <1>2, <1>3, TypeCorrect, PTL DEF Spec

ReadInv == BaseInv /\ SettledInv

\* The heart of the argument: everything below the committed offset, the mark
\* and the position of a running handler is settled, and stays so.
LEMMA ReadInvInductive ==
  After /\ Earliest => (TypeOK /\ SessionInv /\ ReadInv /\ [Next]_vars => ReadInv')
<1> SUFFICES ASSUME After, Earliest PROVE TypeOK /\ SessionInv /\ ReadInv /\ [Next]_vars => ReadInv'
  BY Zenon
<1> SUFFICES ASSUME TypeOK, SessionInv, ReadInv, [Next]_vars PROVE ReadInv'
  BY Zenon
<1> USE After, Earliest
    DEF TypeOK, SessionInv, ReadInv, BaseInv, SettledInv, SettledBelow, Settled,
        Offset, NoOffset, broker, history
<1>1. ASSUME NEW p \in Partition, Produce(p) PROVE ReadInv'
  BY <1>1, Zenon DEF Produce
<1>2. ASSUME NEW p \in Partition, Fetch(p) PROVE ReadInv'
  BY <1>2, Zenon DEF Fetch
<1>3. ASSUME NEW p \in Partition, Claim(p) PROVE ReadInv'
  BY <1>3 DEF Claim, MarkMessage, MarksBefore, MarksFailure
<1>4. ASSUME NEW p \in Partition, ClaimDone(p) PROVE ReadInv'
  BY <1>4, Zenon DEF ClaimDone
<1>5. ASSUME NEW p \in Partition, ConsumeOk(p) PROVE ReadInv'
  BY <1>5, Zenon DEF ConsumeOk
<1>6. ASSUME NEW p \in Partition, ConsumeError(p) PROVE ReadInv'
  BY <1>6, Zenon DEF ConsumeError
<1>7. ASSUME NEW p \in Partition, ConsumeHighMemory(p) PROVE ReadInv'
  BY <1>7, Zenon DEF ConsumeHighMemory
<1>8. ASSUME NEW p \in Partition, RetryOk(p) PROVE ReadInv'
  BY <1>8, Zenon DEF RetryOk
<1>9. ASSUME NEW p \in Partition, RetryError(p) PROVE ReadInv'
  BY <1>9, Zenon DEF RetryError
<1>10. ASSUME NEW p \in Partition, RetryDone(p) PROVE ReadInv'
  BY <1>10, Zenon DEF RetryDone
<1>11. ASSUME NEW p \in Partition, Finish(p) PROVE ReadInv'
  BY <1>11 DEF Finish, MarkMessage, CommitIf, Commit
<1>12. ASSUME NEW p \in Partition, Fail(p) PROVE ReadInv'
  BY <1>12 DEF Fail, MarkMessage, MarksFailure
<1>13. ASSUME NEW p \in Partition, Return(p) PROVE ReadInv'
  BY <1>13, Zenon DEF Return, CommitIf, Commit
<1>14. CASE StartSession
  BY <1>14 DEF StartSession, InitialOffset
<1>15. CASE Rebalance
  BY <1>15, Zenon DEF Rebalance
<1>16. CASE EndSession
  BY <1>16, Zenon DEF EndSession, CommitIf, Commit
<1>17. CASE AutoCommitTick
  BY <1>17, Zenon DEF AutoCommitTick, Commit
<1>18. CASE Shutdown
  BY <1>18, Zenon DEF Shutdown
<1>19. CASE LoopExit
  BY <1>19, Zenon DEF LoopExit
<1>20. CASE Restart
  BY <1>20, Zenon DEF Restart
<1>21. CASE UNCHANGED vars
  BY <1>21, Zenon DEF vars
<1> QED
  BY <1>1, <1>2, <1>3, <1>4, <1>5, <1>6, <1>7, <1>8, <1>9, <1>10,
     <1>11, <1>12, <1>13, <1>14, <1>15, <1>16, <1>17, <1>18, <1>19,
     <1>20, <1>21, Zenon
     DEF Next, Handler


LEMMA ReadInvariant ==
  After /\ Earliest => (Spec => [](TypeOK /\ ReadInv))
<1> SUFFICES ASSUME After, Earliest PROVE Spec => [](TypeOK /\ ReadInv)
  BY Zenon
<1>1. Init => ReadInv
  BY DEF Init, ReadInv, BaseInv, SettledInv, SettledBelow, Settled, NoOffset
<1>2. Spec => []SessionInv
  BY PauseInvariant, PTL DEF PauseInv
<1> QED
  BY <1>1, <1>2, ReadInvInductive, TypeCorrect, PTL DEF Spec

\* At-least-once delivery: with marking after the pipeline's execution, no
\* marking on error and reading from the earliest offset, everything below
\* the committed offset was accepted by the pipeline.
THEOREM DeliveredAtLeastOnce ==
  After /\ ~OnError /\ Earliest => (Spec => []AtLeastOnce)
<1> SUFFICES ASSUME After, ~OnError, Earliest PROVE Spec => []AtLeastOnce
  BY Zenon
<1>1. TypeOK /\ ReadInv => AtLeastOnce
  <2> SUFFICES ASSUME TypeOK, ReadInv, NEW p \in Partition,
                      NEW o \in base[p] .. committed[p] - 1
               PROVE  o \in acked[p]
    BY Zenon DEF AtLeastOnce
  <2>1. base[p] = 0
    BY DEF TypeOK, ReadInv, BaseInv, Offset, NoOffset
  <2>2. o \in 0 .. committed[p] - 1
    BY <2>1, Zenon
  <2> QED
    BY <2>2, ~OnError, Zenon DEF ReadInv, SettledInv, SettledBelow, Settled
<1> QED
  BY <1>1, ReadInvariant, PTL

\* With on_error too, a committed message was accepted or its handling ended in
\* an error.
THEOREM CommittedHandled ==
  After /\ Earliest => (Spec => []CommittedWasHandled)
<1> SUFFICES ASSUME After, Earliest PROVE Spec => []CommittedWasHandled
  BY Zenon
<1>1. TypeOK /\ ReadInv => CommittedWasHandled
  <2> SUFFICES ASSUME TypeOK, ReadInv, NEW p \in Partition,
                      NEW o \in base[p] .. committed[p] - 1
               PROVE  o \in acked[p] \cup failed[p]
    BY Zenon DEF CommittedWasHandled
  <2>1. base[p] = 0
    BY DEF TypeOK, ReadInv, BaseInv, Offset, NoOffset
  <2>2. o \in 0 .. committed[p] - 1
    BY <2>1, Zenon
  <2> QED
    BY <2>2, Zenon DEF ReadInv, SettledInv, SettledBelow, Settled
<1> QED
  BY <1>1, ReadInvariant, PTL

-----------------------------------------------------------------------------
(* The system tables receiver, for every interval, delay, clock and set of  *)
(* queries.  EveryQueryPushedOnce is not inductive: that a scrape finds     *)
(* every row of its window needs the clock to be past the window by the     *)
(* delay, and every row to be written within FlushDelay of its event.       *)

\* What the run loop knows about the clock and the rows it has scraped.
ScrapeInv ==
  /\ SystemTablesTypeOK
  /\ nextScrapeIntervalStartTs <= clock
  /\ nextScrapeIntervalStartTs = 0 <=> firstTs = 0
  /\ firstTs <= nextScrapeIntervalStartTs
  /\ serverTsNow <= clock
  /\ \A q \in Query : eventTime[q] <= clock
  /\ \A q \in Query : (eventTime[q] # 0 /\ q \notin visible) => clock <= eventTime[q] + FlushDelay
  /\ \A q \in visible : eventTime[q] # 0
  /\ scrapePc \in {"ready", "scraped"} =>
       /\ nextScrapeIntervalStartTs # 0
       /\ nextScrapeIntervalStartTs + ScrapeIntervalSeconds + ScrapeDelaySeconds <= serverTsNow
  /\ scrapePc = "scraped" /\ FlushDelay <= ScrapeDelaySeconds =>
       rows = {q \in Query : /\ nextScrapeIntervalStartTs <= eventTime[q]
                             /\ eventTime[q] < nextScrapeIntervalStartTs + ScrapeIntervalSeconds}
  /\ EveryQueryPushedOnce

\* The receiver's uint32 sums do not wrap for a start that is not past the clock.
LEMMA NoWrap ==
  \A ts \in Nat :
    ts <= MaxTs
      => /\ scrapeIntervalEndTs(ts) = ts + ScrapeIntervalSeconds
         /\ minServerTsForNextScrapeAttempt(ts) = ts + ScrapeIntervalSeconds + ScrapeDelaySeconds
<1> SUFFICES ASSUME NEW ts \in Nat, ts <= MaxTs
             PROVE  /\ scrapeIntervalEndTs(ts) = ts + ScrapeIntervalSeconds
                    /\ minServerTsForNextScrapeAttempt(ts) = ts + ScrapeIntervalSeconds + ScrapeDelaySeconds
  OBVIOUS
  <1>1. /\ ts + ScrapeIntervalSeconds \in 0..(Modulus - 1)
        /\ ts + ScrapeIntervalSeconds + ScrapeDelaySeconds \in 0..(Modulus - 1)
        /\ Modulus \in Nat \ {0}
    BY SystemTablesAssumption
  <1>2. \A n \in 0..(Modulus - 1) : n % Modulus = n
    BY <1>1
  <1> QED
    BY <1>1, <1>2 DEF scrapeIntervalEndTs, minServerTsForNextScrapeAttempt, U32

LEMMA ScrapeInit == SystemTablesInit => ScrapeInv
  <1> SUFFICES ASSUME SystemTablesInit PROVE ScrapeInv
    OBVIOUS
  <1> USE SystemTablesAssumption
  <1>0. client \in BOOLEAN /\ cancelled \in BOOLEAN
    BY Zenon DEF SystemTablesInit
  <1>1. SystemTablesTypeOK
    BY <1>0 DEF SystemTablesInit, SystemTablesTypeOK
  <1>2. EveryQueryPushedOnce
    BY DEF SystemTablesInit, EveryQueryPushedOnce
  <1> QED
    BY <1>1, <1>2 DEF SystemTablesInit, ScrapeInv

\* Every step keeps the invariant; the scrape is the step that needs the delay.
LEMMA ScrapeNext == ScrapeInv /\ [SystemTablesNext]_systemTablesVars => ScrapeInv'
  <1> SUFFICES ASSUME ScrapeInv, [SystemTablesNext]_systemTablesVars PROVE ScrapeInv'
    OBVIOUS
  <1> USE SystemTablesAssumption
  <1>t. SystemTablesTypeOK
    BY DEF ScrapeInv
  <1>w. /\ scrapeIntervalEndTs(nextScrapeIntervalStartTs)
             = nextScrapeIntervalStartTs + ScrapeIntervalSeconds
        /\ minServerTsForNextScrapeAttempt(nextScrapeIntervalStartTs)
             = nextScrapeIntervalStartTs + ScrapeIntervalSeconds + ScrapeDelaySeconds
        /\ minServerTsForNextScrapeAttempt(clock)
             = clock + ScrapeIntervalSeconds + ScrapeDelaySeconds
    BY NoWrap DEF ScrapeInv, SystemTablesTypeOK
  <1>1. CASE ClockTicks
    <2>1. SystemTablesTypeOK'
      BY <1>1, <1>t DEF ClockTicks, SystemTablesTypeOK, windowVars
    <2>2. EveryQueryPushedOnce'
      BY <1>1 DEF ClockTicks, ScrapeInv, EveryQueryPushedOnce, windowVars
    <2> QED
      BY <1>1, <2>1, <2>2 DEF ClockTicks, ScrapeInv, SystemTablesTypeOK, windowVars
  <1>2. ASSUME NEW q \in Query, QueryRuns(q) PROVE ScrapeInv'
    <2>1. SystemTablesTypeOK'
      BY <1>2, <1>t DEF QueryRuns, SystemTablesTypeOK, windowVars
    <2>2. EveryQueryPushedOnce'
      BY <1>2 DEF QueryRuns, ScrapeInv, SystemTablesTypeOK, EveryQueryPushedOnce, windowVars
    <2>3. eventTime' = [eventTime EXCEPT ![q] = clock] /\ eventTime[q] = 0 /\ clock \in Nat \ {0}
      BY <1>2, <1>t DEF QueryRuns, SystemTablesTypeOK
    <2> QED
      BY <1>2, <2>1, <2>2, <2>3 DEF QueryRuns, ScrapeInv, SystemTablesTypeOK, windowVars
  <1>3. ASSUME NEW q \in Query, QueryLogged(q) PROVE ScrapeInv'
    <2>1. SystemTablesTypeOK'
      BY <1>3, <1>t DEF QueryLogged, SystemTablesTypeOK, windowVars
    <2>2. EveryQueryPushedOnce'
      BY <1>3 DEF QueryLogged, ScrapeInv, EveryQueryPushedOnce, windowVars
    <2> QED
      BY <1>3, <2>1, <2>2 DEF QueryLogged, ScrapeInv, SystemTablesTypeOK, windowVars
  <1>4. CASE CreateClient
    <2>0. client' \in BOOLEAN /\ cancelled' \in BOOLEAN
      BY <1>4, <1>t, Zenon DEF CreateClient, SystemTablesTypeOK
    <2>1. SystemTablesTypeOK'
      BY <1>4, <1>t, <2>0 DEF ScrapeInv, CreateClient, AttemptFails, AttemptEnds, SystemTablesTypeOK, windowVars, tableVars
    <2>2. EveryQueryPushedOnce'
      BY <1>4 DEF CreateClient, ScrapeInv, EveryQueryPushedOnce, windowVars, tableVars
    <2>3. scrapePc' \notin {"ready", "scraped"}
      BY <1>4 DEF CreateClient, AttemptFails, AttemptEnds
    <2> QED
      BY <1>4, <1>t, <2>1, <2>2, <2>3
      DEF CreateClient, AttemptFails, AttemptEnds, ScrapeInv, SystemTablesTypeOK, windowVars, tableVars
  <1>5. CASE ReadServerTs
    <2>0. client' \in BOOLEAN /\ cancelled' \in BOOLEAN
      BY <1>5, <1>t, Zenon DEF ReadServerTs, SystemTablesTypeOK
    <2>1. SystemTablesTypeOK'
      BY <1>5, <1>t, <1>w, <2>0
      DEF ReadServerTs, AttemptFails, AttemptEnds, SystemTablesTypeOK, windowVars, tableVars, ScrapeInv
    <2>2. EveryQueryPushedOnce'
      BY <1>5, <1>t DEF ReadServerTs, ScrapeInv, SystemTablesTypeOK, EveryQueryPushedOnce, windowVars, tableVars
    <2>3. /\ scrapePc' # "scraped" /\ serverTsNow' <= clock'
          /\ UNCHANGED <<clock, eventTime, visible>>
      BY <1>5, <1>t DEF ReadServerTs, AttemptFails, AttemptEnds, SystemTablesTypeOK, tableVars
    <2>4. /\ nextScrapeIntervalStartTs' <= clock
          /\ nextScrapeIntervalStartTs' = 0 <=> firstTs' = 0
          /\ firstTs' <= nextScrapeIntervalStartTs'
      BY <1>5, <1>t DEF ReadServerTs, AttemptFails, ScrapeInv, SystemTablesTypeOK, windowVars
    <2>5. scrapePc' = "ready" =>
            /\ nextScrapeIntervalStartTs' # 0
            /\ nextScrapeIntervalStartTs' + ScrapeIntervalSeconds + ScrapeDelaySeconds <= serverTsNow'
      BY <1>5, <1>t, <1>w DEF ReadServerTs, AttemptFails, AttemptEnds, SystemTablesTypeOK
    <2> QED
      BY <2>1, <2>2, <2>3, <2>4, <2>5 DEF ScrapeInv
  <1>6. CASE ScrapeQueryLog
    <2>0. client' \in BOOLEAN /\ cancelled' \in BOOLEAN
      BY <1>6, <1>t, Zenon DEF ScrapeQueryLog, SystemTablesTypeOK
    <2>1. SystemTablesTypeOK'
      BY <1>6, <1>t, <2>0
      DEF ScrapeInv, ScrapeQueryLog, AttemptFails, AttemptEnds, scrapeQueryLogTable, SystemTablesTypeOK, windowVars, tableVars
    <2>2. EveryQueryPushedOnce'
      BY <1>6 DEF ScrapeQueryLog, ScrapeInv, EveryQueryPushedOnce, windowVars, tableVars
    <2>3. CASE scrapePc' = "scraped"
      <3>1. rows' = {q \in visible : /\ nextScrapeIntervalStartTs <= eventTime[q]
                                     /\ eventTime[q] < nextScrapeIntervalStartTs + ScrapeIntervalSeconds}
        BY <1>6, <1>w, <2>3 DEF ScrapeQueryLog, AttemptFails, AttemptEnds, scrapeQueryLogTable
      <3>2. ASSUME FlushDelay <= ScrapeDelaySeconds, NEW q \in Query,
                   nextScrapeIntervalStartTs <= eventTime[q],
                   eventTime[q] < nextScrapeIntervalStartTs + ScrapeIntervalSeconds
            PROVE  q \in visible
        BY <1>6, <1>t, <3>2 DEF ScrapeQueryLog, ScrapeInv, SystemTablesTypeOK
      <3>3. FlushDelay <= ScrapeDelaySeconds =>
              rows' = {q \in Query : /\ nextScrapeIntervalStartTs <= eventTime[q]
                                     /\ eventTime[q] < nextScrapeIntervalStartTs + ScrapeIntervalSeconds}
        BY <1>t, <3>1, <3>2 DEF SystemTablesTypeOK
      <3>4. UNCHANGED <<clock, eventTime, visible, nextScrapeIntervalStartTs, firstTs, serverTsNow>>
        BY <1>6, <2>3 DEF ScrapeQueryLog, AttemptFails, AttemptEnds, windowVars, tableVars
      <3> QED
        BY <1>6, <2>1, <2>2, <2>3, <3>3, <3>4 DEF ScrapeQueryLog, ScrapeInv
    <2>4. CASE scrapePc' # "scraped"
      BY <1>6, <1>t, <2>1, <2>2, <2>4
      DEF ScrapeQueryLog, AttemptFails, AttemptEnds, ScrapeInv, SystemTablesTypeOK, windowVars, tableVars
    <2> QED
      BY <2>3, <2>4
  <1>7. CASE PushQueryLogs
    <2>0. client' \in BOOLEAN /\ cancelled' \in BOOLEAN
      BY <1>7, <1>t, Zenon DEF PushQueryLogs, SystemTablesTypeOK
    <2> DEFINE next == nextScrapeIntervalStartTs + ScrapeIntervalSeconds
    <2>a. next \in Nat /\ next <= clock /\ clock <= MaxTs
      BY <1>7, <1>t DEF PushQueryLogs, ScrapeInv, SystemTablesTypeOK
    <2>b. minServerTsForNextScrapeAttempt(next) = next + ScrapeIntervalSeconds + ScrapeDelaySeconds
      BY <2>a, NoWrap, <1>t DEF SystemTablesTypeOK
    <2>c. nextWaitSeconds(next) \in Nat
      BY <2>a, <2>b, <1>t DEF nextWaitSeconds, SystemTablesTypeOK
    <2>d. \/ /\ nextScrapeIntervalStartTs' = next
             /\ pushed' = [q \in Query |-> IF q \in rows THEN pushed[q] + 1 ELSE pushed[q]]
             /\ AttemptEnds(nextWaitSeconds(next))
             /\ UNCHANGED lastFailure
          \/ AttemptFails /\ UNCHANGED <<nextScrapeIntervalStartTs, pushed>>
      BY <1>7, <1>w DEF PushQueryLogs
    <2> HIDE DEF next
    <2>1. SystemTablesTypeOK'
      BY <1>7, <1>t, <2>0, <2>a, <2>c, <2>d
      DEF PushQueryLogs, AttemptFails, AttemptEnds, SystemTablesTypeOK, tableVars, ScrapeInv
    <2>2. EveryQueryPushedOnce'
      BY <1>7, <1>t, <1>w DEF PushQueryLogs, ScrapeInv, SystemTablesTypeOK, EveryQueryPushedOnce, tableVars
    <2>3. scrapePc' \notin {"ready", "scraped"}
      BY <1>7 DEF PushQueryLogs, AttemptFails, AttemptEnds
    <2>4. serverTsNow' = 0 /\ UNCHANGED <<clock, eventTime, visible, firstTs>>
      BY <1>7 DEF PushQueryLogs, AttemptFails, AttemptEnds, tableVars
    <2>5. /\ nextScrapeIntervalStartTs' <= clock
          /\ nextScrapeIntervalStartTs' = 0 <=> firstTs' = 0
          /\ firstTs' <= nextScrapeIntervalStartTs'
      BY <1>7, <1>t, <2>a, <2>d, <2>4 DEF PushQueryLogs, ScrapeInv, SystemTablesTypeOK, next
    <2>6. 0 <= clock
      BY <1>t DEF SystemTablesTypeOK
    <2> QED
      BY <2>1, <2>2, <2>3, <2>4, <2>5, <2>6 DEF ScrapeInv
  <1>8. CASE RequestShutdown
    BY <1>8 DEF RequestShutdown, ScrapeInv, SystemTablesTypeOK, EveryQueryPushedOnce, windowVars, tableVars
  <1>9. CASE RunReturns
    BY <1>9 DEF RunReturns, ScrapeInv, SystemTablesTypeOK, EveryQueryPushedOnce, windowVars, tableVars
  <1>10. CASE UNCHANGED systemTablesVars
    BY <1>10 DEF systemTablesVars, ScrapeInv, SystemTablesTypeOK, EveryQueryPushedOnce, windowVars, tableVars
  <1> QED
    BY <1>1, <1>2, <1>3, <1>4, <1>5, <1>6, <1>7, <1>8, <1>9, <1>10 DEF SystemTablesNext

\* Every query of a finished window has been pushed once, and no other: for every
\* interval and delay, however the attempts of scrapeQueryLogIfReady fail, when rows
\* reach query_log within the delay.
THEOREM QueriesPushedOnce == SystemTablesSpec => []EveryQueryPushedOnce
  <1>1. ScrapeInv => EveryQueryPushedOnce
    BY DEF ScrapeInv
  <1> QED
    BY ScrapeInit, ScrapeNext, <1>1, PTL DEF SystemTablesSpec

\* What a step of an attempt that fails leaves: one interval after the failure.
LEMMA FailureWaits ==
  SystemTablesTypeOK /\ AttemptFails /\ UNCHANGED clock => NeverSleepsPastReady'
BY SystemTablesAssumption DEF AttemptFails, AttemptEnds, NeverSleepsPastReady, SystemTablesTypeOK

\* The ticker: every wait that is not one of a failure ends when the next window is ready.
LEMMA SleepNext ==
  ScrapeInv /\ ScrapeInv' /\ NeverSleepsPastReady /\ [SystemTablesNext]_systemTablesVars
    => NeverSleepsPastReady'
  <1> SUFFICES ASSUME ScrapeInv, ScrapeInv', NeverSleepsPastReady,
                      [SystemTablesNext]_systemTablesVars
               PROVE  NeverSleepsPastReady'
    OBVIOUS
  <1> USE SystemTablesAssumption
  <1>t. SystemTablesTypeOK /\ SystemTablesTypeOK' /\ serverTsNow <= clock
    BY DEF ScrapeInv
  <1>1. CASE ClockTicks
    BY <1>1, <1>t DEF ClockTicks, NeverSleepsPastReady, SystemTablesTypeOK, windowVars
  <1>2. ASSUME NEW q \in Query, QueryRuns(q) \/ QueryLogged(q) PROVE NeverSleepsPastReady'
    BY <1>2 DEF QueryRuns, QueryLogged, NeverSleepsPastReady, windowVars
  <1>3. CASE CreateClient
    <2>1. CASE AttemptFails
      BY <1>3, <1>t, <2>1, FailureWaits DEF CreateClient, tableVars
    <2>2. CASE scrapePc' = "attempt"
      BY <2>2 DEF NeverSleepsPastReady
    <2> QED
      BY <1>3, <2>1, <2>2 DEF CreateClient
  <1>4. CASE ReadServerTs
    <2>1. CASE AttemptFails
      BY <1>4, <1>t, <2>1, FailureWaits DEF ReadServerTs, tableVars
    <2>2. CASE scrapePc' = "ready"
      BY <2>2 DEF NeverSleepsPastReady
    <2> DEFINE ready == minServerTsForNextScrapeAttempt(nextScrapeIntervalStartTs')
    <2>3. ASSUME AttemptEnds(ready - clock) PROVE NeverSleepsPastReady'
      <3>1. ready \in Nat
        BY <1>t, NoWrap DEF ScrapeInv, SystemTablesTypeOK
      <3>2. nextAttempt' = clock + (ready - clock) /\ slack' \in Nat
        BY <1>t, <2>3 DEF AttemptEnds, SystemTablesTypeOK
      <3>3. nextAttempt' <= ready + slack'
        <4>1. \A n, c, m \in Nat : c + (n - c) <= n + m
          OBVIOUS
        <4>2. clock \in Nat
          BY <1>t DEF SystemTablesTypeOK
        <4> QED
          BY <3>1, <3>2, <4>1, <4>2
      <3> QED
        BY <3>3 DEF NeverSleepsPastReady
    <2> QED
      BY <1>4, <2>1, <2>2, <2>3 DEF ReadServerTs
  <1>5. CASE ScrapeQueryLog
    <2>1. CASE AttemptFails
      BY <1>5, <1>t, <2>1, FailureWaits DEF ScrapeQueryLog, tableVars
    <2>2. CASE scrapePc' = "scraped"
      BY <2>2 DEF NeverSleepsPastReady
    <2> QED
      BY <1>5, <2>1, <2>2 DEF ScrapeQueryLog
  <1>6. CASE PushQueryLogs
    <2>1. CASE AttemptFails
      BY <1>6, <1>t, <2>1, FailureWaits DEF PushQueryLogs, tableVars
    <2>2. ASSUME AttemptEnds(nextWaitSeconds(nextScrapeIntervalStartTs')) PROVE NeverSleepsPastReady'
      <3> DEFINE ready == minServerTsForNextScrapeAttempt(nextScrapeIntervalStartTs')
      <3>1. ready \in Nat
        BY <1>t, NoWrap DEF ScrapeInv, SystemTablesTypeOK
      <3>2. serverTsNow # 0 /\ UNCHANGED clock
        BY <1>6, <1>t DEF PushQueryLogs, ScrapeInv, SystemTablesTypeOK, tableVars
      <3>3. nextAttempt' = clock + (IF ready > serverTsNow THEN ready - serverTsNow ELSE 0)
        BY <2>2 DEF AttemptEnds, nextWaitSeconds
      <3>4. slack' = clock - serverTsNow
        BY <2>2, <3>2 DEF AttemptEnds
      <3>5. nextAttempt' <= clock' \/ nextAttempt' <= ready + slack'
        <4> HIDE DEF ready
        <4> QED
          BY <1>t, <3>1, <3>2, <3>3, <3>4 DEF SystemTablesTypeOK
      <3> QED
        BY <3>5 DEF NeverSleepsPastReady
    <2> QED
      BY <1>6, <2>1, <2>2 DEF PushQueryLogs
  <1>7. CASE RequestShutdown \/ RunReturns \/ UNCHANGED systemTablesVars
    BY <1>7 DEF RequestShutdown, RunReturns, systemTablesVars, NeverSleepsPastReady, windowVars, tableVars
  <1> QED
    BY <1>1, <1>2, <1>3, <1>4, <1>5, <1>6, <1>7 DEF SystemTablesNext

\* The receiver catches up: for every interval and delay, the ticker that run resets
\* after an attempt never sleeps past the second in which the next window is ready by
\* more than the last scrape took, or one interval after a failed attempt.
THEOREM NeverSleepsTooLong == SystemTablesSpec => []NeverSleepsPastReady
  <1>1. SystemTablesInit => NeverSleepsPastReady
    BY DEF SystemTablesInit, NeverSleepsPastReady
  <1> QED
    BY ScrapeInit, ScrapeNext, SleepNext, <1>1, PTL DEF SystemTablesSpec

-----------------------------------------------------------------------------
(* Sums of sequences, which are defined by recursion.  No induction theorem is   *)
(* used: the length of a least counterexample is the least element of a set of   *)
(* naturals, and one term less makes a smaller counterexample.                   *)

\* A non-empty set of naturals has a least element.
LEMMA LeastNat ==
  \A T \in SUBSET Nat :
    T # {} => \E x \in T : \A y \in T : x <= y
<1> SUFFICES ASSUME NEW T \in SUBSET Nat, T # {}
             PROVE  \E x \in T : \A y \in T : x <= y
  BY Zenon
<1> DEFINE R == {ss \in Nat \X Nat : ss[1] < ss[2]}
<1>1. IsWellFoundedOn(R, Nat)
  BY NatLessThanWellFounded, Zenon DEF OpToRel
<1>2. \E x \in T : \A y \in T : ~(<<y, x>> \in R)
  <2> HIDE DEF R
  <2> QED BY <1>1, WFMin, Zenon
<1>3. PICK x \in T : \A y \in T : ~(<<y, x>> \in R)
  BY <1>2, Zenon
<1>4. \A y \in T : ~(y < x)
  BY <1>3, Zenon
<1> QED BY <1>4

\* The sums Total adds up, of the first n numbers of s.
PrefixSums(s, n, u) == u = [i \in 0 .. n |-> IF i = 0 THEN 0 ELSE u[i - 1] + s[i]]

LEMMA PrefixSumsExist ==
  \A s \in Seq(Nat) : \A n \in Nat : n <= Len(s) => \E u : PrefixSums(s, n, u)
<1> SUFFICES ASSUME NEW s \in Seq(Nat) PROVE \A n \in Nat : n <= Len(s) => \E u : PrefixSums(s, n, u)
  BY Zenon
<1> DEFINE Bad == {n \in Nat : n <= Len(s) /\ ~\E u : PrefixSums(s, n, u)}
<1> SUFFICES ASSUME Bad # {} PROVE FALSE
  BY Zenon
<1>1. PICK n \in Bad : \A m \in Bad : n <= m
  <2>1. Bad \in SUBSET Nat BY Zenon
  <2> HIDE DEF Bad
  <2> QED BY <2>1, LeastNat, Zenon
<1>2. n \in Nat /\ n <= Len(s) /\ ~\E u : PrefixSums(s, n, u)
  BY <1>1, Zenon
<1>3. CASE n = 0
  <2>1. PrefixSums(s, 0, [i \in 0 .. 0 |-> 0])
    BY DEF PrefixSums
  <2> QED BY <1>2, <1>3, <2>1, Zenon
<1>4. CASE n # 0
  <2>1. n - 1 \in Nat /\ n - 1 <= Len(s) /\ ~(n <= n - 1)
    BY <1>2, <1>4
  <2>2. n - 1 \notin Bad
    BY <1>1, <2>1, Zenon
  <2>3. PICK u : PrefixSums(s, n - 1, u)
    BY <2>1, <2>2, Zenon
  <2> DEFINE w == [i \in 0 .. n |-> IF i = n THEN u[n - 1] + s[n] ELSE u[i]]
  <2>4. \A i \in 0 .. n : w[i] = IF i = 0 THEN 0 ELSE w[i - 1] + s[i]
    <3> SUFFICES ASSUME NEW i \in 0 .. n PROVE w[i] = IF i = 0 THEN 0 ELSE w[i - 1] + s[i]
      BY Zenon
    <3>1. CASE i = n
      <4>1. n - 1 \in 0 .. n /\ n - 1 # n BY <1>2, <1>4
      <4> QED BY <1>4, <3>1, <4>1
    <3>2. CASE i = 0
      <4>1. u[0] = 0 BY <2>1, <2>3 DEF PrefixSums
      <4> QED BY <1>4, <3>2, <4>1
    <3>3. CASE i # n /\ i # 0
      <4>1. i \in 0 .. n - 1 /\ i - 1 \in 0 .. n /\ i - 1 # n BY <1>2, <3>3
      <4>2. u[i] = u[i - 1] + s[i] BY <2>3, <3>3, <4>1 DEF PrefixSums
      <4> QED BY <3>3, <4>1, <4>2
    <3> QED BY <3>1, <3>2, <3>3, Zenon
  <2>5. PrefixSums(s, n, w)
    BY <2>4, Zenon DEF PrefixSums
  <2> QED BY <1>2, <2>5, Zenon
<1> QED BY <1>3, <1>4, Zenon

LEMMA PrefixSumsType ==
  \A s \in Seq(Nat) : \A u : PrefixSums(s, Len(s), u) => \A i \in 0 .. Len(s) : u[i] \in Nat
<1> SUFFICES ASSUME NEW s \in Seq(Nat), NEW u, PrefixSums(s, Len(s), u)
             PROVE  \A i \in 0 .. Len(s) : u[i] \in Nat
  BY Zenon
<1>0. Len(s) \in Nat /\ \A i \in 1 .. Len(s) : s[i] \in Nat
  OBVIOUS
<1> DEFINE Bad == {i \in 0 .. Len(s) : u[i] \notin Nat}
<1> SUFFICES ASSUME Bad # {} PROVE FALSE
  BY Zenon
<1>1. PICK n \in Bad : \A m \in Bad : n <= m
  <2>1. Bad \in SUBSET Nat BY <1>0
  <2> HIDE DEF Bad
  <2> QED BY <2>1, LeastNat, Zenon
<1>2. n \in 0 .. Len(s) /\ u[n] \notin Nat
  BY <1>1, Zenon
<1>3. n # 0
  BY <1>2 DEF PrefixSums
<1>4. n \in 1 .. Len(s) /\ n - 1 \in 0 .. Len(s) /\ ~(n <= n - 1)
  BY <1>0, <1>2, <1>3
<1>5. u[n] = u[n - 1] + s[n]
  BY <1>2, <1>3 DEF PrefixSums
<1>6. u[n - 1] \in Nat
  BY <1>1, <1>4, Zenon
<1> QED BY <1>0, <1>2, <1>4, <1>5, <1>6

\* Total is a natural number, 0 for no numbers.
LEMMA TotalType ==
  \A s \in Seq(Nat) : Total(s) \in Nat /\ (Len(s) = 0 => Total(s) = 0)
<1> SUFFICES ASSUME NEW s \in Seq(Nat) PROVE Total(s) \in Nat /\ (Len(s) = 0 => Total(s) = 0)
  BY Zenon
<1> DEFINE u == CHOOSE v : PrefixSums(s, Len(s), v)
<1>0. Len(s) \in Nat /\ Len(s) \in 0 .. Len(s) /\ Len(s) <= Len(s)
  OBVIOUS
<1>1. Total(s) = u[Len(s)]
  BY Zenon DEF Total, PrefixSums
<1>2. \E v : PrefixSums(s, Len(s), v)
  BY <1>0, PrefixSumsExist, Zenon
<1>3. PrefixSums(s, Len(s), u)
  BY <1>2, Zenon
<1> HIDE DEF u
<1>4. u[Len(s)] \in Nat
  BY <1>0, <1>3, PrefixSumsType, Zenon
<1>5. Len(s) = 0 => u[Len(s)] = 0
  BY <1>0, <1>3 DEF PrefixSums
<1> QED BY <1>1, <1>4, <1>5, Zenon

-----------------------------------------------------------------------------
(* The meter connector, for any pipelines and payloads. *)

\* The number of items of a resource and their size are natural numbers, and what has
\* no items has no size: buildMetrics, which leaves out a signal without a count, loses
\* no bytes.
LEMMA MeteredType ==
  \A signal, r : ResourceOK(signal, r) =>
    /\ CountPerResource(signal, r) \in Nat /\ SizePerResource(signal, r) \in Nat
    /\ CountPerResource(signal, r) = 0 => SizePerResource(signal, r) = 0
<1> SUFFICES ASSUME NEW signal, NEW r, ResourceOK(signal, r)
             PROVE  /\ CountPerResource(signal, r) \in Nat /\ SizePerResource(signal, r) \in Nat
                    /\ CountPerResource(signal, r) = 0 => SizePerResource(signal, r) = 0
  BY Zenon
<1>0. Len(r.items) \in Nat /\ DOMAIN r.items = 1 .. Len(r.items)
  BY DEF ResourceOK
<1>1. CASE signal = "metrics"
  <2>1. ASSUME NEW m, MetricOK(m) PROVE MetricCount(m) \in Nat
    <3> DEFINE s == [i \in DOMAIN m.points |-> PointCount(m.type, m.points[i])]
    <3>0. Len(m.points) \in Nat /\ DOMAIN m.points = 1 .. Len(m.points)
      BY <2>1 DEF MetricOK
    <3>1. ASSUME NEW i \in DOMAIN m.points PROVE PointCount(m.type, m.points[i]) \in Nat
      <4>1. \A c : One(c) \in {0, 1} BY Zenon DEF One
      <4>2. CASE m.type \in {"gauge", "sum"} BY <4>2 DEF PointCount
      <4>3. CASE m.type = "histogram"
        <5>1. m.points[i].buckets \in Nat BY <2>1, <3>1, <4>3, Zenon DEF MetricOK
        <5>2. PointCount(m.type, m.points[i]) = m.points[i].buckets + 1 + One(m.points[i].hasSum)
                + One(m.points[i].hasMin) + One(m.points[i].hasMax)
          BY <4>3 DEF PointCount
        <5> QED BY <4>1, <5>1, <5>2
      <4>4. CASE m.type = "summary"
        <5>1. m.points[i].quantiles \in Nat BY <2>1, <3>1, <4>4, Zenon DEF MetricOK
        <5> QED BY <4>4, <5>1 DEF PointCount
      <4>5. CASE m.type = "exponential" BY <4>5 DEF PointCount
      <4> QED BY <2>1, <4>2, <4>3, <4>4, <4>5, Zenon DEF MetricOK
    <3>2. s \in Seq(Nat)
      BY <3>0, <3>1
    <3> HIDE DEF s
    <3>3. Total(s) \in Nat BY <3>2, TotalType, Zenon
    <3> QED BY <3>3 DEF MetricCount, s
  <2> DEFINE s == [i \in DOMAIN r.items |-> MetricCount(r.items[i])]
  <2>2. \A i \in DOMAIN r.items : MetricCount(r.items[i]) \in Nat
    BY <1>1, <2>1, Zenon DEF ResourceOK
  <2>3. s \in Seq(Nat)
    BY <1>0, <2>2
  <2> HIDE DEF s
  <2>4. Total(s) \in Nat BY <2>3, TotalType, Zenon
  <2> QED BY <1>1, <2>4 DEF CountPerResource, SizePerResource, s
<1>2. CASE signal # "metrics"
  <2> DEFINE s == [i \in DOMAIN r.items |-> r.attrsSize + r.items[i]]
  <2>1. \A i \in DOMAIN r.items : r.items[i] \in Nat
    BY <1>2, Zenon DEF ResourceOK
  <2>2. s \in Seq(Nat) /\ Len(s) = Len(r.items)
    BY <1>0, <2>1 DEF ResourceOK
  <2> HIDE DEF s
  <2>3. Total(s) \in Nat /\ (Len(r.items) = 0 => Total(s) = 0) BY <2>2, TotalType, Zenon
  <2> QED BY <1>0, <1>2, <2>3, Zenon DEF CountPerResource, SizePerResource, s
<1> QED BY <1>1, <1>2, Zenon

-----------------------------------------------------------------------------
Part == {"count", "size"}
Metered == [Signal -> [count : Nat, size : Nat]]
MeterOK(m) == \A d \in DOMAIN m : m[d] \in Metered
Sized(m) == \A d \in DOMAIN m : \A s \in Signal : m[d][s].count = 0 => m[d][s].size = 0

\* One number of a map of sums.
Sum(m, d, s, x) == MeterAt(m, d)[s][x]

\* What a resource with c items of z bytes adds to it.
Added(e, sig, c, z, d, s, x) == IF d = e /\ s = sig THEN [count |-> c, size |-> z][x] ELSE 0

Nothing(m) == \A d : \A s \in Signal : \A x \in Part : Sum(m, d, s, x) = 0

LEMMA MeterAtType == \A m, d : MeterOK(m) => MeterAt(m, d) \in Metered
BY DEF MeterOK, MeterAt, NoMeter, Metered

LEMMA SumType ==
  \A m, d : \A s \in Signal, x \in Part : MeterOK(m) => Sum(m, d, s, x) \in Nat
<1> SUFFICES ASSUME NEW m, NEW d, NEW s \in Signal, NEW x \in Part, MeterOK(m) PROVE Sum(m, d, s, x) \in Nat
  BY Zenon
<1>1. MeterAt(m, d) \in Metered BY MeterAtType, Zenon
<1> QED BY <1>1 DEF Sum, Metered, Part

LEMMA SumPlus ==
  \A m, n : MeterOK(m) /\ MeterOK(n) =>
    /\ MeterOK(MeterPlus(m, n))
    /\ \A d : \A s \in Signal, x \in Part : Sum(MeterPlus(m, n), d, s, x) = Sum(m, d, s, x) + Sum(n, d, s, x)
<1> SUFFICES ASSUME NEW m, NEW n, MeterOK(m), MeterOK(n)
             PROVE  /\ MeterOK(MeterPlus(m, n))
                    /\ \A d : \A s \in Signal, x \in Part :
                         Sum(MeterPlus(m, n), d, s, x) = Sum(m, d, s, x) + Sum(n, d, s, x)
  BY Zenon
<1> DEFINE Both(d, s) == [count |-> MeterAt(m, d)[s].count + MeterAt(n, d)[s].count,
                          size  |-> MeterAt(m, d)[s].size + MeterAt(n, d)[s].size]
<1>1. \A d : \A s \in Signal : Both(d, s) \in [count : Nat, size : Nat]
  <2> SUFFICES ASSUME NEW d, NEW s \in Signal PROVE Both(d, s) \in [count : Nat, size : Nat]
    BY Zenon
  <2>1. MeterAt(m, d) \in Metered /\ MeterAt(n, d) \in Metered BY MeterAtType, Zenon
  <2> QED BY <2>1 DEF Metered
<1>2. \A d : \A s \in Signal, x \in Part : Both(d, s)[x] = Sum(m, d, s, x) + Sum(n, d, s, x)
  BY DEF Part, Sum
<1> HIDE DEF Both
<1>3. MeterPlus(m, n) = [d \in DOMAIN m \cup DOMAIN n |-> [s \in Signal |-> Both(d, s)]]
  BY Zenon DEF MeterPlus, Both
<1>4. MeterOK(MeterPlus(m, n))
  BY <1>1, <1>3 DEF MeterOK, Metered
<1>5. ASSUME NEW d, NEW s \in Signal, NEW x \in Part
      PROVE  Sum(MeterPlus(m, n), d, s, x) = Sum(m, d, s, x) + Sum(n, d, s, x)
  <2>1. CASE d \in DOMAIN m \cup DOMAIN n
    <3>1. MeterAt(MeterPlus(m, n), d)[s] = Both(d, s)
      BY <1>3, <2>1 DEF MeterAt
    <3> QED BY <1>2, <3>1, Zenon DEF Sum
  <2>2. CASE d \notin DOMAIN m \cup DOMAIN n
    <3>1. MeterAt(MeterPlus(m, n), d) = NoMeter /\ MeterAt(m, d) = NoMeter /\ MeterAt(n, d) = NoMeter
      BY <1>3, <2>2 DEF MeterAt
    <3>2. NoMeter[s][x] = 0 BY DEF NoMeter, Part
    <3> QED BY <3>1, <3>2 DEF Sum
  <2> QED BY <2>1, <2>2, Zenon
<1> QED BY <1>4, <1>5, Zenon

\* n holds what a and b hold.
Joins(n, a, b) ==
  MeterOK(n) /\ \A d : \A s \in Signal, x \in Part : Sum(n, d, s, x) = Sum(a, d, s, x) + Sum(b, d, s, x)

LEMMA PlusJoins == \A m, n : MeterOK(m) /\ MeterOK(n) => Joins(MeterPlus(m, n), m, n)
  BY SumPlus, Zenon DEF Joins

LEMMA SumUpdate ==
  \A m, e : \A sig \in Signal : \A c, z \in Nat : MeterOK(m) =>
    /\ MeterOK(UpdateMeterMetrics(m, e, sig, c, z))
    /\ \A d : \A s \in Signal, x \in Part :
         Sum(UpdateMeterMetrics(m, e, sig, c, z), d, s, x) =
           Sum(m, d, s, x) + Added(e, sig, c, z, d, s, x)
<1> SUFFICES ASSUME NEW m, NEW e, NEW sig \in Signal, NEW c \in Nat, NEW z \in Nat, MeterOK(m)
             PROVE  /\ MeterOK(UpdateMeterMetrics(m, e, sig, c, z))
                    /\ \A d : \A s \in Signal, x \in Part :
                         Sum(UpdateMeterMetrics(m, e, sig, c, z), d, s, x) =
                           Sum(m, d, s, x) + Added(e, sig, c, z, d, s, x)
  BY Zenon
<1>0. MeterAt(m, e) \in Metered BY MeterAtType, Zenon
<1> DEFINE cell == [count |-> MeterAt(m, e)[sig].count + c, size |-> MeterAt(m, e)[sig].size + z]
           row == [MeterAt(m, e) EXCEPT ![sig] = cell]
<1>1. /\ cell \in [count : Nat, size : Nat]
      /\ \A x \in Part : cell[x] = Sum(m, e, sig, x) + [count |-> c, size |-> z][x]
  BY <1>0 DEF Metered, Part, Sum
<1>2. UpdateMeterMetrics(m, e, sig, c, z) = [d \in DOMAIN m \cup {e} |-> IF d = e THEN row ELSE m[d]]
  BY DEF UpdateMeterMetrics
<1> HIDE DEF cell
<1>3. row \in Metered /\ row[sig] = cell /\ \A s \in Signal \ {sig} : row[s] = MeterAt(m, e)[s]
  BY <1>0, <1>1 DEF Metered
<1> HIDE DEF row
<1>4. MeterOK(UpdateMeterMetrics(m, e, sig, c, z))
  BY <1>2, <1>3 DEF MeterOK
<1>5. ASSUME NEW d, NEW s \in Signal, NEW x \in Part
      PROVE  Sum(UpdateMeterMetrics(m, e, sig, c, z), d, s, x) =
               Sum(m, d, s, x) + Added(e, sig, c, z, d, s, x)
  <2>0. Sum(m, d, s, x) \in Nat BY SumType, Zenon
  <2>1. CASE d = e
    <3>1. MeterAt(UpdateMeterMetrics(m, e, sig, c, z), d) = row BY <1>2, <2>1, Zenon DEF MeterAt
    <3>2. CASE s = sig
      <4>1. Sum(UpdateMeterMetrics(m, e, sig, c, z), d, s, x) = cell[x] BY <1>3, <3>1, <3>2, Zenon DEF Sum
      <4>2. Added(e, sig, c, z, d, s, x) = [count |-> c, size |-> z][x] BY <2>1, <3>2, Zenon DEF Added
      <4> QED BY <1>1, <2>1, <3>2, <4>1, <4>2, Zenon
    <3>3. CASE s # sig
      <4>1. Sum(UpdateMeterMetrics(m, e, sig, c, z), d, s, x) = Sum(m, d, s, x)
        BY <1>3, <2>1, <3>1, <3>3, Zenon DEF Sum
      <4> QED BY <2>0, <3>3, <4>1 DEF Added
    <3> QED BY <3>2, <3>3, Zenon
  <2>2. CASE d # e
    <3>1. MeterAt(UpdateMeterMetrics(m, e, sig, c, z), d) = MeterAt(m, d) BY <1>2, <2>2 DEF MeterAt
    <3> QED BY <2>0, <2>2, <3>1 DEF Sum, Added
  <2> QED BY <2>1, <2>2, Zenon
<1> QED BY <1>4, <1>5, Zenon

LEMMA SumBuild ==
  \A m : MeterOK(m) /\ Sized(m) =>
    /\ MeterOK(buildMetrics(m))
    /\ \A d : \A s \in Signal, x \in Part : Sum(buildMetrics(m), d, s, x) = Sum(m, d, s, x)
<1> SUFFICES ASSUME NEW m, MeterOK(m), Sized(m)
             PROVE  /\ MeterOK(buildMetrics(m))
                    /\ \A d : \A s \in Signal, x \in Part : Sum(buildMetrics(m), d, s, x) = Sum(m, d, s, x)
  BY Zenon
<1>1. ASSUME NEW d \in DOMAIN m PROVE buildMetrics(m)[d] = m[d]
  <2>1. m[d] \in Metered BY <1>1, Zenon DEF MeterOK
  <2>2. ASSUME NEW s \in Signal PROVE (IF m[d][s].count = 0 THEN NoMeter[s] ELSE m[d][s]) = m[d][s]
    <3>1. CASE m[d][s].count = 0
      <4>1. m[d][s].size = 0 BY <1>1, <3>1, Zenon DEF Sized
      <4>2. m[d][s] \in [count : Nat, size : Nat] BY <2>1 DEF Metered
      <4>3. m[d][s] = [count |-> 0, size |-> 0] BY <3>1, <4>1, <4>2
      <4> QED BY <3>1, <4>3 DEF NoMeter
    <3> QED BY <3>1, Zenon
  <2>3. m[d] = [s \in Signal |-> m[d][s]] BY <2>1 DEF Metered
  <2>4. buildMetrics(m)[d] = [s \in Signal |-> IF m[d][s].count = 0 THEN NoMeter[s] ELSE m[d][s]]
    BY <1>1, Zenon DEF buildMetrics
  <2> QED BY <2>2, <2>3, <2>4
<1>2. DOMAIN buildMetrics(m) = DOMAIN m BY Zenon DEF buildMetrics
<1>3. \A d : MeterAt(buildMetrics(m), d) = MeterAt(m, d) BY <1>1, <1>2, Zenon DEF MeterAt
<1>4. MeterOK(buildMetrics(m)) BY <1>1, <1>2, Zenon DEF MeterOK
<1> QED BY <1>3, <1>4, Zenon DEF Sum

\* What is built has no data points only if there is nothing in the sums.
LEMMA NoDataPoints ==
  \A m : /\ MeterOK(m) /\ Sized(m) /\ IsFiniteSet(DOMAIN m) /\ DataPointCount(buildMetrics(m)) = 0
         => Nothing(buildMetrics(m))
<1> SUFFICES ASSUME NEW m, MeterOK(m), Sized(m), IsFiniteSet(DOMAIN m), DataPointCount(buildMetrics(m)) = 0,
                    NEW d, NEW s \in Signal, NEW x \in Part
             PROVE  Sum(buildMetrics(m), d, s, x) = 0
  BY Zenon DEF Nothing
<1> DEFINE b == buildMetrics(m)
           points == {c \in (DOMAIN b) \X Signal : b[c[1]][c[2]].count # 0}
<1>1. points = {}
  <2>1. DOMAIN b = DOMAIN m BY Zenon DEF buildMetrics
  <2>2. IsFiniteSet(Signal)
    <3>1. IsFiniteSet({"logs"}) BY FS_Singleton, Zenon
    <3>2. IsFiniteSet({"traces"}) BY FS_Singleton, Zenon
    <3>3. IsFiniteSet({"metrics"}) BY FS_Singleton, Zenon
    <3>4. IsFiniteSet(({"logs"} \cup {"traces"}) \cup {"metrics"}) BY <3>1, <3>2, <3>3, FS_Union, Zenon
    <3>5. Signal = ({"logs"} \cup {"traces"}) \cup {"metrics"} BY Zenon DEF Signal
    <3> QED BY <3>4, <3>5, Zenon
  <2>3. IsFiniteSet((DOMAIN b) \X Signal) BY <2>1, <2>2, FS_Product, Zenon
  <2>4. points \in SUBSET ((DOMAIN b) \X Signal) BY Zenon
  <2>5. Cardinality(points) = 0 BY Zenon DEF DataPointCount
  <2> HIDE DEF points
  <2>6. IsFiniteSet(points) BY <2>3, <2>4, FS_Subset, Zenon
  <2> QED BY <2>5, <2>6, FS_EmptySet, Zenon
<1>2. CASE d \in DOMAIN b
  <2>1. <<d, s>> \notin points BY <1>1, Zenon
  <2>2. b[d][s].count = 0 BY <1>2, <2>1
  <2>3. b[d][s] = [count |-> 0, size |-> 0]
    <3>1. m[d][s].count = 0 => b[d][s] = NoMeter[s] BY <1>2, Zenon DEF buildMetrics
    <3>2. m[d][s].count # 0 => b[d][s] = m[d][s] BY <1>2, Zenon DEF buildMetrics
    <3> QED BY <2>2, <3>1, <3>2, Zenon DEF NoMeter
  <2> QED BY <1>2, <2>3 DEF Sum, MeterAt, Part
<1>3. CASE d \notin DOMAIN b
  BY <1>3 DEF Sum, MeterAt, NoMeter, Part
<1> QED BY <1>2, <1>3, Zenon

LEMMA UnmeteredHoldsNothing ==
  MeterOK(Unmetered) /\ Sized(Unmetered) /\ Nothing(Unmetered) /\ IsFiniteSet(DOMAIN Unmetered)
<1>1. DOMAIN Unmetered = {} BY Zenon DEF Unmetered
<1>2. Nothing(Unmetered) BY <1>1 DEF Nothing, Sum, MeterAt, NoMeter, Part
<1> QED BY <1>1, <1>2, FS_EmptySet, Zenon DEF MeterOK, Sized

-----------------------------------------------------------------------------
(* The connector *)

\* What was observed is in the sums, in the export of the ticker, in that of Shutdown,
\* delivered or undelivered; an export moves it without changing the total.
Splits(o, m, t, h, y, n) ==
  m \in Nat /\ t \in Nat /\ h \in Nat /\ y \in Nat /\ n \in Nat /\ o = m + t + h + y + n

LEMMA SplitsOn ==
  \A o, m, t, h, y, n : Splits(o, m, t, h, y, n) =>
    /\ t = 0 => Splits(o, 0, m, h, y, n)
    /\ h = 0 => Splits(o, 0, t, m, y, n)
    /\ Splits(o, m, 0, h, y + t, n) /\ Splits(o, m, 0, h, y, n + t)
    /\ Splits(o, m, t, 0, y + h, n) /\ Splits(o, m, t, 0, y, n + h)
BY DEF Splits

\* The same total, added up as MeterConserved does.
Adds(o, m, t, h, y, n) == o = (m + (t + h)) + (y + n)

LEMMA SplitsTotal == \A o, m, t, h, y, n : Splits(o, m, t, h, y, n) => Adds(o, m, t, h, y, n)
BY DEF Splits, Adds

\* Everything observed is in one place.
Balanced ==
  \A d : \A s \in Signal, x \in Part :
    Sum(observed, d, s, x) =
      Sum(meterMetrics, d, s, x) + Sum(building["ticker"], d, s, x) + Sum(building["shutdown"], d, s, x)
      + Sum(delivered, d, s, x) + Sum(undelivered, d, s, x)

SumsOK ==
  /\ MeterOK(meterMetrics) /\ MeterOK(building["ticker"]) /\ MeterOK(building["shutdown"])
  /\ MeterOK(observed) /\ MeterOK(delivered) /\ MeterOK(undelivered)
  /\ Sized(meterMetrics) /\ IsFiniteSet(DOMAIN meterMetrics)
  /\ building = [e \in MeterExporter |-> building[e]]

CallsOK ==
  /\ payload \in [MeterPipeline -> Telemetry \cup {NoPayload}] /\ resource \in [MeterPipeline -> Nat]
  /\ \A p \in MeterPipeline :
       IF payload[p] = NoPayload THEN resource[p] = 1
       ELSE payload[p] \in Telemetry /\ resource[p] \in 1 .. Len(payload[p].resources)
  /\ consumed \in 0 .. MaxPayloads

\* What was built and is not being sent was empty; Shutdown finds the pipelines
\* stopped, and leaves no sums for anybody to send after it.
StopOK ==
  /\ meterPc \in [MeterExporter -> {"idle", "select", "sending", "signalDone", "returned"}]
  /\ meterStarted \in BOOLEAN
  /\ \A e \in MeterExporter : meterPc[e] # "sending" => Nothing(building[e])
  /\ meterPc["shutdown"] # "idle" \/ ~meterStarted =>
       Nothing(meterMetrics) /\ \A p \in MeterPipeline : payload[p] = NoPayload
  /\ ~meterStarted => meterPc["ticker"] \in {"idle", "returned"}
  /\ meterPc["shutdown"] = "returned" => ~meterStarted

MeterIInv == SumsOK /\ CallsOK /\ StopOK /\ Balanced

LEMMA MeterIInvInit == MeterInit => MeterIInv
<1> SUFFICES ASSUME MeterInit PROVE MeterIInv
  BY Zenon
<1>0. /\ MeterOK(Unmetered) /\ Sized(Unmetered) /\ Nothing(Unmetered) /\ IsFiniteSet(DOMAIN Unmetered)
  BY UnmeteredHoldsNothing, Zenon
<1>1. building = [e \in MeterExporter |-> building[e]] /\ \A e \in MeterExporter : building[e] = Unmetered
  BY DEF MeterInit
<1>2. SumsOK
  BY <1>0, <1>1, Zenon DEF MeterInit, SumsOK, MeterExporter
<1>3. CallsOK
  BY MeterAssumption DEF MeterInit, CallsOK
<1>4. StopOK
  <2>1. Nothing(meterMetrics) /\ \A e \in MeterExporter : Nothing(building[e])
    BY <1>0, <1>1, Zenon DEF MeterInit
  <2>2. /\ meterPc \in [MeterExporter -> {"idle", "select", "sending", "signalDone", "returned"}]
        /\ meterPc["shutdown"] = "idle" /\ meterPc["ticker"] = "idle"
    <3>1. meterPc = [e \in MeterExporter |-> "idle"] BY Zenon DEF MeterInit
    <3> QED BY <3>1 DEF MeterExporter
  <2>3. /\ \A p \in MeterPipeline : payload[p] = NoPayload
        /\ ~meterStarted /\ meterStarted \in BOOLEAN
    BY Zenon DEF MeterInit
  <2> QED BY <2>1, <2>2, <2>3, Zenon DEF StopOK
<1>5. Balanced
  BY <1>0, <1>1 DEF MeterInit, Balanced, Nothing, MeterExporter
<1> QED BY <1>2, <1>3, <1>4, <1>5, Zenon DEF MeterIInv

\* A step that leaves the sums alone keeps them.
LEMMA SumsUnchanged ==
  /\ SumsOK /\ Balanced /\ UNCHANGED <<meterMetrics, building, observed, delivered, undelivered>>
  => SumsOK' /\ Balanced'
BY Zenon DEF SumsOK, Balanced

LEMMA StartMeterStep == MeterIInv /\ StartMeter => MeterIInv'
<1> SUFFICES ASSUME MeterIInv, StartMeter PROVE MeterIInv'
  BY Zenon
<1>1. SumsOK' /\ Balanced' BY SumsUnchanged, Zenon DEF MeterIInv, StartMeter
<1>2. CallsOK' BY Zenon DEF MeterIInv, StartMeter, CallsOK
<1>3. StopOK' BY DEF MeterIInv, StartMeter, StopOK, MeterExporter
<1> QED BY <1>1, <1>2, <1>3, Zenon DEF MeterIInv

LEMMA ConsumeTelemetryStep ==
  \A p \in MeterPipeline, t \in Telemetry : MeterIInv /\ ConsumeTelemetry(p, t) => MeterIInv'
<1> SUFFICES ASSUME NEW p \in MeterPipeline, NEW t \in Telemetry, MeterIInv, ConsumeTelemetry(p, t)
             PROVE  MeterIInv'
  BY Zenon
<1>1. SumsOK' /\ Balanced' BY SumsUnchanged, Zenon DEF MeterIInv, ConsumeTelemetry
<1>2. CallsOK'
  <2>1. Len(t.resources) \in Nat BY MeterAssumption
  <2>2. /\ payload' = [payload EXCEPT ![p] = IF Len(t.resources) = 0 THEN NoPayload ELSE t]
        /\ resource' = [resource EXCEPT ![p] = 1] /\ consumed < MaxPayloads /\ consumed' = consumed + 1
    BY Zenon DEF ConsumeTelemetry
  <2>3. payload' \in [MeterPipeline -> Telemetry \cup {NoPayload}] /\ resource' \in [MeterPipeline -> Nat]
    BY <2>2 DEF MeterIInv, CallsOK
  <2>4. consumed' \in 0 .. MaxPayloads
    BY <2>2, MeterAssumption DEF MeterIInv, CallsOK
  <2>5. ASSUME NEW q \in MeterPipeline
        PROVE  IF payload'[q] = NoPayload THEN resource'[q] = 1
               ELSE payload'[q] \in Telemetry /\ resource'[q] \in 1 .. Len(payload'[q].resources)
    <3>1. CASE q = p
      <4>1. resource'[p] = 1 /\ payload'[p] = IF Len(t.resources) = 0 THEN NoPayload ELSE t
        BY <2>2 DEF MeterIInv, CallsOK
      <4>2. Len(t.resources) # 0 => 1 \in 1 .. Len(t.resources) BY <2>1
      <4> QED BY <3>1, <4>1, <4>2, Zenon
    <3>2. CASE q # p
      <4>1. resource'[q] = resource[q] /\ payload'[q] = payload[q]
        BY <2>2, <3>2 DEF MeterIInv, CallsOK
      <4> QED BY <4>1, Zenon DEF MeterIInv, CallsOK
    <3> QED BY <3>1, <3>2, Zenon
  <2> QED BY <2>3, <2>4, <2>5, Zenon DEF CallsOK
<1>3. StopOK' BY Zenon DEF MeterIInv, ConsumeTelemetry, StopOK
<1> QED BY <1>1, <1>2, <1>3, Zenon DEF MeterIInv

LEMMA AggregateResourceStep ==
  \A p \in MeterPipeline : MeterIInv /\ AggregateResource(p) => MeterIInv'
<1> SUFFICES ASSUME NEW p \in MeterPipeline, MeterIInv, AggregateResource(p)
             PROVE  MeterIInv'
  BY Zenon
<1> DEFINE t == payload[p]
           r == t.resources[resource[p]]
           e == buildDimensionsMapFromResourceAttributes(r.attrs)
           signal == t.signal
           c == CountPerResource(signal, r)
           z == SizePerResource(signal, r)
           Add(m) == UpdateMeterMetrics(m, e, signal, c, z)
<1>1. payload[p] # NoPayload /\ meterMetrics' = Add(meterMetrics) /\ observed' = Add(observed)
  BY Zenon DEF AggregateResource
<1>2. UNCHANGED <<building, meterPc, meterStarted, consumed, delivered, undelivered>>
  BY Zenon DEF AggregateResource
<1>3. /\ payload[p] \in Telemetry /\ resource[p] \in 1 .. Len(payload[p].resources)
      /\ Len(payload[p].resources) \in Nat
  <2>1. payload[p] \in Telemetry /\ resource[p] \in 1 .. Len(payload[p].resources)
    BY <1>1, Zenon DEF MeterIInv, CallsOK
  <2> QED BY <2>1, MeterAssumption
<1>4. CallsOK'
  <2>0. payload \in [MeterPipeline -> Telemetry \cup {NoPayload}] /\ resource \in [MeterPipeline -> Nat]
    BY Zenon DEF MeterIInv, CallsOK
  <2>1. \/ /\ payload' = [payload EXCEPT ![p] = NoPayload] /\ resource' = [resource EXCEPT ![p] = 1]
        \/ /\ resource[p] # Len(payload[p].resources)
           /\ payload' = payload /\ resource' = [resource EXCEPT ![p] = resource[p] + 1]
    BY Zenon DEF AggregateResource
  <2>2. resource[p] # Len(payload[p].resources) => resource[p] + 1 \in 1 .. Len(payload[p].resources)
    BY <1>3
  <2>3. payload' \in [MeterPipeline -> Telemetry \cup {NoPayload}] /\ resource' \in [MeterPipeline -> Nat]
    BY <2>0, <2>1
  <2>4. ASSUME NEW q \in MeterPipeline
        PROVE  IF payload'[q] = NoPayload THEN resource'[q] = 1
               ELSE payload'[q] \in Telemetry /\ resource'[q] \in 1 .. Len(payload'[q].resources)
    <3>1. CASE q = p
      <4>1. \/ payload'[p] = NoPayload /\ resource'[p] = 1
            \/ /\ resource[p] # Len(payload[p].resources)
               /\ payload'[p] = payload[p] /\ resource'[p] = resource[p] + 1
        BY <2>0, <2>1
      <4> QED BY <1>1, <1>3, <2>2, <3>1, <4>1, Zenon
    <3>2. CASE q # p
      <4>1. resource'[q] = resource[q] /\ payload'[q] = payload[q]
        BY <2>0, <2>1, <3>2
      <4> QED BY <4>1, Zenon DEF MeterIInv, CallsOK
    <3> QED BY <3>1, <3>2, Zenon
  <2> QED BY <1>2, <2>3, <2>4, Zenon DEF MeterIInv, CallsOK
<1>5. signal \in Signal /\ c \in Nat /\ z \in Nat /\ (c = 0 => z = 0)
  <2>1. signal \in Signal /\ ResourceOK(signal, r)
    <3>1. DOMAIN payload[p].resources = 1 .. Len(payload[p].resources)
      BY <1>3, MeterAssumption
    <3> QED BY <1>3, <3>1, MeterAssumption, Zenon
  <2> HIDE DEF signal, r
  <2> QED BY <2>1, MeteredType, Zenon
<1> HIDE DEF r, e, signal, c, z
<1>6. ASSUME NEW m, MeterOK(m)
      PROVE  /\ MeterOK(Add(m))
             /\ \A d : \A s \in Signal, x \in Part :
                  Sum(Add(m), d, s, x) =
                    Sum(m, d, s, x) + Added(e, signal, c, z, d, s, x)
  <2>1. MeterOK(Add(m)) BY <1>5, <1>6, SumUpdate, Zenon
  <2>2. ASSUME NEW d, NEW s \in Signal, NEW x \in Part
        PROVE  Sum(Add(m), d, s, x) = Sum(m, d, s, x) + Added(e, signal, c, z, d, s, x)
    BY <1>5, <1>6, <2>2, SumUpdate
  <2> QED BY <2>1, <2>2, Zenon
<1>7. MeterOK(meterMetrics) /\ MeterOK(observed) BY Zenon DEF MeterIInv, SumsOK
<1>8. SumsOK'
  <2>1. MeterOK(meterMetrics') /\ MeterOK(observed') BY <1>1, <1>6, <1>7, Zenon
  <2>2. DOMAIN meterMetrics' = DOMAIN meterMetrics \cup {e} BY <1>1, Zenon DEF UpdateMeterMetrics
  <2>3. IsFiniteSet(DOMAIN meterMetrics') BY <2>2, FS_AddElement, Zenon DEF MeterIInv, SumsOK
  <2>4. Sized(meterMetrics')
    <3> SUFFICES ASSUME NEW d \in DOMAIN meterMetrics', NEW s \in Signal, meterMetrics'[d][s].count = 0
                 PROVE  meterMetrics'[d][s].size = 0
      BY Zenon DEF Sized
    <3>1. /\ Sum(meterMetrics', d, s, "count") = 0
          /\ Sum(meterMetrics', d, s, "size") = meterMetrics'[d][s].size
      BY DEF Sum, MeterAt
    <3>2. /\ Sum(meterMetrics, d, s, "count") \in Nat /\ Sum(meterMetrics, d, s, "size") \in Nat
      BY <1>7, SumType, Zenon DEF Part
    <3>3. Sum(meterMetrics, d, s, "count") = 0 => Sum(meterMetrics, d, s, "size") = 0
      <4>1. CASE d \in DOMAIN meterMetrics
        BY <4>1 DEF MeterIInv, SumsOK, Sized, Sum, MeterAt
      <4>2. CASE d \notin DOMAIN meterMetrics
        BY <4>2 DEF Sum, MeterAt, NoMeter
      <4> QED BY <4>1, <4>2, Zenon
    <3>4. CASE d = e /\ s = signal
      <4>1. /\ Sum(meterMetrics', d, s, "count") = Sum(meterMetrics, d, s, "count") + c
            /\ Sum(meterMetrics', d, s, "size") = Sum(meterMetrics, d, s, "size") + z
        BY <1>1, <1>6, <1>7, <3>4 DEF Part, Added
      <4>2. Sum(meterMetrics, d, s, "count") = 0 /\ c = 0
        BY <1>5, <3>1, <3>2, <4>1
      <4>3. Sum(meterMetrics, d, s, "size") = 0 /\ z = 0
        BY <1>5, <3>3, <4>2, Zenon
      <4> QED BY <3>1, <4>1, <4>3
    <3>5. CASE ~(d = e /\ s = signal)
      <4>1. /\ Sum(meterMetrics', d, s, "count") = Sum(meterMetrics, d, s, "count") + 0
            /\ Sum(meterMetrics', d, s, "size") = Sum(meterMetrics, d, s, "size") + 0
        BY <1>1, <1>6, <1>7, <3>5 DEF Part, Added
      <4> QED BY <3>1, <3>2, <3>3, <4>1
    <3> QED BY <3>4, <3>5, Zenon
  <2> QED BY <1>2, <2>1, <2>3, <2>4, Zenon DEF MeterIInv, SumsOK
<1>9. Balanced'
  <2> SUFFICES ASSUME NEW d, NEW s \in Signal, NEW x \in Part
               PROVE  Sum(observed', d, s, x) =
                        Sum(meterMetrics', d, s, x) + Sum(building["ticker"], d, s, x)
                        + Sum(building["shutdown"], d, s, x) + Sum(delivered, d, s, x) + Sum(undelivered, d, s, x)
    BY <1>2, Zenon DEF Balanced
  <2> DEFINE more == Added(e, signal, c, z, d, s, x)
  <2>1. more \in Nat BY <1>5 DEF Part, Added
  <2>2. /\ Sum(observed', d, s, x) = Sum(observed, d, s, x) + more
        /\ Sum(meterMetrics', d, s, x) = Sum(meterMetrics, d, s, x) + more
    BY <1>1, <1>6, <1>7, Zenon
  <2> HIDE DEF more
  <2>3. Sum(observed, d, s, x) =
          Sum(meterMetrics, d, s, x) + Sum(building["ticker"], d, s, x) + Sum(building["shutdown"], d, s, x)
          + Sum(delivered, d, s, x) + Sum(undelivered, d, s, x)
    BY Zenon DEF MeterIInv, Balanced
  <2>4. /\ Sum(meterMetrics, d, s, x) \in Nat /\ Sum(building["ticker"], d, s, x) \in Nat
        /\ Sum(building["shutdown"], d, s, x) \in Nat
        /\ Sum(delivered, d, s, x) \in Nat /\ Sum(undelivered, d, s, x) \in Nat
    BY SumType, Zenon DEF MeterIInv, SumsOK
  <2> QED BY <2>1, <2>2, <2>3, <2>4
<1>10. StopOK'
  <2>1. meterPc["shutdown"] = "idle" /\ meterStarted
    BY <1>1, Zenon DEF MeterIInv, StopOK
  <2> QED BY <1>2, <2>1, Zenon DEF MeterIInv, StopOK
<1> QED BY <1>4, <1>8, <1>9, <1>10, Zenon DEF MeterIInv

\* The sums become what the exporter has built.
LEMMA ExportBuiltSums ==
  \A e \in MeterExporter :
    /\ SumsOK /\ Balanced /\ Nothing(building[e]) /\ ExportBuilt(e)
    /\ UNCHANGED <<observed, delivered, undelivered>>
    => /\ SumsOK' /\ Balanced' /\ Nothing(meterMetrics')
       /\ \A o \in MeterExporter \ {e} : building'[o] = building[o]
       /\ DataPointCount(buildMetrics(meterMetrics)) = 0 => Nothing(building'[e])
<1> SUFFICES ASSUME NEW e \in MeterExporter, SumsOK, Balanced, Nothing(building[e]), ExportBuilt(e),
                    UNCHANGED <<observed, delivered, undelivered>>
             PROVE  /\ SumsOK' /\ Balanced' /\ Nothing(meterMetrics')
                    /\ \A o \in MeterExporter \ {e} : building'[o] = building[o]
                    /\ DataPointCount(buildMetrics(meterMetrics)) = 0 => Nothing(building'[e])
  BY Zenon
<1>1. meterMetrics' = Unmetered /\ building' = [building EXCEPT ![e] = buildMetrics(meterMetrics)]
  BY Zenon DEF ExportBuilt, exportMetrics
<1>2. building = [o \in MeterExporter |-> building[o]] BY Zenon DEF SumsOK
<1>3. /\ building'[e] = buildMetrics(meterMetrics) /\ building' = [o \in MeterExporter |-> building'[o]]
      /\ \A o \in MeterExporter \ {e} : building'[o] = building[o]
  BY <1>1, <1>2
<1>4. /\ MeterOK(Unmetered) /\ Sized(Unmetered) /\ Nothing(Unmetered) /\ IsFiniteSet(DOMAIN Unmetered)
  BY UnmeteredHoldsNothing, Zenon
<1>5. MeterOK(meterMetrics) /\ Sized(meterMetrics) /\ IsFiniteSet(DOMAIN meterMetrics) BY Zenon DEF SumsOK
<1>6. /\ MeterOK(building'[e])
      /\ \A d : \A s \in Signal, x \in Part : Sum(building'[e], d, s, x) = Sum(meterMetrics, d, s, x)
  BY <1>3, <1>5, SumBuild, Zenon
<1>7. \A o \in MeterExporter : MeterOK(building'[o])
  BY <1>3, <1>6, Zenon DEF SumsOK, MeterExporter
<1>8. SumsOK'
  BY <1>1, <1>3, <1>4, <1>7, Zenon DEF SumsOK, MeterExporter
<1>9. Balanced'
  <2> SUFFICES ASSUME NEW d, NEW s \in Signal, NEW x \in Part
               PROVE  Splits(Sum(observed, d, s, x), Sum(meterMetrics', d, s, x), Sum(building'["ticker"], d, s, x),
                        Sum(building'["shutdown"], d, s, x), Sum(delivered, d, s, x), Sum(undelivered, d, s, x))
    BY Zenon DEF Balanced, Splits
  <2>1. Splits(Sum(observed, d, s, x), Sum(meterMetrics, d, s, x), Sum(building["ticker"], d, s, x),
          Sum(building["shutdown"], d, s, x), Sum(delivered, d, s, x), Sum(undelivered, d, s, x))
    BY SumType, Zenon DEF SumsOK, Balanced, Splits
  <2>2. Sum(meterMetrics', d, s, x) = 0 /\ Sum(building[e], d, s, x) = 0
    BY <1>1, <1>4, Zenon DEF Nothing
  <2>3. Sum(building'[e], d, s, x) = Sum(meterMetrics, d, s, x) BY <1>6, Zenon
  <2>4. CASE e = "ticker"
    <3>1. building'["shutdown"] = building["shutdown"] BY <1>3, <2>4 DEF MeterExporter
    <3>2. Splits(Sum(observed, d, s, x), 0, Sum(meterMetrics, d, s, x),
            Sum(building["shutdown"], d, s, x), Sum(delivered, d, s, x), Sum(undelivered, d, s, x))
      <4>1. Sum(building["ticker"], d, s, x) = 0 BY <2>2, <2>4, Zenon
      <4> QED BY <2>1, <4>1, SplitsOn, Zenon
    <3> QED BY <2>2, <2>3, <2>4, <3>1, <3>2, Zenon
  <2>5. CASE e = "shutdown"
    <3>1. building'["ticker"] = building["ticker"] BY <1>3, <2>5 DEF MeterExporter
    <3>2. Splits(Sum(observed, d, s, x), 0, Sum(building["ticker"], d, s, x),
            Sum(meterMetrics, d, s, x), Sum(delivered, d, s, x), Sum(undelivered, d, s, x))
      <4>1. Sum(building["shutdown"], d, s, x) = 0 BY <2>2, <2>5, Zenon
      <4> QED BY <2>1, <4>1, SplitsOn, Zenon
    <3> QED BY <2>2, <2>3, <2>5, <3>1, <3>2, Zenon
  <2> QED BY <2>4, <2>5, Zenon DEF MeterExporter
<1>10. DataPointCount(buildMetrics(meterMetrics)) = 0 => Nothing(building'[e])
  BY <1>3, <1>5, NoDataPoints, Zenon
<1> QED BY <1>1, <1>3, <1>4, <1>8, <1>9, <1>10, Zenon

LEMMA TickMeterStep == MeterIInv /\ TickMeter => MeterIInv'
<1> SUFFICES ASSUME MeterIInv, TickMeter PROVE MeterIInv'
  BY Zenon
<1>1. /\ meterPc["ticker"] = "select" /\ ExportBuilt("ticker")
      /\ UNCHANGED <<payload, resource, meterStarted, consumed, observed, delivered, undelivered>>
  BY Zenon DEF TickMeter
<1>2. "ticker" \in MeterExporter /\ "shutdown" \in MeterExporter \ {"ticker"} BY DEF MeterExporter
<1>3. Nothing(building["ticker"])
  <2>1. meterPc["ticker"] # "sending" BY <1>1
  <2> QED BY <1>2, <2>1, Zenon DEF MeterIInv, StopOK
<1>4. /\ SumsOK' /\ Balanced' /\ Nothing(meterMetrics') /\ building'["shutdown"] = building["shutdown"]
      /\ DataPointCount(buildMetrics(meterMetrics)) = 0 => Nothing(building'["ticker"])
  BY <1>1, <1>2, <1>3, ExportBuiltSums, Zenon DEF MeterIInv
<1>5. CallsOK' BY <1>1, Zenon DEF MeterIInv, CallsOK
<1>6. /\ meterPc' \in [MeterExporter -> {"idle", "select", "sending", "signalDone", "returned"}]
      /\ meterPc'["shutdown"] = meterPc["shutdown"]
      /\ meterPc'["ticker"] = IF DataPointCount(buildMetrics(meterMetrics)) = 0 THEN "select" ELSE "sending"
  BY <1>1, <1>2 DEF MeterIInv, StopOK, ExportBuilt, AfterExport
<1>7. meterStarted
  <2>1. meterPc["ticker"] \notin {"idle", "returned"} BY <1>1
  <2> QED BY <2>1, Zenon DEF MeterIInv, StopOK
<1>8. \A o \in MeterExporter : meterPc'[o] # "sending" => Nothing(building'[o])
  <2>1. meterPc'["ticker"] # "sending" => Nothing(building'["ticker"]) BY <1>4, <1>6, Zenon
  <2>2. meterPc'["shutdown"] # "sending" => Nothing(building'["shutdown"])
    BY <1>2, <1>4, <1>6, Zenon DEF MeterIInv, StopOK
  <2> QED BY <2>1, <2>2, Zenon DEF MeterExporter
<1>9. StopOK' BY <1>1, <1>4, <1>6, <1>7, <1>8, Zenon DEF MeterIInv, StopOK
<1> QED BY <1>4, <1>5, <1>9, Zenon DEF MeterIInv

LEMMA ShutdownMeterStep == MeterIInv /\ ShutdownMeter => MeterIInv'
<1> SUFFICES ASSUME MeterIInv, ShutdownMeter PROVE MeterIInv'
  BY Zenon
<1>1. /\ meterPc["shutdown"] = "idle" /\ \A p \in MeterPipeline : payload[p] = NoPayload
      /\ UNCHANGED <<payload, resource, meterStarted, consumed, observed, delivered, undelivered>>
  BY Zenon DEF ShutdownMeter
<1>2. "shutdown" \in MeterExporter /\ "ticker" \in MeterExporter \ {"shutdown"} BY DEF MeterExporter
<1>3. CallsOK' BY <1>1, Zenon DEF MeterIInv, CallsOK
<1>4. CASE meterStarted
  <2>1. ExportBuilt("shutdown") BY <1>4, Zenon DEF ShutdownMeter
  <2>2. Nothing(building["shutdown"])
    <3>1. meterPc["shutdown"] # "sending" BY <1>1
    <3> QED BY <1>2, <3>1, Zenon DEF MeterIInv, StopOK
  <2>3. /\ SumsOK' /\ Balanced' /\ Nothing(meterMetrics') /\ building'["ticker"] = building["ticker"]
        /\ DataPointCount(buildMetrics(meterMetrics)) = 0 => Nothing(building'["shutdown"])
    BY <1>1, <1>2, <2>1, <2>2, ExportBuiltSums, Zenon DEF MeterIInv
  <2>4. /\ meterPc' \in [MeterExporter -> {"idle", "select", "sending", "signalDone", "returned"}]
        /\ meterPc'["ticker"] = meterPc["ticker"] /\ meterPc'["shutdown"] # "returned"
        /\ meterPc'["shutdown"] = IF DataPointCount(buildMetrics(meterMetrics)) = 0 THEN "signalDone" ELSE "sending"
    BY <1>2, <2>1 DEF MeterIInv, StopOK, ExportBuilt, AfterExport
  <2>5. \A o \in MeterExporter : meterPc'[o] # "sending" => Nothing(building'[o])
    <3>1. meterPc'["shutdown"] # "sending" => Nothing(building'["shutdown"]) BY <2>3, <2>4, Zenon
    <3>2. meterPc'["ticker"] # "sending" => Nothing(building'["ticker"])
      BY <1>2, <2>3, <2>4, Zenon DEF MeterIInv, StopOK
    <3> QED BY <3>1, <3>2, Zenon DEF MeterExporter
  <2>6. StopOK' BY <1>1, <1>4, <2>3, <2>4, <2>5, Zenon DEF MeterIInv, StopOK
  <2> QED BY <1>3, <2>3, <2>6, Zenon DEF MeterIInv
<1>5. CASE ~meterStarted
  <2>1. meterPc' = [meterPc EXCEPT !["shutdown"] = "returned"] /\ UNCHANGED <<meterMetrics, building>>
    BY <1>5, Zenon DEF ShutdownMeter
  <2>2. SumsOK' /\ Balanced' BY <1>1, <2>1, SumsUnchanged, Zenon DEF MeterIInv
  <2>3. /\ meterPc' \in [MeterExporter -> {"idle", "select", "sending", "signalDone", "returned"}]
        /\ meterPc'["ticker"] = meterPc["ticker"] /\ meterPc'["shutdown"] = "returned"
    BY <1>2, <2>1 DEF MeterIInv, StopOK
  <2>4. \A o \in MeterExporter : meterPc[o] = "sending" => meterPc'[o] = "sending" \/ Nothing(building[o])
    BY <1>1, <2>3 DEF MeterExporter
  <2>5. StopOK' BY <1>1, <1>5, <2>1, <2>3, <2>4, Zenon DEF MeterIInv, StopOK
  <2> QED BY <1>3, <2>2, <2>5, Zenon DEF MeterIInv
<1> QED BY <1>4, <1>5, Zenon

LEMMA SendMeterStep == \A e \in MeterExporter : MeterIInv /\ SendMeter(e) => MeterIInv'
<1> SUFFICES ASSUME NEW e \in MeterExporter, MeterIInv, SendMeter(e) PROVE MeterIInv'
  BY Zenon
<1>1. /\ meterPc[e] = "sending" /\ building' = [building EXCEPT ![e] = Unmetered]
      /\ meterPc' = [meterPc EXCEPT ![e] = AfterExport(e)]
      /\ UNCHANGED <<meterMetrics, payload, resource, meterStarted, consumed, observed>>
  BY Zenon DEF SendMeter
<1>2. \/ delivered' = MeterPlus(delivered, building[e]) /\ UNCHANGED undelivered
      \/ undelivered' = MeterPlus(undelivered, building[e]) /\ UNCHANGED delivered
  BY Zenon DEF SendMeter
<1>3. /\ building'[e] = Unmetered /\ building' = [o \in MeterExporter |-> building'[o]]
      /\ \A o \in MeterExporter \ {e} : building'[o] = building[o]
  <2>1. building = [o \in MeterExporter |-> building[o]] BY Zenon DEF MeterIInv, SumsOK
  <2> QED BY <1>1, <2>1
<1>4. /\ MeterOK(meterMetrics) /\ MeterOK(observed) /\ MeterOK(delivered) /\ MeterOK(undelivered)
      /\ \A o \in MeterExporter : MeterOK(building[o])
  BY Zenon DEF MeterIInv, SumsOK, MeterExporter
<1>5. MeterOK(Unmetered) /\ Nothing(Unmetered) BY UnmeteredHoldsNothing, Zenon
<1>6. /\ MeterOK(delivered') /\ MeterOK(undelivered')
      /\ \/ Joins(delivered', delivered, building[e]) /\ undelivered' = undelivered
         \/ Joins(undelivered', undelivered, building[e]) /\ delivered' = delivered
  <2>1. /\ Joins(MeterPlus(delivered, building[e]), delivered, building[e])
        /\ Joins(MeterPlus(undelivered, building[e]), undelivered, building[e])
    BY <1>4, PlusJoins, Zenon
  <2>2. /\ MeterOK(MeterPlus(delivered, building[e])) /\ MeterOK(MeterPlus(undelivered, building[e]))
    BY <2>1, Zenon DEF Joins
  <2> QED BY <1>2, <1>4, <2>1, <2>2, Zenon
<1>7. SumsOK'
  <2>1. \A o \in MeterExporter : MeterOK(building'[o]) BY <1>3, <1>4, <1>5, Zenon
  <2>2. MeterOK(building'["ticker"]) /\ MeterOK(building'["shutdown"]) BY <2>1, Zenon DEF MeterExporter
  <2> QED BY <1>1, <1>3, <1>6, <2>2, Zenon DEF MeterIInv, SumsOK
<1>8. Balanced'
  <2> SUFFICES ASSUME NEW d, NEW s \in Signal, NEW x \in Part
               PROVE  Splits(Sum(observed, d, s, x), Sum(meterMetrics, d, s, x), Sum(building'["ticker"], d, s, x),
                        Sum(building'["shutdown"], d, s, x), Sum(delivered', d, s, x), Sum(undelivered', d, s, x))
    BY <1>1, Zenon DEF Balanced, Splits
  <2>1. Splits(Sum(observed, d, s, x), Sum(meterMetrics, d, s, x), Sum(building["ticker"], d, s, x),
          Sum(building["shutdown"], d, s, x), Sum(delivered, d, s, x), Sum(undelivered, d, s, x))
    BY SumType, Zenon DEF MeterIInv, SumsOK, Balanced, Splits
  <2>2. Sum(building'[e], d, s, x) = 0 BY <1>3, <1>5, Zenon DEF Nothing
  <2>3. \/ /\ Sum(delivered', d, s, x) = Sum(delivered, d, s, x) + Sum(building[e], d, s, x)
           /\ Sum(undelivered', d, s, x) = Sum(undelivered, d, s, x)
        \/ /\ Sum(undelivered', d, s, x) = Sum(undelivered, d, s, x) + Sum(building[e], d, s, x)
           /\ Sum(delivered', d, s, x) = Sum(delivered, d, s, x)
    BY <1>6, Zenon DEF Joins
  <2>4. CASE e = "ticker"
    <3>1. building'["shutdown"] = building["shutdown"] BY <1>3, <2>4 DEF MeterExporter
    <3>2. /\ Splits(Sum(observed, d, s, x), Sum(meterMetrics, d, s, x), 0, Sum(building["shutdown"], d, s, x),
               Sum(delivered, d, s, x) + Sum(building["ticker"], d, s, x), Sum(undelivered, d, s, x))
          /\ Splits(Sum(observed, d, s, x), Sum(meterMetrics, d, s, x), 0, Sum(building["shutdown"], d, s, x),
               Sum(delivered, d, s, x), Sum(undelivered, d, s, x) + Sum(building["ticker"], d, s, x))
      BY <2>1, SplitsOn, Zenon
    <3> QED BY <2>2, <2>3, <2>4, <3>1, <3>2, Zenon
  <2>5. CASE e = "shutdown"
    <3>1. building'["ticker"] = building["ticker"] BY <1>3, <2>5 DEF MeterExporter
    <3>2. /\ Splits(Sum(observed, d, s, x), Sum(meterMetrics, d, s, x), Sum(building["ticker"], d, s, x), 0,
               Sum(delivered, d, s, x) + Sum(building["shutdown"], d, s, x), Sum(undelivered, d, s, x))
          /\ Splits(Sum(observed, d, s, x), Sum(meterMetrics, d, s, x), Sum(building["ticker"], d, s, x), 0,
               Sum(delivered, d, s, x), Sum(undelivered, d, s, x) + Sum(building["shutdown"], d, s, x))
      BY <2>1, SplitsOn, Zenon
    <3> QED BY <2>2, <2>3, <2>5, <3>1, <3>2, Zenon
  <2> QED BY <2>4, <2>5, Zenon DEF MeterExporter
<1>9. CallsOK' BY <1>1, Zenon DEF MeterIInv, CallsOK
<1>10. StopOK'
  <2>1. /\ meterPc' \in [MeterExporter -> {"idle", "select", "sending", "signalDone", "returned"}]
        /\ meterPc'["shutdown"] = "idle" => meterPc["shutdown"] = "idle"
        /\ meterPc["shutdown"] = "idle" => meterPc'["shutdown"] = "idle"
        /\ meterPc'["shutdown"] = "returned" => meterPc["shutdown"] = "returned"
        /\ meterPc["ticker"] \in {"idle", "returned"} => meterPc'["ticker"] = meterPc["ticker"]
        /\ \A o \in MeterExporter \ {e} : meterPc'[o] = meterPc[o]
    BY <1>1 DEF MeterIInv, StopOK, MeterExporter, AfterExport
  <2>2. \A o \in MeterExporter : meterPc'[o] # "sending" => Nothing(building'[o])
    BY <1>3, <1>5, <2>1, Zenon DEF MeterIInv, StopOK
  <2>3. ~meterStarted => meterPc'["ticker"] \in {"idle", "returned"}
    BY <2>1, Zenon DEF MeterIInv, StopOK
  <2> QED BY <1>1, <2>1, <2>2, <2>3, Zenon DEF MeterIInv, StopOK
<1> QED BY <1>7, <1>8, <1>9, <1>10, Zenon DEF MeterIInv

LEMMA SignalDoneStep == MeterIInv /\ SignalDone => MeterIInv'
<1> SUFFICES ASSUME MeterIInv, SignalDone PROVE MeterIInv'
  BY Zenon
<1>1. /\ meterPc["shutdown"] = "signalDone" /\ meterPc["ticker"] = "select"
      /\ meterPc' = [e \in MeterExporter |-> "returned"] /\ meterStarted' = FALSE
      /\ UNCHANGED <<meterMetrics, building, payload, resource, consumed, observed, delivered, undelivered>>
  BY Zenon DEF SignalDone
<1>2. SumsOK' /\ Balanced' BY <1>1, SumsUnchanged, Zenon DEF MeterIInv
<1>3. CallsOK' BY <1>1, Zenon DEF MeterIInv, CallsOK
<1>4. StopOK'
  <2>1. meterPc["shutdown"] # "idle" /\ \A e \in MeterExporter : meterPc[e] # "sending"
    BY <1>1 DEF MeterExporter
  <2>2. /\ meterPc' \in [MeterExporter -> {"idle", "select", "sending", "signalDone", "returned"}]
        /\ meterPc'["ticker"] \in {"idle", "returned"}
    BY <1>1 DEF MeterExporter
  <2> QED BY <1>1, <2>1, <2>2, Zenon DEF MeterIInv, StopOK
<1> QED BY <1>2, <1>3, <1>4, Zenon DEF MeterIInv

LEMMA MeterIInvNext == MeterIInv /\ [MeterNext]_meterVars => MeterIInv'
<1> SUFFICES ASSUME MeterIInv, [MeterNext]_meterVars PROVE MeterIInv'
  BY Zenon
<1>1. CASE UNCHANGED meterVars
  <2>1. SumsOK' /\ Balanced' BY <1>1, SumsUnchanged, Zenon DEF MeterIInv, meterVars
  <2>2. CallsOK' /\ StopOK' BY <1>1, Zenon DEF MeterIInv, CallsOK, StopOK, meterVars
  <2> QED BY <2>1, <2>2, Zenon DEF MeterIInv
<1> QED BY <1>1, StartMeterStep, ConsumeTelemetryStep, AggregateResourceStep, TickMeterStep, ShutdownMeterStep,
          SendMeterStep, SignalDoneStep, Zenon DEF MeterNext

\* Every count and byte the pipelines hand over is exported once: it is held, being
\* sent, delivered or refused by the next consumer, however Consume calls, ticks and
\* Shutdown interleave, and Shutdown leaves nothing behind; for any pipelines, payloads
\* and dimensions.
THEOREM MeteredExactlyOnce == MeterSpec => []MeterInv
<1>1. MeterIInv => MeterInv
  <2> SUFFICES ASSUME MeterIInv PROVE MeterInv
    BY Zenon
  <2>1. MeterTypeOK
    <3>1. \A m \in {meterMetrics, building["ticker"], building["shutdown"], observed, delivered, undelivered} :
            \A d \in DOMAIN m : m[d] \in [Signal -> [count : Nat, size : Nat]]
      BY Zenon DEF MeterIInv, SumsOK, MeterOK, Metered
    <3>2. ASSUME NEW p \in MeterPipeline PROVE resource[p] \in 1 .. (Len(payload[p].resources) + 1)
      <4>1. CASE payload[p] = NoPayload
        BY <4>1 DEF MeterIInv, CallsOK, NoPayload
      <4>2. CASE payload[p] # NoPayload
        <5>1. payload[p] \in Telemetry /\ resource[p] \in 1 .. Len(payload[p].resources)
          BY <4>2, Zenon DEF MeterIInv, CallsOK
        <5>2. Len(payload[p].resources) \in Nat BY <5>1, MeterAssumption
        <5> QED BY <5>1, <5>2
      <4> QED BY <4>1, <4>2, Zenon
    <3> QED BY <3>1, <3>2, Zenon DEF MeterIInv, CallsOK, StopOK, MeterTypeOK
  <2>2. MeterConserved
    <3> DEFINE sends == MeterPlus(building["ticker"], building["shutdown"])
               held == MeterPlus(meterMetrics, sends)
               gone == MeterPlus(delivered, undelivered)
               accounted == MeterPlus(held, gone)
    <3>1. /\ MeterOK(meterMetrics) /\ MeterOK(building["ticker"]) /\ MeterOK(building["shutdown"])
          /\ MeterOK(observed) /\ MeterOK(delivered) /\ MeterOK(undelivered)
      BY Zenon DEF MeterIInv, SumsOK
    <3>2. Joins(sends, building["ticker"], building["shutdown"]) /\ Joins(gone, delivered, undelivered)
      BY <3>1, PlusJoins, Zenon
    <3>3. Joins(held, meterMetrics, sends)
      <4>1. MeterOK(sends) BY <3>2, Zenon DEF Joins
      <4> HIDE DEF sends
      <4> QED BY <3>1, <4>1, PlusJoins, Zenon
    <3>4. Joins(accounted, held, gone)
      <4>1. MeterOK(held) /\ MeterOK(gone) BY <3>2, <3>3, Zenon DEF Joins
      <4> HIDE DEF held, gone
      <4> QED BY <4>1, PlusJoins, Zenon
    <3>5. MeterConserved <=> \A d \in DOMAIN observed : \A s \in Signal : MeterAt(accounted, d)[s] = observed[d][s]
      BY Zenon DEF MeterConserved
    <3> HIDE DEF sends, held, gone, accounted
    <3>6. ASSUME NEW d \in DOMAIN observed, NEW s \in Signal PROVE MeterAt(accounted, d)[s] = observed[d][s]
      <4>1. ASSUME NEW x \in Part PROVE Sum(accounted, d, s, x) = Sum(observed, d, s, x)
        <5>1. Splits(Sum(observed, d, s, x), Sum(meterMetrics, d, s, x), Sum(building["ticker"], d, s, x),
                Sum(building["shutdown"], d, s, x), Sum(delivered, d, s, x), Sum(undelivered, d, s, x))
          <6>1. /\ Sum(meterMetrics, d, s, x) \in Nat /\ Sum(building["ticker"], d, s, x) \in Nat
                /\ Sum(building["shutdown"], d, s, x) \in Nat
                /\ Sum(delivered, d, s, x) \in Nat /\ Sum(undelivered, d, s, x) \in Nat
            BY <3>1, SumType, Zenon
          <6> QED BY <6>1, Zenon DEF MeterIInv, Balanced, Splits
        <5>2. Adds(Sum(observed, d, s, x), Sum(meterMetrics, d, s, x), Sum(building["ticker"], d, s, x),
                Sum(building["shutdown"], d, s, x), Sum(delivered, d, s, x), Sum(undelivered, d, s, x))
          BY <5>1, SplitsTotal, Zenon
        <5>3. /\ Sum(sends, d, s, x) = Sum(building["ticker"], d, s, x) + Sum(building["shutdown"], d, s, x)
              /\ Sum(gone, d, s, x) = Sum(delivered, d, s, x) + Sum(undelivered, d, s, x)
              /\ Sum(held, d, s, x) = Sum(meterMetrics, d, s, x) + Sum(sends, d, s, x)
              /\ Sum(accounted, d, s, x) = Sum(held, d, s, x) + Sum(gone, d, s, x)
          BY <3>2, <3>3, <3>4, Zenon DEF Joins
        <5> QED BY <5>2, <5>3, Zenon DEF Adds
      <4>2. MeterAt(accounted, d) \in Metered /\ observed[d] \in Metered /\ MeterAt(observed, d) = observed[d]
        BY <3>1, <3>4, MeterAtType, Zenon DEF Joins, MeterOK, MeterAt
      <4>3. /\ MeterAt(accounted, d)[s]["count"] = observed[d][s]["count"]
            /\ MeterAt(accounted, d)[s]["size"] = observed[d][s]["size"]
        BY <4>1, <4>2, Zenon DEF Sum, Part
      <4>4. MeterAt(accounted, d)[s] \in [count : Nat, size : Nat] /\ observed[d][s] \in [count : Nat, size : Nat]
        BY <4>2, Zenon DEF Metered
      <4> QED BY <4>3, <4>4
    <3> QED BY <3>5, <3>6, Zenon
  <2>3. FlushedAtShutdown
    <3> SUFFICES ASSUME meterPc["shutdown"] = "returned"
                 PROVE  /\ \A d \in DOMAIN meterMetrics : \A s \in Signal : meterMetrics[d][s].count = 0
                        /\ \A e \in MeterExporter : meterPc[e] # "sending"
      BY Zenon DEF FlushedAtShutdown
    <3>1. Nothing(meterMetrics) /\ meterPc["ticker"] \in {"idle", "returned"}
      BY Zenon DEF MeterIInv, StopOK
    <3>2. \A d \in DOMAIN meterMetrics : \A s \in Signal : meterMetrics[d][s].count = 0
      <4> SUFFICES ASSUME NEW d \in DOMAIN meterMetrics, NEW s \in Signal PROVE meterMetrics[d][s].count = 0
        BY Zenon
      <4>1. Sum(meterMetrics, d, s, "count") = 0 BY <3>1, Zenon DEF Nothing, Part
      <4>2. MeterAt(meterMetrics, d) = meterMetrics[d] BY Zenon DEF MeterAt
      <4> QED BY <4>1, <4>2, Zenon DEF Sum
    <3>3. \A e \in MeterExporter : meterPc[e] # "sending"
      BY <3>1 DEF MeterExporter
    <3> QED BY <3>2, <3>3, Zenon
  <2> QED BY <2>1, <2>2, <2>3, Zenon DEF MeterInv
<1> QED BY <1>1, MeterIInvInit, MeterIInvNext, PTL DEF MeterSpec
=============================================================================
