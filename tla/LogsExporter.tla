----------------------------- MODULE LogsExporter -----------------------------
(***************************************************************************)
(* The datastore logs exporter: concurrent calls of pushLogsData (the      *)
(* consumers of the sending queue) that share a limiter, a cache of        *)
(* resource fingerprints and the connection, and Shutdown.  In each call a *)
(* loop spawns one worker per record, a consumer appends the records the   *)
(* workers stream to it, and the batches are then sent to their tables in  *)
(* parallel.  Retries (exporterhelper), deadlines of the caller's context  *)
(* and the datastore are external.                                         *)
(***************************************************************************)
EXTENDS Naturals, FiniteSets, Sequences

CONSTANTS Push,         \* the goroutines that call pushLogsData
          Batch,        \* Batch[p]: the records of p's data, each with the
                        \* fields kind ("ok", "old" or "bad") and res
          Limit,        \* cap(e.limiter), which is also cap(recordStream)
          MaxAttempts,  \* bound: calls for p's batch, the first and its retries
          Timeouts,     \* the caller's context may expire
          AppendFails,  \* appending to a batch may fail
          StoreFails    \* preparing and sending a batch may fail

ASSUME LogsAssumption ==
  /\ Limit \in Nat \ {0} /\ MaxAttempts \in [Push -> Nat]
  /\ {Timeouts, AppendFails, StoreFails} \subseteq BOOLEAN
  /\ \A p \in Push : Len(Batch[p]) \in Nat

VARIABLES
  pc,         \* pc[p]: where the call is
  attempts,   \* attempts[p]: calls made so far
  call,       \* call[p]: the variables of the call, see NewCall
  limiter,    \* slots of e.limiter in use
  rfCache,    \* fingerprints in e.rfCache
  closing,    \* closeChan is closed
  db,         \* the connection is open
  stored,     \* stored[p]: records in the logs table (history)
  storedRes,  \* fingerprints in the resources table (history)
  resLost,    \* fingerprints cached by a call that failed to insert them (history)
  dropped,    \* dropped[p]: the batch was given up for code 252
  metered     \* metered[p]: records of p counted as sent

store == <<stored, storedRes, resLost>>
result == <<dropped, metered>>
vars == <<pc, attempts, call, limiter, rfCache, closing, db, store, result>>

Table == {"logs", "resources", "keys"}   \* "keys": the three tables of keys and tags
Record(p) == 1 .. Len(Batch[p])
Kind(p, r) == Batch[p][r].kind
Eligible(p) == {r \in Record(p) : Kind(p, r) = "ok"}
Returned == {"idle", "ok", "err"}

\* The variables of a call of pushToDatastore.
NewCall(p) ==
  [next      |-> 1,                            \* the record the loop is at
   worker    |-> [r \in Record(p) |-> "none"],
   stream    |-> <<>>,                         \* recordStream
   closed    |-> FALSE,                        \* recordStream is closed
   consumer  |-> TRUE,                         \* the consumer goroutine runs
   expired   |-> FALSE,                        \* the caller's context is done
   cancelled |-> FALSE,                        \* groupCtx is done
   groupErr  |-> FALSE,                        \* a goroutine of the group failed
   appended  |-> {},                           \* records in the logs batch
   seen      |-> {},                           \* resourcesSeen
   resources |-> {},                           \* the resources batch
   pending   |-> {},                           \* tables still to be sent to
   sendErr   |-> {}]                           \* errors of the sends

Init ==
  /\ pc = [p \in Push |-> "idle"] /\ attempts = [p \in Push |-> 0]
  /\ call = [p \in Push |-> NewCall(p)]
  /\ limiter = 0 /\ rfCache = {} /\ closing = FALSE /\ db = TRUE
  /\ stored = [p \in Push |-> {}] /\ storedRes = {} /\ resLost = {}
  /\ dropped = [p \in Push |-> FALSE] /\ metered = [p \in Push |-> 0]

Goto(p, l) == pc' = [pc EXCEPT ![p] = l]

\* The call returns and its variables are gone; a worker that is still running
\* would keep running, and find the stream closed.
Return(p, l) ==
  /\ Goto(p, l)
  /\ call' = [call EXCEPT ![p] =
                [NewCall(p) EXCEPT !.worker = call[p].worker, !.closed = TRUE]]

-----------------------------------------------------------------------------
(* The calls of pushLogsData *)

\* External: exporterhelper calls pushLogsData with new data, or again with the
\* data of a call that returned an error.  The call starts with wg.Add.
Begin(p) ==
  /\ pc[p] \in {"idle", "err"} /\ attempts[p] < MaxAttempts[p]
  /\ attempts' = [attempts EXCEPT ![p] = @ + 1]
  /\ call' = [call EXCEPT ![p] = NewCall(p)]
  /\ Goto(p, "begin")
  /\ UNCHANGED <<limiter, rfCache, closing, db, store, result>>

\* External: the caller's context expires during the call.
Expire(p) ==
  /\ Timeouts /\ pc[p] \notin Returned /\ ~call[p].expired
  /\ call' = [call EXCEPT ![p].expired = TRUE, ![p].cancelled = TRUE]
  /\ UNCHANGED <<pc, attempts, limiter, rfCache, closing, db, store, result>>

CheckClosed_Dropped(p) ==
  /\ pc[p] = "begin"
  /\ Goto(p, "prepare")
  /\ UNCHANGED <<call, attempts, limiter, rfCache, closing, db, store, result>>

\* The select on closeChan.
CheckClosed(p) ==
  /\ pc[p] = "begin"
  /\ IF closing THEN Return(p, "err") ELSE Goto(p, "prepare") /\ UNCHANGED call
  /\ UNCHANGED <<attempts, limiter, rfCache, closing, db, store, result>>

\* External: PrepareBatch answers, and never with a batch once ctx is done.
Prepares(p) == ~call[p].expired
PrepareError(p) == call[p].expired \/ StoreFails

\* The four batches are prepared and the consumer is started.
Prepare(p) ==
  /\ pc[p] = "prepare"
  /\ \/ Prepares(p) /\ Goto(p, "loop") /\ UNCHANGED call
     \/ PrepareError(p) /\ Return(p, "err")
  /\ UNCHANGED <<attempts, limiter, rfCache, closing, db, store, result>>

-----------------------------------------------------------------------------
(* The producer loop and its workers *)

Spawn_NoLimit(p) ==
  /\ pc[p] = "loop" /\ call[p].next \in Record(p)
  /\ limiter' = limiter + 1
  /\ call' = [call EXCEPT ![p].worker[call[p].next] = "work", ![p].next = @ + 1]
  /\ UNCHANGED <<pc, attempts, rfCache, closing, db, store, result>>

\* The loop gets a slot of the limiter and spawns the record's worker.
Spawn(p) ==
  /\ pc[p] = "loop" /\ call[p].next \in Record(p) /\ limiter < Limit
  /\ limiter' = limiter + 1
  /\ call' = [call EXCEPT ![p].worker[call[p].next] = "work", ![p].next = @ + 1]
  /\ UNCHANGED <<pc, attempts, rfCache, closing, db, store, result>>

\* The loop ends, or breaks because groupCtx is done while it waits for a slot.
EndLoop(p) ==
  /\ pc[p] = "loop"
  /\ call[p].next \notin Record(p) \/ call[p].cancelled
  /\ Goto(p, "wait")
  /\ UNCHANGED <<attempts, call, limiter, rfCache, closing, db, store, result>>

Work_Leaks(p, r) ==
  /\ call[p].worker[r] = "work"
  /\ LET sees == call[p].seen \cup {Batch[p][r].res} IN
     \/ /\ Kind(p, r) = "old"
        /\ call' = [call EXCEPT ![p].worker[r] = "done"]
        /\ UNCHANGED limiter
     \/ /\ Kind(p, r) = "bad"
        /\ call' = [call EXCEPT ![p].worker[r] = "fail", ![p].seen = sees]
        /\ limiter' = limiter - 1
     \/ /\ Kind(p, r) = "ok"
        /\ call' = [call EXCEPT ![p].worker[r] = "send", ![p].seen = sees]
        /\ UNCHANGED limiter
  /\ UNCHANGED <<pc, attempts, rfCache, closing, db, store, result>>

\* A worker looks at its record: one too old is skipped, a body that is not a
\* map is an error, any other is ready to be streamed.  The fingerprint of the
\* resource is noted before the body is looked at.  A worker that ends gives its
\* slot back (the deferred function).
Work(p, r) ==
  /\ call[p].worker[r] = "work"
  /\ LET sees == call[p].seen \cup {Batch[p][r].res} IN
     \/ /\ Kind(p, r) = "old"
        /\ call' = [call EXCEPT ![p].worker[r] = "done"]
        /\ limiter' = limiter - 1
     \/ /\ Kind(p, r) = "bad"
        /\ call' = [call EXCEPT ![p].worker[r] = "fail", ![p].seen = sees]
        /\ limiter' = limiter - 1
     \/ /\ Kind(p, r) = "ok"
        /\ call' = [call EXCEPT ![p].worker[r] = "send", ![p].seen = sees]
        /\ UNCHANGED limiter
  /\ UNCHANGED <<pc, attempts, rfCache, closing, db, store, result>>

\* errgroup sees the error, and cancels groupCtx, after the deferred function.
WorkerFails(p, r) ==
  /\ call[p].worker[r] = "fail"
  /\ call' = [call EXCEPT ![p].worker[r] = "done", ![p].groupErr = TRUE,
                          ![p].cancelled = TRUE]
  /\ UNCHANGED <<pc, attempts, limiter, rfCache, closing, db, store, result>>

\* recordStream <- record: waits for room, and for nothing else.
StreamRecord(p, r) ==
  /\ call[p].worker[r] = "send" /\ Len(call[p].stream) < Limit
  /\ call' = [call EXCEPT ![p].stream = Append(@, r), ![p].worker[r] = "done"]
  /\ limiter' = limiter - 1
  /\ UNCHANGED <<pc, attempts, rfCache, closing, db, store, result>>

Streaming(p) == {r \in Record(p) : call[p].worker[r] \in {"work", "send"}}
Running(p) == {r \in Record(p) : call[p].worker[r] \in {"work", "send", "fail"}}

CloseStream_Early(p) ==
  /\ pc[p] = "wait" /\ ~call[p].closed
  /\ call' = [call EXCEPT ![p].closed = TRUE]
  /\ UNCHANGED <<pc, attempts, limiter, rfCache, closing, db, store, result>>

\* The goroutine that waits for producersWG and closes the stream.
CloseStream(p) ==
  /\ pc[p] = "wait" /\ ~call[p].closed /\ Streaming(p) = {}
  /\ call' = [call EXCEPT ![p].closed = TRUE]
  /\ UNCHANGED <<pc, attempts, limiter, rfCache, closing, db, store, result>>

-----------------------------------------------------------------------------
(* The consumer *)

Consuming(p) == pc[p] \in {"loop", "wait"} /\ call[p].consumer

\* A record is received and appended, or the append fails and ends the consumer.
Consume(p) ==
  /\ Consuming(p) /\ call[p].stream # <<>>
  /\ \/ call' = [call EXCEPT ![p].stream = Tail(@),
                             ![p].appended = @ \cup {Head(call[p].stream)}]
     \/ /\ AppendFails
        /\ call' = [call EXCEPT ![p].stream = Tail(@), ![p].consumer = FALSE,
                                ![p].groupErr = TRUE, ![p].cancelled = TRUE]
  /\ UNCHANGED <<pc, attempts, limiter, rfCache, closing, db, store, result>>

ConsumerEnds_OnlyCancelled(p) ==
  /\ Consuming(p)
  /\ call[p].cancelled
  /\ call' = [call EXCEPT ![p].consumer = FALSE]
  /\ UNCHANGED <<pc, attempts, limiter, rfCache, closing, db, store, result>>

\* The consumer returns nil: groupCtx is done, or the stream is closed and empty.
ConsumerEnds(p) ==
  /\ Consuming(p)
  /\ call[p].cancelled \/ (call[p].closed /\ call[p].stream = <<>>)
  /\ call' = [call EXCEPT ![p].consumer = FALSE]
  /\ UNCHANGED <<pc, attempts, limiter, rfCache, closing, db, store, result>>

GroupWait_IgnoresError(p) ==
  /\ pc[p] = "wait" /\ ~call[p].consumer /\ Running(p) = {}
  /\ Goto(p, "resources") /\ UNCHANGED call
  /\ UNCHANGED <<attempts, limiter, rfCache, closing, db, store, result>>

\* group.Wait: every goroutine of the group has returned.
GroupWait(p) ==
  /\ pc[p] = "wait" /\ ~call[p].consumer /\ Running(p) = {}
  /\ IF call[p].groupErr THEN Return(p, "err") ELSE Goto(p, "resources") /\ UNCHANGED call
  /\ UNCHANGED <<attempts, limiter, rfCache, closing, db, store, result>>

-----------------------------------------------------------------------------
(* Resources, sends and the result *)

Resources_CachesFirst(p) ==
  LET new == call[p].seen \ rfCache IN
  /\ pc[p] = "resources"
  /\ rfCache' = rfCache \cup new
  /\ \/ /\ Prepares(p)
        /\ call' = [call EXCEPT ![p].resources = new, ![p].pending = Table]
        /\ Goto(p, "send")
     \/ PrepareError(p) /\ Return(p, "err")
  /\ UNCHANGED <<attempts, limiter, closing, db, store, result>>

\* The resources batch is prepared and given the fingerprints that are not in
\* rfCache, each of them cached as it is appended.  An append that fails ends
\* the call with the fingerprints before it in the cache.
Resources(p) ==
  LET new == call[p].seen \ rfCache IN
  /\ pc[p] = "resources"
  /\ \/ /\ Prepares(p)
        /\ call' = [call EXCEPT ![p].resources = new, ![p].pending = Table]
        /\ rfCache' = rfCache \cup new
        /\ Goto(p, "send")
        /\ UNCHANGED resLost
     \/ /\ Prepares(p) /\ AppendFails
        /\ \E done \in (SUBSET new) \ {new} :
             /\ rfCache' = rfCache \cup done
             /\ resLost' = resLost \cup done
        /\ Return(p, "err")
     \/ /\ PrepareError(p)
        /\ Return(p, "err")
        /\ UNCHANGED <<rfCache, resLost>>
  /\ UNCHANGED <<attempts, limiter, closing, db, stored, storedRes, result>>

\* One of the parallel sends completes.  The datastore may refuse the batch,
\* with code 252 ("too many partitions") or another error.
Send(p, t) ==
  /\ pc[p] = "send" /\ t \in call[p].pending
  /\ \/ /\ call' = [call EXCEPT ![p].pending = @ \ {t}]
        /\ stored' = IF t = "logs" THEN [stored EXCEPT ![p] = @ \cup call[p].appended]
                                   ELSE stored
        /\ storedRes' = IF t = "resources" THEN storedRes \cup call[p].resources
                                           ELSE storedRes
        /\ UNCHANGED resLost
     \/ /\ StoreFails
        /\ \E e \in {"error", "code 252"} :
             call' = [call EXCEPT ![p].pending = @ \ {t}, ![p].sendErr = @ \cup {e}]
        /\ resLost' = IF t = "resources" THEN resLost \cup call[p].resources ELSE resLost
        /\ UNCHANGED <<stored, storedRes>>
  /\ UNCHANGED <<pc, attempts, limiter, rfCache, closing, db, result>>

Finish_MetersFirst(p) ==
  /\ pc[p] = "send" /\ call[p].pending = {}
  /\ metered' = [metered EXCEPT ![p] = @ + Cardinality(call[p].appended)]
  /\ \/ call[p].sendErr = {} /\ Return(p, "ok") /\ UNCHANGED dropped
     \/ "code 252" \in call[p].sendErr /\ Return(p, "ok")
        /\ dropped' = [dropped EXCEPT ![p] = TRUE]
     \/ "error" \in call[p].sendErr /\ Return(p, "err") /\ UNCHANGED dropped
  /\ UNCHANGED <<attempts, limiter, rfCache, closing, db, store>>

\* The sends have completed.  Without errors the records are counted as sent.
\* Otherwise the first error in the order of completion is returned, which
\* pushLogsData turns into success when it is code 252.
Finish(p) ==
  /\ pc[p] = "send" /\ call[p].pending = {}
  /\ \/ /\ call[p].sendErr = {}
        /\ Return(p, "ok")
        /\ metered' = [metered EXCEPT ![p] = @ + Cardinality(call[p].appended)]
        /\ UNCHANGED dropped
     \/ /\ "code 252" \in call[p].sendErr
        /\ Return(p, "ok")
        /\ dropped' = [dropped EXCEPT ![p] = TRUE]
        /\ UNCHANGED metered
     \/ /\ "error" \in call[p].sendErr
        /\ Return(p, "err")
        /\ UNCHANGED result
  /\ UNCHANGED <<attempts, limiter, rfCache, closing, db, store>>

-----------------------------------------------------------------------------
(* Shutdown *)

ShutdownBegins ==
  /\ ~closing
  /\ closing' = TRUE
  /\ UNCHANGED <<pc, attempts, call, limiter, rfCache, db, store, result>>

\* wg.Wait has returned; the connection is closed.
ShutdownEnds ==
  /\ closing /\ db
  /\ \A p \in Push : pc[p] \in Returned
  /\ db' = FALSE
  /\ UNCHANGED <<pc, attempts, call, limiter, rfCache, closing, store, result>>

\* Nothing is left to be done.
Finished ==
  /\ ~db
  /\ \A p \in Push : pc[p] = "ok" \/ (pc[p] = "err" /\ attempts[p] = MaxAttempts[p])
  /\ UNCHANGED vars

Caller(p) ==
  \/ CheckClosed(p) \/ Prepare(p) \/ Spawn(p) \/ EndLoop(p) \/ GroupWait(p)
  \/ Resources(p) \/ (\E t \in Table : Send(p, t)) \/ Finish(p)
Worker(p) == \E r \in Record(p) : Work(p, r) \/ WorkerFails(p, r) \/ StreamRecord(p, r)
Consumer(p) == Consume(p) \/ ConsumerEnds(p)

Next ==
  \/ \E p \in Push : \/ Begin(p) \/ Expire(p) \/ Caller(p) \/ Worker(p)
                     \/ CloseStream(p) \/ Consumer(p)
  \/ ShutdownBegins \/ ShutdownEnds \/ Finished

Spec == Init /\ [][Next]_vars

\* Go schedules every goroutine that can run, and the datastore answers.  A
\* goroutine that waits for a slot of the limiter, or for room in the stream,
\* waits in the channel's queue and gets its turn.  Begin, Expire and
\* ShutdownBegins are the environment's.
Scheduling ==
  /\ \A p \in Push :
       /\ SF_vars(Spawn(p)) /\ WF_vars(Caller(p))
       /\ WF_vars(CloseStream(p)) /\ WF_vars(Consumer(p))
       /\ \A r \in Record(p) : WF_vars(Work(p, r) \/ WorkerFails(p, r))
                               /\ SF_vars(StreamRecord(p, r))
  /\ WF_vars(ShutdownEnds)

FairSpec == Spec /\ Scheduling

-----------------------------------------------------------------------------
(* Properties *)

\* Every variable stays in its type: neither the stream nor the limiter holds
\* more than its capacity, and no batch is called for more often than allowed.
TypeOK ==
  /\ pc \in [Push -> Returned \cup
             {"begin", "prepare", "loop", "wait", "resources", "send"}]
  /\ \A p \in Push : attempts[p] \in 0 .. MaxAttempts[p]
  /\ \A p \in Push :
       /\ DOMAIN call[p] = DOMAIN NewCall(p)
       /\ call[p].next \in 1 .. Len(Batch[p]) + 1
       /\ call[p].worker \in [Record(p) -> {"none", "work", "send", "fail", "done"}]
       /\ Len(call[p].stream) <= Limit
       /\ \A i \in DOMAIN call[p].stream : call[p].stream[i] \in Record(p)
       /\ call[p].appended \subseteq Record(p) /\ stored[p] \subseteq Record(p)
       /\ call[p].resources \subseteq call[p].seen /\ call[p].pending \subseteq Table
       /\ call[p].sendErr \subseteq {"error", "code 252"}
       /\ metered[p] \in Nat /\ dropped[p] \in BOOLEAN
       /\ {call[p].closed, call[p].consumer, call[p].expired, call[p].cancelled,
           call[p].groupErr} \subseteq BOOLEAN
  /\ limiter \in 0 .. Limit /\ closing \in BOOLEAN /\ db \in BOOLEAN

\* A call that returns nil has inserted every record of its batch that is young
\* enough, unless the datastore refused the insert with code 252: an error of a
\* worker, of the consumer or of the insert, or a deadline that stops the
\* consumer half way, makes pushLogsData return an error.
AckedLogsStored ==
  \A p \in Push : pc[p] = "ok" /\ ~dropped[p] => Eligible(p) \subseteq stored[p]

\* The stream is closed only when no worker can send on it any more, so that
\* "send on closed channel" cannot happen, whatever fails or expires and
\* whichever way the call ends.
NoSendOnClosed ==
  \A p \in Push : call[p].closed => Streaming(p) = {}

\* The usage counters hold exactly the records of the batches that were
\* acknowledged as inserted: a call that fails after some of its tables were
\* written, and is retried, does not count its records twice.
MeteredOnce ==
  \A p \in Push :
    metered[p] = IF pc[p] = "ok" /\ ~dropped[p] THEN Cardinality(Eligible(p)) ELSE 0

\* The slots of the limiter, which all calls share, are exactly those of the
\* workers that run: a call that ends, for whatever reason, leaves none behind.
SlotsAreOwned ==
  /\ limiter = Cardinality(UNION {{p} \X Streaming(p) : p \in Push})
  /\ \A p \in Push : pc[p] \in Returned => Running(p) = {}

\* A resource whose fingerprint is in rfCache is in the resources table, or in
\* the batch of a call that has yet to send it, unless an append or a send of
\* the resources failed: calls that skip it because another call has it in hand
\* never leave it out altogether.
CachedResourceStored ==
  rfCache \subseteq
    storedRes \cup resLost
    \cup UNION {call[p].resources : p \in {q \in Push : "resources" \in call[q].pending}}

\* Shutdown closes the connection only when no call uses it, and a call that
\* begins later does not use it.
DbOpenWhileUsed ==
  ~db => \A p \in Push : pc[p] \in Returned \cup {"begin"}

\* What calls share is there while they use it and free when they end: the
\* stream, the slots of the limiter and the connection.
LogsInv == TypeOK /\ NoSendOnClosed /\ SlotsAreOwned /\ DbOpenWhileUsed

\* A call of pushLogsData returns, whatever fails: the goroutines of its group
\* end ("both will exit with the help of groupCtx.Done()").
PushReturns ==
  \A p \in Push : pc[p] = "begin" ~> pc[p] \in Returned

\* Shutdown, once called, returns.
ShutdownReturns == closing ~> ~db

\* Nobody waits for ever: neither a call nor the Shutdown that waits for the calls.
CallsReturn == PushReturns /\ ShutdownReturns
=============================================================================
