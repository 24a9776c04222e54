------------------------------ MODULE TailSampler ------------------------------
(***************************************************************************)
(* processor/o11ytailsampler: callers of ConsumeTraces store spans by trace*)
(* and pass new ids to the batcher, the ticker decides on the traces of a  *)
(* batch, and the oldest traces are dropped when there are too many.       *)
(***************************************************************************)
EXTENDS IdBatcher, FiniteSets

CONSTANTS NoId,        \* no trace id
          Caller,      \* goroutines in ConsumeTraces
          Span,
          traceOf,     \* traceOf[s]: the trace of a span
          Calls,       \* sets of spans passed to ConsumeTraces together
          NumTraces,   \* num_traces
          PolicyCfgs   \* policies, by priority: each a function from sets of spans to decisions

ASSUME SamplerAssumption ==
  /\ IsFiniteSet(Id) /\ IsFiniteSet(Caller)
  /\ NoId \notin Id /\ traceOf \in [Span -> Id] /\ Calls \subseteq (SUBSET Span) \ {{}} /\ NumTraces \in Nat \ {0}
  /\ \A i \in DOMAIN PolicyCfgs :
       PolicyCfgs[i] \in [SUBSET Span -> {"Sampled", "NotSampled", "NoResult", "Error"}]

VARIABLES idToTrace,       \* idToTrace[id]: index of its trace data, 0 when there is none
          traceData,       \* sequence of [spans, decision]: ReceivedBatches, FinalDecision
          deleteChan,
          numTracesOnMap,
          cpc,             \* cpc[c]: where the caller is
          todo,            \* todo[c]: spans of the call still to be handled
          cid,             \* cid[c]: the trace being handled
          cdata,           \* cdata[c]: its trace data
          drop,            \* drop[c]: the id received from deleteChan
          tpc,             \* where the ticker's function is
          ti,              \* its position in the batch
          tdata, tdecision, tspans, \* the trace data, its decision, the copy of its spans
          given,           \* spans passed to ConsumeTraces
          sent,            \* sent[s]: how often s was handed to the next consumer
          early,           \* ids dropped before a decision
          shutdown         \* the ticker is stopped

sampler == <<idToTrace, traceData, deleteChan, numTracesOnMap, cpc, todo, cid, cdata, drop,
             tpc, ti, tdata, tdecision, tspans, given, sent, early, shutdown>>
caller == <<cpc, todo, cid, cdata, drop>>
ticker == <<tpc, ti, tdata, tdecision, tspans>>
store == <<idToTrace, traceData, deleteChan, numTracesOnMap, early>>

\* newTracesProcessor: copy copies as many elements as the destination has.
copy(dst, src) == [i \in DOMAIN dst |-> IF i \in DOMAIN src THEN src[i] ELSE dst[i]]
policies == copy(<< >>, PolicyCfgs)

\* makeDecision: the first policy with an opinion decides, else the trace is sampled.
makeDecision(spans) ==
  LET definite == {i \in DOMAIN policies : policies[i][spans] \in {"Sampled", "NotSampled"}}
  IN IF definite = {} THEN "Sampled"
     ELSE policies[CHOOSE i \in definite : \A j \in definite : i <= j][spans]

SamplerInit ==
  /\ BatcherInit
  /\ idToTrace = [id \in Id |-> 0] /\ traceData = << >>
  /\ deleteChan = << >> /\ numTracesOnMap = 0
  /\ cpc = [c \in Caller |-> "idle"] /\ todo = [c \in Caller |-> {}]
  /\ cid = [c \in Caller |-> NoId] /\ cdata = [c \in Caller |-> 0]
  /\ drop = [c \in Caller |-> NoId]
  /\ tpc = "wait" /\ ti = 1 /\ tdata = 0 /\ tdecision = "Unspecified" /\ tspans = {}
  /\ given = {} /\ sent = [s \in Span |-> 0] /\ early = {} /\ shutdown = FALSE

-----------------------------------------------------------------------------
(* processTraces *)

Mine(c) == {s \in todo[c] : traceOf[s] = cid[c]}

\* A call with some spans; receivers are shut down before processors are.
ConsumeTraces(c, spans) ==
  /\ cpc[c] = "idle" /\ stopper = "idle" /\ spans \cap given = {}
  /\ cpc' = [cpc EXCEPT ![c] = "next"] /\ todo' = [todo EXCEPT ![c] = spans]
  /\ given' = given \cup spans
  /\ UNCHANGED <<batcher, store, cid, cdata, drop, ticker, sent, shutdown>>

\* Load: the next trace of the call, in any order.
Load(c) ==
  /\ cpc[c] = "next"
  /\ \E id \in {traceOf[s] : s \in todo[c]} :
       /\ cid' = [cid EXCEPT ![c] = id] /\ cdata' = [cdata EXCEPT ![c] = idToTrace[id]]
       /\ cpc' = [cpc EXCEPT ![c] = IF idToTrace[id] # 0 THEN "final" ELSE "store"]
  /\ UNCHANGED <<batcher, store, todo, drop, ticker, given, sent, shutdown>>

LoadOrStore_AddsAgain(c) ==
  /\ cpc[c] = "store"
  /\ IF idToTrace[cid[c]] # 0
     THEN /\ cdata' = [cdata EXCEPT ![c] = idToTrace[cid[c]]]
          /\ cpc' = [cpc EXCEPT ![c] = "add"]
          /\ UNCHANGED <<idToTrace, traceData>>
     ELSE /\ traceData' = Append(traceData, [spans |-> {}, decision |-> "Unspecified"])
          /\ idToTrace' = [idToTrace EXCEPT ![cid[c]] = Len(traceData')]
          /\ cdata' = [cdata EXCEPT ![c] = Len(traceData')]
          /\ cpc' = [cpc EXCEPT ![c] = "add"]
  /\ UNCHANGED <<batcher, deleteChan, numTracesOnMap, early, todo, cid, drop, ticker, sent,
                 given, shutdown>>

LoadOrStore(c) ==
  /\ cpc[c] = "store"
  /\ IF idToTrace[cid[c]] # 0
     THEN /\ cdata' = [cdata EXCEPT ![c] = idToTrace[cid[c]]]
          /\ cpc' = [cpc EXCEPT ![c] = "final"]
          /\ UNCHANGED <<idToTrace, traceData>>
     ELSE /\ traceData' = Append(traceData, [spans |-> {}, decision |-> "Unspecified"])
          /\ idToTrace' = [idToTrace EXCEPT ![cid[c]] = Len(traceData')]
          /\ cdata' = [cdata EXCEPT ![c] = Len(traceData')]
          /\ cpc' = [cpc EXCEPT ![c] = "add"]
  /\ UNCHANGED <<batcher, deleteChan, numTracesOnMap, early, todo, cid, drop, ticker, sent,
                 given, shutdown>>

AddId_Uncounted(c) ==
  /\ cpc[c] = "add" /\ AddToCurrentBatch(cid[c])
  /\ cpc' = [cpc EXCEPT ![c] = "post"]
  /\ UNCHANGED <<store, todo, cid, cdata, drop, ticker, given, sent, shutdown>>

AddId(c) ==
  /\ cpc[c] = "add" /\ AddToCurrentBatch(cid[c])
  /\ cpc' = [cpc EXCEPT ![c] = "count"]
  /\ UNCHANGED <<store, todo, cid, cdata, drop, ticker, given, sent, shutdown>>

CountTrace(c) ==
  /\ cpc[c] = "count"
  /\ numTracesOnMap' = numTracesOnMap + 1 /\ cpc' = [cpc EXCEPT ![c] = "post"]
  /\ UNCHANGED <<batcher, idToTrace, traceData, deleteChan, early, todo, cid, cdata, drop,
                 ticker, given, sent, shutdown>>

\* The select on deleteChan: send the id, or when it is full go and receive one.
PostDeletion(c) ==
  /\ cpc[c] = "post"
  /\ IF Len(deleteChan) < NumTraces
     THEN deleteChan' = Append(deleteChan, cid[c]) /\ cpc' = [cpc EXCEPT ![c] = "final"]
     ELSE cpc' = [cpc EXCEPT ![c] = "full"] /\ UNCHANGED deleteChan
  /\ UNCHANGED <<batcher, idToTrace, traceData, numTracesOnMap, early, todo, cid, cdata, drop,
                 ticker, given, sent, shutdown>>

ReceiveDrop(c) ==
  /\ cpc[c] = "full" /\ deleteChan # << >>
  /\ drop' = [drop EXCEPT ![c] = Head(deleteChan)] /\ deleteChan' = Tail(deleteChan)
  /\ cpc' = [cpc EXCEPT ![c] = "drop"]
  /\ UNCHANGED <<batcher, idToTrace, traceData, numTracesOnMap, early, todo, cid, cdata,
                 ticker, given, sent, shutdown>>

dropTrace_Keeps(c) ==
  LET i == idToTrace[drop[c]] IN
  /\ cpc[c] = "drop"
  /\ UNCHANGED idToTrace
  /\ cpc' = [cpc EXCEPT ![c] = IF i # 0 THEN "uncount" ELSE "post"]
  /\ early' = IF i # 0 /\ traceData[i].decision = "Unspecified" THEN early \cup {drop[c]} ELSE early
  /\ drop' = [drop EXCEPT ![c] = NoId]
  /\ UNCHANGED <<batcher, traceData, deleteChan, numTracesOnMap, todo, cid, cdata,
                 ticker, given, sent, shutdown>>

\* dropTrace deletes the trace from the map, if it is there, ...
dropTrace(c) ==
  LET i == idToTrace[drop[c]] IN
  /\ cpc[c] = "drop"
  /\ idToTrace' = [idToTrace EXCEPT ![drop[c]] = 0]
  /\ cpc' = [cpc EXCEPT ![c] = IF i # 0 THEN "uncount" ELSE "post"]
  /\ early' = IF i # 0 /\ traceData[i].decision = "Unspecified" THEN early \cup {drop[c]} ELSE early
  /\ drop' = [drop EXCEPT ![c] = NoId]
  /\ UNCHANGED <<batcher, traceData, deleteChan, numTracesOnMap, todo, cid, cdata,
                 ticker, given, sent, shutdown>>

Uncount_DropsAgain(c) ==
  /\ cpc[c] = "uncount"
  /\ numTracesOnMap' = numTracesOnMap - 1 /\ cpc' = [cpc EXCEPT ![c] = "full"]
  /\ UNCHANGED <<batcher, idToTrace, traceData, deleteChan, early, todo, cid, cdata, drop,
                 ticker, given, sent, shutdown>>

\* ... and counts it.
Uncount(c) ==
  /\ cpc[c] = "uncount"
  /\ numTracesOnMap' = numTracesOnMap - 1 /\ cpc' = [cpc EXCEPT ![c] = "post"]
  /\ UNCHANGED <<batcher, idToTrace, traceData, deleteChan, early, todo, cid, cdata, drop,
                 ticker, given, sent, shutdown>>

\* The end of the loop's body for one trace.
Handled(c) ==
  /\ todo' = [todo EXCEPT ![c] = @ \ Mine(c)]
  /\ cpc' = [cpc EXCEPT ![c] = IF todo'[c] = {} THEN "idle" ELSE "next"]
  /\ cid' = [cid EXCEPT ![c] = NoId] /\ cdata' = [cdata EXCEPT ![c] = 0]

Final_Appends(c) ==
  /\ cpc[c] = "final"
  /\ traceData' = [traceData EXCEPT ![cdata[c]].spans = @ \cup Mine(c)]
  /\ Handled(c)
  /\ UNCHANGED <<batcher, idToTrace, deleteChan, numTracesOnMap, early, drop, ticker, sent,
                 given, shutdown>>

\* Under the lock of the trace: spans are added to it until there is a decision.
Final(c) ==
  LET decision == traceData[cdata[c]].decision IN
  /\ cpc[c] = "final"
  /\ IF decision = "Sampled"
     THEN cpc' = [cpc EXCEPT ![c] = "forward"] /\ UNCHANGED <<traceData, todo, cid, cdata>>
     ELSE /\ traceData' = IF decision = "Unspecified"
                          THEN [traceData EXCEPT ![cdata[c]].spans = @ \cup Mine(c)]
                          ELSE traceData
          /\ Handled(c)
  /\ UNCHANGED <<batcher, idToTrace, deleteChan, numTracesOnMap, early, drop, ticker, sent,
                 given, shutdown>>

Forward_WholeTrace(c) ==
  /\ cpc[c] = "forward"
  /\ sent' = [s \in Span |-> IF s \in Mine(c) \cup traceData[cdata[c]].spans THEN sent[s] + 1 ELSE sent[s]]
  /\ Handled(c)
  /\ UNCHANGED <<batcher, store, drop, ticker, given, shutdown>>

\* Late spans go to the next consumer; its error is only logged.
Forward(c) ==
  /\ cpc[c] = "forward"
  /\ sent' = [s \in Span |-> IF s \in Mine(c) THEN sent[s] + 1 ELSE sent[s]]
  /\ Handled(c)
  /\ UNCHANGED <<batcher, store, drop, ticker, given, shutdown>>

-----------------------------------------------------------------------------
(* samplingPolicyOnTick, on the ticker's goroutine *)

Tick ==
  /\ tpc = "wait" /\ ~shutdown
  /\ \/ ReadBatch /\ tpc' = "taking"
     \/ TakeCurrent /\ tpc' = "batch"
  /\ UNCHANGED <<store, caller, ti, tdata, tdecision, tspans, given, sent, shutdown>>

TickTaking ==
  /\ tpc = "taking" /\ (ReadLock \/ PushCurrent)
  /\ tpc' = IF taker' = "idle" THEN "batch" ELSE "taking"
  /\ UNCHANGED <<store, caller, ti, tdata, tdecision, tspans, given, sent, shutdown>>

TickDone ==
  /\ tpc = "batch" /\ ti > Len(batch)
  /\ tpc' = "wait" /\ ti' = 1
  /\ UNCHANGED <<batcher, store, caller, tdata, tdecision, tspans, given, sent, shutdown>>

\* The next id of the batch; one that is no longer in the map was dropped too early.
TickLoad ==
  /\ tpc = "batch" /\ ti <= Len(batch)
  /\ IF idToTrace[batch[ti]] = 0
     THEN ti' = ti + 1 /\ UNCHANGED <<tpc, tdata>>
     ELSE tpc' = "decide" /\ tdata' = idToTrace[batch[ti]] /\ UNCHANGED ti
  /\ UNCHANGED <<batcher, store, caller, tdecision, tspans, given, sent, shutdown>>

\* The policies look at the spans without the lock of the trace.
TickDecide ==
  /\ tpc = "decide" /\ tpc' = "set"
  /\ tdecision' = makeDecision(traceData[tdata].spans)
  /\ UNCHANGED <<batcher, store, caller, ti, tdata, tspans, given, sent, shutdown>>

\* On to the next id.
NextId == /\ tpc' = "batch" /\ ti' = ti + 1 /\ tdata' = 0 /\ tspans' = {}
          /\ tdecision' = "Unspecified"

\* Under the lock: the decision is set and the spans copied.
TickSet ==
  /\ tpc = "set"
  /\ traceData' = [traceData EXCEPT ![tdata].decision = tdecision]
  /\ IF tdecision = "Sampled"
     THEN tpc' = "forward" /\ tspans' = traceData[tdata].spans /\ UNCHANGED <<ti, tdata, tdecision>>
     ELSE NextId
  /\ UNCHANGED <<batcher, idToTrace, deleteChan, numTracesOnMap, early, caller, given, sent, shutdown>>

TickForward ==
  /\ tpc = "forward"
  /\ sent' = [s \in Span |-> IF s \in tspans THEN sent[s] + 1 ELSE sent[s]]
  /\ NextId
  /\ UNCHANGED <<batcher, store, caller, given, shutdown>>

-----------------------------------------------------------------------------
(* The batcher's goroutine and Shutdown *)

Fill == (ReceiveId \/ AppendId) /\ UNCHANGED sampler

\* Shutdown stops the batcher and then the ticker, when no call is in progress.
Shutdown ==
  \/ /\ \A c \in Caller : cpc[c] = "idle"
     /\ ClosePending /\ UNCHANGED sampler
  \/ (StopLock \/ StopAnswered \/ CloseBatches) /\ UNCHANGED sampler
  \/ /\ stopper = "done" /\ ~shutdown /\ shutdown' = TRUE
     /\ UNCHANGED <<batcher, store, caller, ticker, given, sent>>

Call(c) ==
  \/ Load(c) \/ LoadOrStore(c) \/ AddId(c) \/ CountTrace(c) \/ PostDeletion(c)
  \/ ReceiveDrop(c) \/ dropTrace(c) \/ Uncount(c) \/ Final(c) \/ Forward(c)

TickStep == Tick \/ TickTaking \/ TickDone \/ TickLoad \/ TickDecide \/ TickSet \/ TickForward

SamplerNext ==
  \/ \E c \in Caller : Call(c) \/ \E spans \in Calls : ConsumeTraces(c, spans)
  \/ TickStep \/ Fill \/ Shutdown

samplerVars == <<batcher, sampler>>

SamplerSpec == SamplerInit /\ [][SamplerNext]_samplerVars

-----------------------------------------------------------------------------
(* Properties *)

OnMap == {id \in Id : idToTrace[id] # 0}

\* Callers, ticker and counters stay in their ranges; numTracesOnMap is a uint64
\* that is decremented and must not wrap around.
SamplerTypeOK ==
  /\ idToTrace \in [Id -> 0 .. Len(traceData)] /\ early \subseteq Id
  /\ \A i \in DOMAIN traceData : /\ traceData[i].spans \subseteq Span
                                  /\ traceData[i].decision \in {"Unspecified", "Sampled", "NotSampled"}
  /\ Len(deleteChan) <= NumTraces /\ numTracesOnMap \in Nat
  /\ cdata \in [Caller -> 0 .. Len(traceData)] /\ todo \in [Caller -> SUBSET Span]
  /\ Len(batches) <= NumBatches /\ Len(pendingIds) <= BatchChannelSize

\* A span passed to ConsumeTraces is with its caller, in a trace that is not yet
\* decided, being forwarded, or was forwarded: a decision taken while the span
\* arrives neither misses it in the copy of the batches nor as a late span.
NoSpanForgotten ==
  \A s \in given :
    \/ sent[s] > 0 \/ s \in tspans \/ (\E c \in Caller : s \in todo[c])
    \/ \E i \in DOMAIN traceData : s \in traceData[i].spans /\ traceData[i].decision = "Unspecified"

\* A span is forwarded twice only when its trace was dropped before its decision:
\* then a later span puts the id into the batcher again, and both times the
\* batches, which are not removed, are sent.
OnceUnlessDropped == \A s \in Span : sent[s] > 1 => traceOf[s] \in early

\* The ids of the batch taken last that the ticker has yet to look at.
Rest == IF tpc \in {"wait", "taking"} THEN << >>
        ELSE SubSeq(batch, IF tpc = "batch" THEN ti ELSE ti + 1, Len(batch))

Queued(id) ==
  \/ \E q \in {pendingIds, held, currentBatch, readBatch, Rest} 
                     \cup {batches[k] : k \in DOMAIN batches} : \E i \in DOMAIN q : q[i] = id
  \/ tpc \in {"decide", "set"} /\ tdata = idToTrace[id]
  \/ \E c \in Caller : cpc[c] = "add" /\ cid[c] = id

\* A trace in the map without a decision is on its way through the batcher to the
\* ticker, whatever was dropped and stored again meanwhile.
UndecidedIsQueued ==
  \A id \in OnMap : traceData[idToTrace[id]].decision = "Unspecified" => Queued(id)

\* What is received from deleteChan is in the map: "Attempt to delete traceID not
\* on table" is never logged, although traces are dropped, stored again and received
\* by several callers.
DropFindsTrace == \A c \in Caller : cpc[c] = "drop" => drop[c] \in OnMap

\* num_traces bounds the map, but for the callers between LoadOrStore and their
\* send to deleteChan, and those that have received an id and not yet dropped it.
MapIsBounded ==
  Cardinality(OnMap) <= NumTraces + Cardinality({c \in Caller : cpc[c] = "drop"}) +
    Cardinality({c \in Caller : cpc[c] \notin {"idle", "next", "store", "final", "forward"}})

\* The map, the batcher and deleteChan agree: a trace in the map is bounded in
\* number, is queued while undecided, and is there when it is dropped.
SamplerInv == SamplerTypeOK /\ UndecidedIsQueued /\ DropFindsTrace /\ MapIsBounded

\* A caller that waits for an id to drop does not wait for ever: while deleteChan
\* is empty another caller is dropping a trace, and will send its own id.
DropWaitEnds ==
  (\E c \in Caller : cpc[c] = "full") /\ deleteChan = << >> =>
    \E d \in Caller : cpc[d] \in {"drop", "uncount", "post"}
=============================================================================
