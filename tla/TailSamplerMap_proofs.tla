------------------------- MODULE TailSamplerMap_proofs -------------------------
(***************************************************************************)
(* For any callers, traces, spans and num_traces: the channels are bounded,*)
(* every trace in the map has its token, numTracesOnMap counts the map,    *)
(* and num_traces bounds it but for the callers on their way.              *)
(***************************************************************************)
EXTENDS TailSamplerOnce_proofs, FiniteSetTheorems

\* A leaf goes to the SMT solver unless it cites another prover.
USE SMTT(30)

-----------------------------------------------------------------------------
(* The channels and the map are bounded *)

ChannelsOK == Len(deleteChan) <= NumTraces /\ Len(batches) <= NumBatches /\ Len(pendingIds) <= BatchChannelSize

LEMMA ChannelsNext == TokenInv /\ BatcherInv /\ ChannelsOK /\ [SamplerNext]_samplerVars => ChannelsOK'
<1> SUFFICES ASSUME TokenInv, BatcherInv, ChannelsOK, [SamplerNext]_samplerVars PROVE ChannelsOK'
  BY Zenon
<1>0. /\ deleteChan \in Seq(Id) /\ pendingIds \in Seq(Id) /\ batches \in Seq(Seq(Id))
      /\ currentBatch \in Seq(Id) /\ cid \in [Caller -> Id \cup {NoId}]
      /\ Len(deleteChan) \in Nat /\ Len(pendingIds) \in Nat /\ Len(batches) \in Nat
      /\ NumTraces \in Nat /\ NumBatches \in Nat /\ BatchChannelSize \in Nat
  BY SamplerAssumption, BatcherAssumption DEF TokenInv, Types, BatcherInv, Batch
<1>1. Len(deleteChan') <= NumTraces
  <2>1. CASE UNCHANGED deleteChan BY <2>1, Zenon DEF ChannelsOK
  <2>2. ASSUME NEW c \in Caller, PostDeletion(c) PROVE Len(deleteChan') <= NumTraces
    <3>1. CASE Len(deleteChan) < NumTraces
      <4>1. cid[c] \in Id BY <2>2, Zenon DEF PostDeletion, TokenInv, Tokens, Posting
      <4>2. deleteChan' = Append(deleteChan, cid[c]) BY <2>2, <3>1, Zenon DEF PostDeletion
      <4> QED BY <1>0, <3>1, <4>1, <4>2
    <3>2. CASE ~(Len(deleteChan) < NumTraces) BY <2>1, <2>2, <3>2, Zenon DEF PostDeletion
    <3> QED BY <3>1, <3>2, Zenon
  <2>3. ASSUME NEW c \in Caller, ReceiveDrop(c) PROVE Len(deleteChan') <= NumTraces
    <3>1. deleteChan # << >> /\ deleteChan' = Tail(deleteChan) BY <2>3, Zenon DEF ReceiveDrop
    <3>2. Len(deleteChan') = Len(deleteChan) - 1 BY <1>0, <3>1
    <3> QED BY <1>0, <3>2 DEF ChannelsOK
  <2> QED
    BY <2>1, <2>2, <2>3, Zenon DEF SamplerNext, Call, TickStep, Tick, TickTaking, TickDone, TickLoad, TickDecide,
         TickSet, TickForward, Fill, Shutdown, ConsumeTraces, Load, LoadOrStore, AddId, CountTrace,
         dropTrace, Uncount, Final, Forward, samplerVars, sampler, store
<1>2. [BatcherNext]_batcher BY SamplerStepsBatcher, Zenon
<1>3. Len(batches') <= NumBatches
  <2>1. CASE UNCHANGED batches BY <2>1, Zenon DEF ChannelsOK
  <2>2. CASE ReadBatch
    <3>1. Len(batches') = Len(batches) - 1 BY <1>0, <2>2 DEF ReadBatch
    <3> QED BY <1>0, <3>1 DEF ChannelsOK
  <2>3. CASE PushCurrent
    <3>1. Len(batches') = Len(batches) + 1 BY <1>0, <2>3 DEF PushCurrent
    <3> QED BY <1>0, <2>3, <3>1 DEF PushCurrent
  <2> QED
    BY <1>2, <2>1, <2>2, <2>3, Zenon DEF BatcherNext, batcher, AddToCurrentBatch, ReceiveId, AppendId, ReadLock,
         TakeCurrent, ClosePending, StopLock, StopAnswered, CloseBatches
<1>4. Len(pendingIds') <= BatchChannelSize
  <2>1. CASE UNCHANGED pendingIds BY <2>1, Zenon DEF ChannelsOK
  <2>2. CASE ReceiveId
    <3>1. Len(pendingIds') = Len(pendingIds) - 1 BY <1>0, <2>2 DEF ReceiveId
    <3> QED BY <1>0, <3>1 DEF ChannelsOK
  <2>3. ASSUME NEW id \in Id, AddToCurrentBatch(id) PROVE Len(pendingIds') <= BatchChannelSize
    <3>1. Len(pendingIds') = Len(pendingIds) + 1 BY <1>0, <2>3 DEF AddToCurrentBatch
    <3> QED BY <1>0, <2>3, <3>1 DEF AddToCurrentBatch
  <2> QED
    BY <1>2, <2>1, <2>2, <2>3, Zenon DEF BatcherNext, batcher, ReadBatch, PushCurrent, AppendId, ReadLock,
         TakeCurrent, ClosePending, StopLock, StopAnswered, CloseBatches
<1> QED BY <1>1, <1>3, <1>4, Zenon DEF ChannelsOK

\* Every trace in the map has its token.
InChan(id) == \E i \in 1 .. Len(deleteChan) : deleteChan[i] = id
Covered(id) ==
  \/ idToTrace[id] = 0 \/ InChan(id)
  \/ \E c \in Caller : cpc[c] \in Posting /\ cid[c] = id
  \/ \E c \in Caller : cpc[c] = "drop" /\ drop[c] = id
CoveredInv == \A id \in Id : Covered(id)

LEMMA CoveredNext ==
  \A id \in Id :
    TokenInv /\ Covered(id) /\ [SamplerNext]_samplerVars => Covered(id)'
<1> SUFFICES ASSUME TokenInv, NEW id \in Id, Covered(id), [SamplerNext]_samplerVars PROVE Covered(id)'
  BY Zenon
<1>0. Types /\ deleteChan \in Seq(Id) /\ Len(deleteChan) \in Nat
  BY DEF TokenInv, Types
<1>1. ASSUME UNCHANGED <<idToTrace, deleteChan, cpc, cid, drop>> PROVE Covered(id)'
  BY <1>1, Zenon DEF Covered, InChan
<1>2. ASSUME NEW c \in Caller, UNCHANGED <<deleteChan, drop>>, 
             idToTrace'[id] = idToTrace[id] \/ (cpc'[c] \in Posting /\ cid'[c] = id),
             cpc[c] \in Posting => cpc'[c] \in Posting /\ cid'[c] = cid[c], cpc[c] # "drop",
             \A d \in Caller : d # c => cpc'[d] = cpc[d] /\ cid'[d] = cid[d]
      PROVE  Covered(id)'
  <2>1. CASE cpc'[c] \in Posting /\ cid'[c] = id BY <2>1, Zenon DEF Covered
  <2>2. CASE idToTrace'[id] = idToTrace[id]
    <3>1. InChan(id)' <=> InChan(id) BY <1>2, Zenon DEF InChan
    <3>2. (\E d \in Caller : cpc[d] \in Posting /\ cid[d] = id)
             => \E d \in Caller : cpc'[d] \in Posting /\ cid'[d] = id
      BY <1>2, Zenon
    <3>3. (\E d \in Caller : cpc[d] = "drop" /\ drop[d] = id)
             => \E d \in Caller : cpc'[d] = "drop" /\ drop'[d] = id
      BY <1>2, Zenon
    <3> QED BY <2>2, <3>1, <3>2, <3>3, Zenon DEF Covered
  <2> QED BY <1>2, <2>1, <2>2, Zenon
<1>3. ASSUME NEW c \in Caller, NEW spans \in Calls, ConsumeTraces(c, spans) PROVE Covered(id)'
  BY <1>0, <1>2, <1>3, Zenon DEF ConsumeTraces, store, Types, Posting
<1>4. ASSUME NEW c \in Caller, Load(c) PROVE Covered(id)'
  <2>1. cpc[c] = "next" /\ UNCHANGED <<idToTrace, deleteChan, drop>> BY <1>4, Zenon DEF Load, store
  <2>2. \A d \in Caller : d # c => cpc'[d] = cpc[d] /\ cid'[d] = cid[d]
    BY <1>0, <1>4, LoadCases DEF Types
  <2> QED BY <1>2, <2>1, <2>2, Zenon DEF Posting
<1>5. ASSUME NEW c \in Caller, LoadOrStore(c) PROVE Covered(id)'
  <2>1. UNCHANGED <<deleteChan, drop, cid>> BY <1>5, Zenon DEF LoadOrStore
  <2>2. cpc[c] = "store" /\ \A d \in Caller : d # c => cpc'[d] = cpc[d]
    <3>1. cpc[c] = "store" /\ \E pc : cpc' = [cpc EXCEPT ![c] = pc] BY <1>5, Zenon DEF LoadOrStore
    <3> QED BY <1>0, <3>1, Zenon DEF Types
  <2>3. idToTrace'[id] = idToTrace[id] \/ (cpc'[c] = "add" /\ cid[c] = id)
    <3>1. CASE idToTrace[cid[c]] # 0
      BY <1>5, <3>1, StoreCases, Zenon
    <3>2. CASE idToTrace[cid[c]] = 0
      <4>1. cpc' = [cpc EXCEPT ![c] = "add"] /\ idToTrace' = [idToTrace EXCEPT ![cid[c]] = Len(traceData) + 1]
        BY <1>5, <3>2, StoreCases, Zenon
      <4> QED BY <1>0, <4>1, Zenon DEF Types
    <3> QED BY <3>1, <3>2, Zenon
  <2> QED BY <1>2, <2>1, <2>2, <2>3, Zenon DEF Posting
<1>6. ASSUME NEW c \in Caller, AddId(c) \/ CountTrace(c) \/ Uncount(c) PROVE Covered(id)'
  <2>1. UNCHANGED <<idToTrace, deleteChan, drop, cid>> BY <1>6, Zenon DEF AddId, CountTrace, Uncount, store
  <2>2. cpc[c] # "drop" /\ cpc'[c] \in Posting /\ \A d \in Caller : d # c => cpc'[d] = cpc[d]
    BY <1>0, <1>6, Zenon DEF AddId, CountTrace, Uncount, Posting, Types
  <2> QED BY <1>2, <2>1, <2>2, Zenon
<1>7. ASSUME NEW c \in Caller, PostDeletion(c) PROVE Covered(id)'
  <2>1. UNCHANGED <<idToTrace, drop, cid>> /\ cpc[c] = "post" BY <1>7, Zenon DEF PostDeletion
  <2>2. \A d \in Caller : d # c => cpc'[d] = cpc[d] BY <1>0, <1>7, Zenon DEF PostDeletion, Types
  <2>3. CASE Len(deleteChan) < NumTraces
    <3>1. deleteChan' = Append(deleteChan, cid[c]) BY <1>7, <2>3, Zenon DEF PostDeletion
    <3>2. cid[c] \in Id BY <2>1, Zenon DEF TokenInv, Tokens, Posting
    <3>3. /\ Len(deleteChan') = Len(deleteChan) + 1
          /\ \A i \in 1 .. Len(deleteChan) + 1 :
               deleteChan'[i] = IF i = Len(deleteChan) + 1 THEN cid[c] ELSE deleteChan[i]
      BY <1>0, <3>1, <3>2, Appended
    <3>4. (InChan(id) => InChan(id)') /\ (cid[c] = id => InChan(id)')
      BY <1>0, <3>3 DEF InChan
    <3> QED BY <2>1, <2>2, <3>4, Zenon DEF Covered
  <2>4. CASE ~(Len(deleteChan) < NumTraces)
    <3>1. cpc'[c] = "full" /\ UNCHANGED deleteChan BY <1>0, <1>7, <2>4, Zenon DEF PostDeletion, Types
    <3> QED BY <1>2, <2>1, <2>2, <3>1, Zenon DEF Posting
  <2> QED BY <2>3, <2>4, Zenon
<1>8. ASSUME NEW c \in Caller, ReceiveDrop(c) PROVE Covered(id)'
  <2>1. /\ UNCHANGED <<idToTrace, cid>> /\ cpc[c] = "full" /\ cpc'[c] = "drop"
        /\ deleteChan # << >> /\ deleteChan' = Tail(deleteChan) /\ drop'[c] = Head(deleteChan)
    BY <1>0, <1>8, Zenon DEF ReceiveDrop, Types
  <2>2. \A d \in Caller : d # c => cpc'[d] = cpc[d] /\ drop'[d] = drop[d]
    BY <1>0, <1>8, Zenon DEF ReceiveDrop, Types
  <2>3. /\ Len(deleteChan') = Len(deleteChan) - 1 /\ drop'[c] = deleteChan[1]
        /\ \A i \in 1 .. Len(deleteChan') : deleteChan'[i] = deleteChan[i + 1]
    BY <1>0, <2>1, HeadTail, Zenon
  <2>4. InChan(id) => InChan(id)' \/ drop'[c] = id
    <3> SUFFICES ASSUME NEW i \in 1 .. Len(deleteChan), deleteChan[i] = id, drop'[c] # id PROVE InChan(id)'
      BY Zenon DEF InChan
    <3>1. i # 1 BY <2>3, Zenon
    <3>2. i - 1 \in 1 .. Len(deleteChan') /\ deleteChan'[i - 1] = id BY <1>0, <2>3, <3>1
    <3> QED BY <3>2, Zenon DEF InChan
  <2>5. (\E d \in Caller : cpc[d] \in Posting /\ cid[d] = id)
           => \E d \in Caller : cpc'[d] \in Posting /\ cid'[d] = id
    BY <2>1, <2>2, Zenon DEF Posting
  <2>6. (\E d \in Caller : cpc[d] = "drop" /\ drop[d] = id)
           => \E d \in Caller : cpc'[d] = "drop" /\ drop'[d] = id
    BY <2>1, <2>2, Zenon
  <2> QED BY <2>1, <2>4, <2>5, <2>6, Zenon DEF Covered
<1>9. ASSUME NEW c \in Caller, dropTrace(c) PROVE Covered(id)'
  <2>1. /\ UNCHANGED <<deleteChan, cid>> /\ cpc[c] = "drop" /\ cpc'[c] \in Posting
        /\ \A d \in Caller : d # c => cpc'[d] = cpc[d] /\ drop'[d] = drop[d]
    BY <1>0, <1>9, Zenon DEF dropTrace, Types, Posting
  <2>2. CASE id = drop[c]
    <3>1. idToTrace'[id] = 0 BY <1>0, <1>9, <2>2, Zenon DEF dropTrace, Types
    <3> QED BY <3>1, Zenon DEF Covered
  <2>3. CASE id # drop[c]
    <3>1. idToTrace'[id] = idToTrace[id] BY <1>0, <1>9, <2>3, Zenon DEF dropTrace, Types
    <3>2. InChan(id)' <=> InChan(id) BY <2>1, Zenon DEF InChan
    <3>3. (\E d \in Caller : cpc[d] \in Posting /\ cid[d] = id)
             => \E d \in Caller : cpc'[d] \in Posting /\ cid'[d] = id
      BY <2>1, Zenon
    <3>4. (\E d \in Caller : cpc[d] = "drop" /\ drop[d] = id)
             => \E d \in Caller : cpc'[d] = "drop" /\ drop'[d] = id
      BY <2>1, <2>3, Zenon
    <3> QED BY <3>1, <3>2, <3>3, <3>4, Zenon DEF Covered
  <2> QED BY <2>2, <2>3, Zenon
<1>10. ASSUME NEW c \in Caller, Final(c) \/ Forward(c) PROVE Covered(id)'
  <2>1. cpc[c] \in {"final", "forward"} /\ UNCHANGED <<idToTrace, deleteChan, drop>>
    BY <1>10, Zenon DEF Final, Forward, store
  <2>2. \A d \in Caller : d # c => cpc'[d] = cpc[d] /\ cid'[d] = cid[d]
    BY <1>0, <1>10, Zenon DEF Final, Forward, Handled, Types
  <2> QED BY <1>2, <2>1, <2>2, Zenon DEF Posting
<1>11. CASE TickStep \/ Fill \/ Shutdown \/ UNCHANGED samplerVars
  BY <1>1, <1>11, Zenon DEF TickStep, Tick, TickTaking, TickDone, TickLoad, TickDecide, TickSet, TickForward, Fill,
       Shutdown, samplerVars, sampler, store, caller
<1> QED
  BY <1>3, <1>4, <1>5, <1>6, <1>7, <1>8, <1>9, <1>10, <1>11, Zenon DEF SamplerNext, Call

-----------------------------------------------------------------------------
(* numTracesOnMap counts the map *)

Counting == {c \in Caller : cpc[c] \in {"add", "count"}}
Uncounting == {c \in Caller : cpc[c] = "uncount"}

\* numTracesOnMap lags behind the map by the callers yet to count what they stored
\* or dropped.
CountedInv ==
  /\ numTracesOnMap \in Int
  /\ numTracesOnMap + Cardinality(Counting) = Cardinality(OnMap) + Cardinality(Uncounting)

LEMMA FiniteCounts ==
  /\ IsFiniteSet(Counting) /\ IsFiniteSet(Uncounting) /\ IsFiniteSet(OnMap)
  /\ Cardinality(Counting) \in Nat /\ Cardinality(Uncounting) \in Nat /\ Cardinality(OnMap) \in Nat
<1>1. Counting \in SUBSET Caller /\ Uncounting \in SUBSET Caller /\ OnMap \in SUBSET Id
  BY Zenon DEF Counting, Uncounting, OnMap
<1>2. IsFiniteSet(Counting) /\ IsFiniteSet(Uncounting) /\ IsFiniteSet(OnMap)
  <2>1. IsFiniteSet(Caller) /\ IsFiniteSet(Id)
    BY SamplerAssumption
  <2> QED BY <1>1, <2>1, FS_Subset, Zenon
<1> QED BY <1>2, FS_CardinalityType, Zenon

LEMMA CountedNext ==
  TokenInv /\ CountedInv /\ [SamplerNext]_samplerVars => CountedInv'
<1> SUFFICES ASSUME TokenInv, CountedInv, [SamplerNext]_samplerVars PROVE CountedInv'
  BY Zenon
<1>0. Types /\ numTracesOnMap \in Int
  BY Zenon DEF TokenInv, CountedInv
<1>a. /\ IsFiniteSet(Counting) /\ IsFiniteSet(Uncounting) /\ IsFiniteSet(OnMap)
      /\ Cardinality(Counting) \in Nat /\ Cardinality(Uncounting) \in Nat /\ Cardinality(OnMap) \in Nat
  BY FiniteCounts, Zenon
<1>b. numTracesOnMap + Cardinality(Counting) = Cardinality(OnMap) + Cardinality(Uncounting)
  BY Zenon DEF CountedInv
<1>1. ASSUME UNCHANGED <<numTracesOnMap, OnMap, Counting, Uncounting>> PROVE CountedInv'
  BY <1>0, <1>b, <1>1, Zenon DEF CountedInv
<1>2. ASSUME NEW c \in Caller, \A d \in Caller : d # c => cpc'[d] = cpc[d],
             cpc[c] \notin {"add", "count", "uncount"}, cpc'[c] \notin {"add", "count", "uncount"},
             UNCHANGED <<numTracesOnMap, idToTrace>>
      PROVE  CountedInv'
  <2>1. UNCHANGED <<Counting, Uncounting, OnMap>> BY <1>2, Zenon DEF Counting, Uncounting, OnMap
  <2> QED BY <1>1, <1>2, <2>1, Zenon
<1>3. ASSUME NEW c \in Caller, LoadOrStore(c) PROVE CountedInv'
  <2>1. numTracesOnMap' = numTracesOnMap BY <1>3, Zenon DEF LoadOrStore
  <2>2. CASE idToTrace[cid[c]] # 0
    <3>1. cpc[c] = "store" /\ cpc' = [cpc EXCEPT ![c] = "final"] /\ idToTrace' = idToTrace
      BY <1>3, <2>2, StoreCases, Zenon
    <3>2. cpc'[c] = "final" /\ \A d \in Caller : d # c => cpc'[d] = cpc[d] BY <1>0, <3>1, Zenon DEF Types
    <3> QED BY <1>2, <2>1, <3>1, <3>2, Zenon
  <2>3. CASE idToTrace[cid[c]] = 0
    <3>1. /\ cpc[c] = "store" /\ cpc' = [cpc EXCEPT ![c] = "add"] /\ cid[c] \in Id
          /\ idToTrace' = [idToTrace EXCEPT ![cid[c]] = Len(traceData) + 1]
      BY <1>3, <2>3, StoreCases, Zenon
    <3>2. Len(traceData) \in Nat BY <1>0 DEF Types
    <3>3. OnMap' = OnMap \cup {cid[c]} /\ cid[c] \notin OnMap
      BY <1>0, <2>3, <3>1, <3>2 DEF OnMap, Types
    <3>4. Counting' = Counting \cup {c} /\ c \notin Counting /\ Uncounting' = Uncounting
      BY <1>0, <3>1, Zenon DEF Counting, Uncounting, Types
    <3>5. Cardinality(OnMap') = Cardinality(OnMap) + 1 /\ Cardinality(Counting') = Cardinality(Counting) + 1
      BY <1>a, <3>3, <3>4, FS_AddElement, Zenon
    <3> QED BY <1>0, <1>a, <1>b, <2>1, <3>4, <3>5 DEF CountedInv
  <2> QED BY <2>2, <2>3, Zenon
<1>4. ASSUME NEW c \in Caller, AddId(c) PROVE CountedInv'
  <2>1. UNCHANGED <<numTracesOnMap, idToTrace>> /\ cpc[c] = "add" /\ cpc' = [cpc EXCEPT ![c] = "count"]
    BY <1>4, Zenon DEF AddId, store
  <2>2. UNCHANGED <<OnMap, Counting, Uncounting>>
    BY <1>0, <2>1, Zenon DEF OnMap, Counting, Uncounting, Types
  <2> QED BY <1>1, <2>1, <2>2, Zenon
<1>5. ASSUME NEW c \in Caller, CountTrace(c) PROVE CountedInv'
  <2>1. /\ idToTrace' = idToTrace /\ numTracesOnMap' = numTracesOnMap + 1
        /\ cpc[c] = "count" /\ cpc' = [cpc EXCEPT ![c] = "post"]
    BY <1>5, Zenon DEF CountTrace
  <2>2. OnMap' = OnMap /\ Uncounting' = Uncounting /\ Counting' = Counting \ {c} /\ c \in Counting
    BY <1>0, <2>1, Zenon DEF OnMap, Counting, Uncounting, Types
  <2>3. Cardinality(Counting') = Cardinality(Counting) - 1
    BY <1>a, <2>2, FS_RemoveElement, Zenon
  <2> QED BY <1>0, <1>a, <1>b, <2>1, <2>2, <2>3 DEF CountedInv
<1>6. ASSUME NEW c \in Caller, dropTrace(c) PROVE CountedInv'
  <2>1. cpc[c] = "drop" /\ numTracesOnMap' = numTracesOnMap
        /\ idToTrace' = [idToTrace EXCEPT ![drop[c]] = 0]
    BY <1>6, Zenon DEF dropTrace
  <2>2. drop[c] \in Id /\ idToTrace[drop[c]] # 0 BY <2>1, Zenon DEF TokenInv, Tokens
  <2>3. cpc' = [cpc EXCEPT ![c] = "uncount"] BY <1>6, <2>2, Zenon DEF dropTrace
  <2>4. OnMap' = OnMap \ {drop[c]} /\ drop[c] \in OnMap
    BY <1>0, <2>1, <2>2, Zenon DEF OnMap, Types
  <2>5. Counting' = Counting /\ Uncounting' = Uncounting \cup {c} /\ c \notin Uncounting
    BY <1>0, <2>1, <2>3, Zenon DEF Counting, Uncounting, Types
  <2>6. Cardinality(OnMap') = Cardinality(OnMap) - 1 /\ Cardinality(Uncounting') = Cardinality(Uncounting) + 1
    BY <1>a, <2>4, <2>5, FS_AddElement, FS_RemoveElement, Zenon
  <2> QED BY <1>0, <1>a, <1>b, <2>1, <2>5, <2>6 DEF CountedInv
<1>7. ASSUME NEW c \in Caller, Uncount(c) PROVE CountedInv'
  <2>1. /\ idToTrace' = idToTrace /\ numTracesOnMap' = numTracesOnMap - 1
        /\ cpc[c] = "uncount" /\ cpc' = [cpc EXCEPT ![c] = "post"]
    BY <1>7, Zenon DEF Uncount
  <2>2. OnMap' = OnMap /\ Counting' = Counting /\ Uncounting' = Uncounting \ {c} /\ c \in Uncounting
    BY <1>0, <2>1, Zenon DEF OnMap, Counting, Uncounting, Types
  <2>3. Cardinality(Uncounting') = Cardinality(Uncounting) - 1
    BY <1>a, <2>2, FS_RemoveElement, Zenon
  <2> QED BY <1>0, <1>a, <1>b, <2>1, <2>2, <2>3 DEF CountedInv
<1>8. ASSUME NEW c \in Caller,
             \/ Load(c) \/ PostDeletion(c) \/ ReceiveDrop(c) \/ Final(c) \/ Forward(c)
             \/ \E spans \in Calls : ConsumeTraces(c, spans)
      PROVE  CountedInv'
  <2>1. UNCHANGED <<numTracesOnMap, idToTrace>> /\ cpc[c] \notin {"add", "count", "uncount"}
    BY <1>8, Zenon DEF Load, PostDeletion, ReceiveDrop, Final, Forward, ConsumeTraces, store
  <2>2. cpc'[c] \notin {"add", "count", "uncount"} /\ \A d \in Caller : d # c => cpc'[d] = cpc[d]
    BY <1>0, <1>8, Zenon DEF Load, PostDeletion, ReceiveDrop, Final, Forward, Handled, ConsumeTraces, Types
  <2> QED BY <1>2, <2>1, <2>2, Zenon
<1>9. CASE TickStep \/ Fill \/ Shutdown \/ UNCHANGED samplerVars
  <2>1. UNCHANGED <<numTracesOnMap, idToTrace, cpc>>
    BY <1>9, Zenon DEF TickStep, Tick, TickTaking, TickDone, TickLoad, TickDecide, TickSet, TickForward, Fill,
         Shutdown, samplerVars, sampler, store, caller
  <2> QED BY <1>1, <2>1, Zenon DEF OnMap, Counting, Uncounting
<1> QED
  BY <1>3, <1>4, <1>5, <1>6, <1>7, <1>8, <1>9, Zenon DEF SamplerNext, Call

\* numTracesOnMap is not decremented below zero: the traces stored and not yet
\* counted are as many traces of the map.
LEMMA CountIsNat ==
  TokenInv /\ CountedInv => numTracesOnMap \in Nat
<1> SUFFICES ASSUME TokenInv, CountedInv PROVE numTracesOnMap \in Nat
  BY Zenon
<1>1. [c \in Counting |-> cid[c]] \in Injection(Counting, OnMap)
  BY DEF Injection, IsInjective, Counting, OnMap, TokenInv, Tokens, Posting
<1>2. Cardinality(Counting) <= Cardinality(OnMap)
  BY <1>1, FiniteCounts, FS_Injection, Zenon
<1> QED BY <1>2, FiniteCounts DEF CountedInv

LEMMA ImageBound ==
  \A S, f :
    IsFiniteSet(S)
      => /\ IsFiniteSet({f[x] : x \in S}) /\ Cardinality({f[x] : x \in S}) \in Nat
         /\ Cardinality({f[x] : x \in S}) <= Cardinality(S)
<1> SUFFICES ASSUME NEW S, NEW f, IsFiniteSet(S)
             PROVE  /\ IsFiniteSet({f[x] : x \in S}) /\ Cardinality({f[x] : x \in S}) \in Nat
                    /\ Cardinality({f[x] : x \in S}) <= Cardinality(S)
  BY Zenon
<1>1. [x \in S |-> f[x]] \in Surjection(S, {f[x] : x \in S})
  BY Zenon DEF Surjection
<1>2. IsFiniteSet({f[x] : x \in S}) /\ Cardinality({f[x] : x \in S}) <= Cardinality(S)
  BY <1>1, FS_Surjection, Zenon
<1> QED BY <1>2, FS_CardinalityType, Zenon

LEMMA UnionBound ==
  \A S, T :
    IsFiniteSet(S) /\ IsFiniteSet(T)
      => /\ IsFiniteSet(S \cup T) /\ Cardinality(S \cup T) \in Nat
         /\ Cardinality(S \cup T) <= Cardinality(S) + Cardinality(T)
<1> SUFFICES ASSUME NEW S, NEW T, IsFiniteSet(S), IsFiniteSet(T)
             PROVE  /\ IsFiniteSet(S \cup T) /\ Cardinality(S \cup T) \in Nat
                    /\ Cardinality(S \cup T) <= Cardinality(S) + Cardinality(T)
  BY Zenon
<1>1. S \cap T \in SUBSET S BY Zenon
<1>2. IsFiniteSet(S \cap T) BY <1>1, FS_Subset, Zenon
<1>3. Cardinality(S \cap T) \in Nat /\ Cardinality(S) \in Nat /\ Cardinality(T) \in Nat
  BY <1>2, FS_CardinalityType, Zenon
<1>4. IsFiniteSet(S \cup T) /\ Cardinality(S \cup T) = Cardinality(S) + Cardinality(T) - Cardinality(S \cap T)
  BY FS_Union, Zenon
<1>5. Cardinality(S \cup T) \in Nat BY <1>4, FS_CardinalityType, Zenon
<1> QED BY <1>3, <1>4, <1>5

\* The map is no larger than its tokens.
LEMMA TokensBoundMap ==
  TokenInv /\ CoveredInv /\ ChannelsOK => MapIsBounded
<1> SUFFICES ASSUME TokenInv, CoveredInv, ChannelsOK PROVE MapIsBounded
  BY Zenon
<1> DEFINE P == {c \in Caller : cpc[c] \notin {"idle", "next", "store", "final", "forward"}}
           D == {c \in Caller : cpc[c] = "drop"}
           N == 1 .. Len(deleteChan)
           ofChan == {deleteChan[x] : x \in N}
           ofPosting == {cid[x] : x \in P}
           ofDropping == {drop[x] : x \in D}
<1>1. Len(deleteChan) \in Nat /\ NumTraces \in Nat BY SamplerAssumption DEF TokenInv, Types
<1>2. IsFiniteSet(N) /\ Cardinality(N) = Len(deleteChan)
  BY <1>1, FS_Interval
<1>3. /\ IsFiniteSet(P) /\ IsFiniteSet(D) /\ Cardinality(P) \in Nat /\ Cardinality(D) \in Nat
  <2>1. P \in SUBSET Caller /\ D \in SUBSET Caller BY Zenon
  <2>2. IsFiniteSet(Caller) BY SamplerAssumption
  <2>3. IsFiniteSet(P) /\ IsFiniteSet(D) BY <2>1, <2>2, FS_Subset, Zenon
  <2> QED BY <2>3, FS_CardinalityType, Zenon
<1>4. OnMap \subseteq (ofChan \cup ofPosting) \cup ofDropping
  <2> SUFFICES ASSUME NEW id \in OnMap PROVE id \in (ofChan \cup ofPosting) \cup ofDropping
    BY Zenon
  <2>1. id \in Id /\ idToTrace[id] # 0 BY Zenon DEF OnMap
  <2>2. Covered(id) BY <2>1, Zenon DEF CoveredInv
  <2> QED BY <2>1, <2>2, Zenon DEF Covered, InChan, Posting
<1> HIDE DEF P, D, N
<1>5. /\ IsFiniteSet(ofChan) /\ Cardinality(ofChan) \in Nat /\ Cardinality(ofChan) <= Cardinality(N)
  BY <1>2, ImageBound, Zenon
<1>6. /\ IsFiniteSet(ofPosting) /\ Cardinality(ofPosting) \in Nat /\ Cardinality(ofPosting) <= Cardinality(P)
  BY <1>3, ImageBound, Zenon
<1>7. /\ IsFiniteSet(ofDropping) /\ Cardinality(ofDropping) \in Nat /\ Cardinality(ofDropping) <= Cardinality(D)
  BY <1>3, ImageBound, Zenon
<1> HIDE DEF ofChan, ofPosting, ofDropping
<1>8. /\ IsFiniteSet(ofChan \cup ofPosting) /\ Cardinality(ofChan \cup ofPosting) \in Nat
      /\ Cardinality(ofChan \cup ofPosting) <= Cardinality(ofChan) + Cardinality(ofPosting)
  BY <1>5, <1>6, UnionBound, Zenon
<1>9. /\ IsFiniteSet((ofChan \cup ofPosting) \cup ofDropping)
      /\ Cardinality((ofChan \cup ofPosting) \cup ofDropping) \in Nat
      /\ Cardinality((ofChan \cup ofPosting) \cup ofDropping)
           <= Cardinality(ofChan \cup ofPosting) + Cardinality(ofDropping)
  BY <1>7, <1>8, UnionBound, Zenon
<1>10. Cardinality(OnMap) <= Cardinality((ofChan \cup ofPosting) \cup ofDropping) /\ Cardinality(OnMap) \in Nat
  BY <1>4, <1>9, FS_Subset, FiniteCounts, Zenon
<1>11. Cardinality(N) <= NumTraces /\ Cardinality(N) \in Nat BY <1>1, <1>2, Zenon DEF ChannelsOK
<1>12. Cardinality(OnMap) <= NumTraces + Cardinality(D) + Cardinality(P)
  BY <1>1, <1>3, <1>5, <1>6, <1>7, <1>8, <1>9, <1>10, <1>11
<1> QED BY <1>12, Zenon DEF MapIsBounded, P, D

\* The map, the batcher and deleteChan agree, for any callers, traces and num_traces:
\* a trace without a decision is on its way to the ticker, a trace received from
\* deleteChan is in the map, numTracesOnMap never wraps around, and num_traces bounds
\* the map but for the callers that are about to post or to drop an id.
THEOREM SamplerSafe == SamplerSpec => []SamplerInv
<1> DEFINE Inv == ChannelsOK /\ CoveredInv /\ CountedInv /\ early \subseteq Id
<1>1. SamplerInit => Inv
  <2> SUFFICES ASSUME SamplerInit PROVE Inv
    BY Zenon
  <2>1. ChannelsOK
    <3>1. batches = [i \in 1 .. NumBatches |-> << >>] /\ Len(batches) = NumBatches
      BY BatcherAssumption DEF SamplerInit, BatcherInit
    <3>2. deleteChan = << >> /\ pendingIds = << >> BY Zenon DEF SamplerInit, BatcherInit
    <3> QED BY <3>1, <3>2, SamplerAssumption, BatcherAssumption DEF ChannelsOK
  <2>2. CoveredInv BY Zenon DEF SamplerInit, CoveredInv, Covered
  <2>3. CountedInv
    <3>1. Counting = {} /\ Uncounting = {} /\ OnMap = {} /\ numTracesOnMap = 0
      BY Zenon DEF SamplerInit, Counting, Uncounting, OnMap
    <3> QED BY <3>1, FS_EmptySet DEF CountedInv
  <2>4. early \subseteq Id BY Zenon DEF SamplerInit
  <2> QED BY <2>1, <2>2, <2>3, <2>4, Zenon
<1>2. LaneInv /\ Inv /\ [SamplerNext]_samplerVars => Inv'
  <2> SUFFICES ASSUME LaneInv, Inv, [SamplerNext]_samplerVars PROVE Inv'
    BY Zenon
  <2>1. TokenInv /\ BatcherInv BY Zenon DEF LaneInv, SpanInv
  <2>2. ChannelsOK' BY <2>1, ChannelsNext, Zenon
  <2>3. CoveredInv' BY <2>1, CoveredNext, Zenon DEF CoveredInv
  <2>4. CountedInv' BY <2>1, CountedNext, Zenon
  <2>5. early' \subseteq Id
    <3>1. ASSUME NEW c \in Caller, dropTrace(c) PROVE early' \subseteq Id
      BY <2>1, <3>1, Zenon DEF dropTrace, TokenInv, Tokens
    <3>2. CASE early' = early BY <3>2, Zenon
    <3> QED
      BY <3>1, <3>2, Zenon DEF SamplerNext, Call, TickStep, Tick, TickTaking, TickDone, TickLoad, TickDecide, TickSet,
           TickForward, Fill, Shutdown, ConsumeTraces, Load, LoadOrStore, AddId, CountTrace, PostDeletion,
           ReceiveDrop, Uncount, Final, Forward, samplerVars, sampler, store
  <2> QED BY <2>2, <2>3, <2>4, <2>5, Zenon
<1>3. LaneInv /\ Inv => SamplerInv
  <2> SUFFICES ASSUME LaneInv, Inv PROVE SamplerInv
    BY Zenon
  <2>0. TokenInv /\ BatcherInv /\ TickerOK /\ RefsOK /\ SpansOK BY Zenon DEF LaneInv, SpanInv
  <2>1. MapIsBounded BY <2>0, TokensBoundMap, Zenon
  <2>2. DropFindsTrace BY <2>0, Zenon DEF DropFindsTrace, TokenInv, Tokens, OnMap
  <2>3. UndecidedIsQueued
    BY <2>0, QueuedInLanes, Zenon DEF UndecidedIsQueued, LaneInv, QueuedInv, Undecided, OnMap
  <2>4. SamplerTypeOK
    <3>1. Len(traceData) \in Nat /\ DOMAIN traceData = 1 .. Len(traceData)
      BY <2>0 DEF TokenInv, Types
    <3>2. idToTrace \in [Id -> 0 .. Len(traceData)] /\ cdata \in [Caller -> 0 .. Len(traceData)]
      BY <2>0, <3>1 DEF TokenInv, Types, RefsOK
    <3>3. \A i \in DOMAIN traceData : /\ traceData[i].spans \subseteq Span
                                     /\ traceData[i].decision \in {"Unspecified", "Sampled", "NotSampled"}
      <4> SUFFICES ASSUME NEW i \in 1 .. Len(traceData)
                   PROVE  /\ traceData[i].spans \subseteq Span
                          /\ traceData[i].decision \in {"Unspecified", "Sampled", "NotSampled"}
        BY <3>1, Zenon
      <4>1. traceData[i] \in TraceData BY <2>0, SeqElement, Zenon DEF TokenInv, Types
      <4> QED BY <4>1, Zenon DEF TraceData, Decisions
    <3>5. numTracesOnMap \in Nat BY <2>0, CountIsNat, Zenon
    <3> QED BY <2>0, <3>2, <3>3, <3>5, Zenon DEF SamplerTypeOK, TokenInv, Types, ChannelsOK
  <2> QED BY <2>1, <2>2, <2>3, <2>4, Zenon DEF SamplerInv
<1> QED BY <1>1, <1>2, <1>3, LaneInvariant, PTL DEF SamplerSpec
=============================================================================
