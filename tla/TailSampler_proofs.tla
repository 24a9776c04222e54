-------------------------- MODULE TailSampler_proofs --------------------------
(***************************************************************************)
(* The batcher implements BatchPipeline, for any ids and channel sizes.    *)
(* For any callers, traces, spans and num_traces: no span of the sampler   *)
(* is lost, every id received from deleteChan is in the map, nobody waits  *)
(* for ever to receive one, and the batcher of the sampler is the pipeline *)
(* of BatchPipeline.                                                       *)
(***************************************************************************)
EXTENDS TailSampler, TLAPS

\* A leaf goes to the SMT solver unless it cites another prover.
USE SMTT(30)

-----------------------------------------------------------------------------
(* Elements, domains and parts of sequences *)

LEMMA SeqElement ==
  \A S : \A s \in Seq(S) : \A i \in 1 .. Len(s) :
    s[i] \in S
OBVIOUS

LEMMA SeqDomain ==
  \A S : \A s \in Seq(S) :
    Len(s) \in Nat /\ s \in [1 .. Len(s) -> S] /\ DOMAIN s = 1 .. Len(s)
OBVIOUS

LEMMA FunctionIsSeq ==
  \A S : \A n \in Nat : \A f \in [1 .. n -> S] :
    f \in Seq(S) /\ Len(f) = n
OBVIOUS

LEMMA SeqReplaced ==
  \A S : \A s \in Seq(S) : \A i \in 1 .. Len(s), e \in S :
    /\ [s EXCEPT ![i] = e] \in Seq(S) /\ Len([s EXCEPT ![i] = e]) = Len(s)
    /\ \A j \in 1 .. Len(s) : [s EXCEPT ![i] = e][j] = IF j = i THEN e ELSE s[j]
<1> SUFFICES ASSUME NEW S, NEW s \in Seq(S), NEW i \in 1 .. Len(s), NEW e \in S
             PROVE  /\ [s EXCEPT ![i] = e] \in Seq(S) /\ Len([s EXCEPT ![i] = e]) = Len(s)
                    /\ \A j \in 1 .. Len(s) : [s EXCEPT ![i] = e][j] = IF j = i THEN e ELSE s[j]
  BY Zenon
<1>1. Len(s) \in Nat /\ s \in [1 .. Len(s) -> S] /\ DOMAIN s = 1 .. Len(s) BY SeqDomain, Zenon
<1>2. [s EXCEPT ![i] = e] \in [1 .. Len(s) -> S] BY <1>1, Zenon
<1> QED BY <1>1, <1>2, FunctionIsSeq, Zenon

LEMMA Appended ==
  \A S : \A s \in Seq(S), e \in S :
    /\ Append(s, e) \in Seq(S) /\ Len(s) \in Nat /\ Len(Append(s, e)) = Len(s) + 1
    /\ \A i \in 1 .. Len(s) + 1 : Append(s, e)[i] = IF i = Len(s) + 1 THEN e ELSE s[i]
OBVIOUS

LEMMA WholeSubSeq ==
  \A S : \A s \in Seq(S) :
    SubSeq(s, 1, Len(s)) = s
OBVIOUS

LEMMA SubSeqEnds ==
  \A S : \A s \in Seq(S) : \A m \in 1 .. Len(s) :
    Head(SubSeq(s, m, Len(s))) = s[m] /\ Tail(SubSeq(s, m, Len(s))) = SubSeq(s, m + 1, Len(s))
OBVIOUS

-----------------------------------------------------------------------------
(* The batcher *)

Batch == Seq(Id)

\* What the refinement needs: Stop sets stopped under its lock once nothing is
\* left to append, and the taker pushes only under the same lock.
BatcherInv ==
  /\ pendingIds \in Seq(Id) /\ pendingClosed \in BOOLEAN
  /\ held = << >> \/ \E id \in Id : held = <<id>>
  /\ currentBatch \in Batch /\ batches \in Seq(Batch) /\ batchesClosed \in BOOLEAN
  /\ stopped \in BOOLEAN /\ readLock \in BOOLEAN
  /\ taker \in {"idle", "read", "push"} /\ readBatch \in Batch /\ batch \in Batch
  /\ stopper \in {"idle", "lock", "locked", "close", "done"}
  /\ pendingClosed <=> stopper # "idle"
  /\ stopped <=> stopper \in {"close", "done"}
  /\ batchesClosed <=> stopper = "done"
  /\ stopped => pendingIds = << >> /\ held = << >>
  /\ readLock <=> taker = "push"
  /\ taker = "push" => stopper \notin {"locked", "close", "done"}

\* The first and the rest of a pipe with a batch put back before it.
LEMMA PutBack ==
  \A S : \A e \in S, s \in Seq(S) :
    /\ <<e>> \o s \in Seq(S) /\ <<e>> \o s # << >>
    /\ Head(<<e>> \o s) = e /\ Tail(<<e>> \o s) = s
OBVIOUS

LEMMA HeadBack ==
  \A S : \A s \in Seq(S) :
    s # << >> => /\ Head(s) \in S /\ Tail(s) \in Seq(S) /\ <<Head(s)>> \o Tail(s) = s
OBVIOUS

LEMMA BatcherInvInit == BatcherInit => BatcherInv
<1> SUFFICES ASSUME BatcherInit PROVE BatcherInv
  BY Zenon
<1>1. [i \in 1 .. NumBatches |-> << >>] \in [1 .. NumBatches -> Batch]
  BY DEF Batch
<1>2. batches \in Seq(Batch)
  BY <1>1, FunctionIsSeq, BatcherAssumption, Zenon DEF BatcherInit
<1>3. /\ pendingIds = << >> /\ held = << >> /\ currentBatch = << >>
      /\ readBatch = << >> /\ batch = << >> /\ taker = "idle" /\ stopper = "idle"
      /\ ~pendingClosed /\ ~batchesClosed /\ ~stopped /\ ~readLock
  BY Zenon DEF BatcherInit
<1>4. {pendingClosed, batchesClosed, stopped, readLock} \subseteq BOOLEAN
  BY Zenon DEF BatcherInit
<1> QED
  BY <1>2, <1>3, <1>4 DEF BatcherInv, Batch

LEMMA BatcherInvNext == BatcherInv /\ [BatcherNext]_batcher => BatcherInv'
<1> SUFFICES ASSUME BatcherInv, [BatcherNext]_batcher PROVE BatcherInv'
  BY Zenon
<1> USE DEF BatcherInv, Batch
<1>1. ASSUME NEW id \in Id, AddToCurrentBatch(id) PROVE BatcherInv'
  BY <1>1 DEF AddToCurrentBatch
<1>2. CASE ReceiveId
  BY <1>2 DEF ReceiveId
<1>3. CASE AppendId
  <2>1. currentBatch' \in Batch
    BY <1>3 DEF AppendId
  <2> QED
    BY <1>3, <2>1, Zenon DEF AppendId
<1>4. CASE ReadBatch
  BY <1>4 DEF ReadBatch
<1>5. CASE ReadLock
  BY <1>5, Zenon DEF ReadLock, Return
<1>6. CASE PushCurrent
  <2>1. batches' \in Seq(Batch)
    BY <1>6 DEF PushCurrent
  <2>2. /\ taker = "push" /\ Return(readBatch, << >>)
        /\ UNCHANGED <<pendingIds, pendingClosed, held, batchesClosed, stopped, stopper>>
    BY <1>6, Zenon DEF PushCurrent
  <2>3. currentBatch' \in Batch /\ readBatch' \in Batch /\ batch' \in Batch
    BY <2>2 DEF Return
  <2>4. taker' = "idle" /\ ~readLock' /\ readLock' \in BOOLEAN
    BY <2>2, Zenon DEF Return
  <2>5. stopped' => pendingIds' = << >> /\ held' = << >>
    BY <2>2, Zenon
  <2> QED
    BY <2>1, <2>2, <2>3, <2>4, <2>5, Zenon
<1>7. CASE TakeCurrent
  BY <1>7, Zenon DEF TakeCurrent, Return
<1>8. CASE ClosePending
  BY <1>8, Zenon DEF ClosePending
<1>9. CASE StopLock
  BY <1>9, Zenon DEF StopLock
<1>10. CASE StopAnswered
  BY <1>10, Zenon DEF StopAnswered
<1>11. CASE CloseBatches
  BY <1>11, Zenon DEF CloseBatches
<1>12. CASE UNCHANGED batcher
  BY <1>12, Zenon DEF batcher
<1> QED
  BY <1>1, <1>2, <1>3, <1>4, <1>5, <1>6, <1>7, <1>8, <1>9, <1>10, <1>11, <1>12, Zenon DEF BatcherNext

LEMMA PipelineInitial == BatcherInit => Pipeline!PipelineInit
BY Zenon DEF BatcherInit, Pipeline!PipelineInit

LEMMA PipelineStep ==
  BatcherInv /\ [BatcherNext]_batcher => [Pipeline!PipelineNext]_(Pipeline!pipeline)
<1> SUFFICES ASSUME BatcherInv, [BatcherNext]_batcher
             PROVE  [Pipeline!PipelineNext]_(Pipeline!pipeline)
  BY Zenon
<1> USE DEF BatcherInv, Pipeline!pipeline
<1>1. ASSUME NEW id \in Id, AddToCurrentBatch(id) PROVE UNCHANGED Pipeline!pipeline
  BY <1>1, Zenon DEF AddToCurrentBatch
<1>2. CASE ReceiveId
  BY <1>2, Zenon DEF ReceiveId
<1>3. CASE AppendId
  <2>1. PICK id \in Id : held = <<id>>
    BY <1>3, Zenon DEF AppendId
  <2>2. Pipeline!Add(id)
    BY <1>3, <2>1, Zenon DEF AppendId, Pipeline!Add
  <2> QED
    BY <2>2, Zenon DEF Pipeline!PipelineNext
<1>4. CASE ReadBatch
  <2>1. <<Head(batches)>> \o Tail(batches) = batches
    BY <1>4, HeadBack, Zenon DEF ReadBatch
  <2> QED
    BY <1>4, <2>1, Zenon DEF ReadBatch
<1>5. CASE ReadLock
  <2>1. CASE stopped
    <3>1. Pipeline!Take
      BY <1>5, <2>1, PutBack, Zenon DEF ReadLock, Return, Pipeline!Take
    <3> QED
      BY <3>1, Zenon DEF Pipeline!PipelineNext
  <2>2. CASE ~stopped
    BY <1>5, <2>2, Zenon DEF ReadLock
  <2> QED
    BY <2>1, <2>2, Zenon
<1>6. CASE PushCurrent
  <2>1. Pipeline!CloseAndTake
    BY <1>6, PutBack, Zenon DEF PushCurrent, Return, Pipeline!CloseAndTake
  <2> QED
    BY <2>1, Zenon DEF Pipeline!PipelineNext
<1>7. CASE TakeCurrent
  <2>1. Pipeline!TakeLast
    BY <1>7, Zenon DEF TakeCurrent, Return, Pipeline!TakeLast
  <2> QED
    BY <2>1, Zenon DEF Pipeline!PipelineNext
<1>8. CASE ClosePending
  BY <1>8, Zenon DEF ClosePending
<1>9. CASE StopLock
  BY <1>9, Zenon DEF StopLock
<1>10. CASE StopAnswered
  <2>1. Pipeline!End
    BY <1>10, Zenon DEF StopAnswered, Pipeline!End
  <2> QED
    BY <2>1, Zenon DEF Pipeline!PipelineNext
<1>11. CASE CloseBatches
  BY <1>11, Zenon DEF CloseBatches
<1>12. CASE UNCHANGED batcher
  BY <1>12, Zenon DEF batcher
<1> QED
  BY <1>1, <1>2, <1>3, <1>4, <1>5, <1>6, <1>7, <1>8, <1>9, <1>10, <1>11, <1>12, Zenon DEF BatcherNext

\* The batcher, with adders, the ticker and Stop interleaved step by step, does
\* nothing that the pipeline of BatchPipeline does not do: taking a batch is
\* atomic, no id is lost, and none is added after Stop.
THEOREM BatcherImplementsPipeline == BatcherSpec => BatcherIsPipeline
<1>1. BatcherSpec => []BatcherInv
  BY BatcherInvInit, BatcherInvNext, PTL DEF BatcherSpec
<1> QED
  BY <1>1, PipelineInitial, PipelineStep, PTL
     DEF BatcherSpec, BatcherIsPipeline, Pipeline!PipelineSpec

-----------------------------------------------------------------------------
(* Ids in several sequences at once *)

\* L is a function from D to sequences of ids: id is in one of them, and no id outside
\* E is in them at two places.
Holds(D, L, id) == \E l \in D : \E i \in 1 .. Len(L[l]) : L[l][i] = id
OnceIn(D, L, E) ==
  \A l, m \in D : \A i \in 1 .. Len(L[l]), j \in 1 .. Len(L[m]) :
    L[l][i] = L[m][j] => (l = m /\ i = j) \/ L[l][i] \in E

LEMMA HeadTail ==
  \A s \in Seq(Id) :
    s # << >>
      => /\ Len(s) \in Nat \ {0} /\ Head(s) = s[1] /\ Head(s) \in Id /\ Tail(s) \in Seq(Id)
         /\ Len(Tail(s)) = Len(s) - 1 /\ \A i \in 1 .. Len(s) - 1 : Tail(s)[i] = s[i + 1]
OBVIOUS

\* The first element of a sequence moves to the end of another one.
HeadMove(D, L, M, a, b) ==
  /\ L \in [D -> Seq(Id)] /\ M \in [D -> Seq(Id)] /\ a \in D /\ b \in D /\ a # b /\ L[a] # << >>
  /\ M[a] = Tail(L[a]) /\ M[b] = Append(L[b], Head(L[a]))
  /\ \A l \in D : l # a /\ l # b => M[l] = L[l]

LEMMA HeadMoves ==
  \A D, L, M, E, a, b :
    HeadMove(D, L, M, a, b)
      => /\ OnceIn(D, L, E) => OnceIn(D, M, E)
         /\ \A id : Holds(D, L, id) <=> Holds(D, M, id)
<1> SUFFICES ASSUME NEW D, NEW L, NEW M, NEW E, NEW a, NEW b, HeadMove(D, L, M, a, b)
             PROVE  /\ OnceIn(D, L, E) => OnceIn(D, M, E)
                    /\ \A id : Holds(D, L, id) <=> Holds(D, M, id)
  BY Zenon
<1> USE DEF HeadMove
<1> DEFINE last == Len(L[b]) + 1
           fl(l, i) == IF l = b /\ i = last THEN a ELSE l
           fi(l, i) == IF l = a THEN i + 1 ELSE IF l = b /\ i = last THEN 1 ELSE i
<1>1. /\ Len(L[a]) \in Nat \ {0} /\ Head(L[a]) = L[a][1] /\ Head(L[a]) \in Id
      /\ Len(M[a]) = Len(L[a]) - 1 /\ \A i \in 1 .. Len(M[a]) : M[a][i] = L[a][i + 1]
  BY HeadTail
<1>2. /\ Len(L[b]) \in Nat /\ Len(M[b]) = last
      /\ \A i \in 1 .. last : M[b][i] = IF i = last THEN L[a][1] ELSE L[b][i]
  BY <1>1, Appended
<1>3. \A l \in D : \A i \in 1 .. Len(M[l]) :
        fl(l, i) \in D /\ fi(l, i) \in 1 .. Len(L[fl(l, i)]) /\ M[l][i] = L[fl(l, i)][fi(l, i)]
  <2> SUFFICES ASSUME NEW l \in D, NEW i \in 1 .. Len(M[l])
               PROVE  /\ fl(l, i) \in D /\ fi(l, i) \in 1 .. Len(L[fl(l, i)])
                      /\ M[l][i] = L[fl(l, i)][fi(l, i)]
    BY Zenon
  <2>1. CASE l = a
    <3>1. i + 1 \in 1 .. Len(L[a]) BY <1>1, <2>1
    <3> QED BY <1>1, <2>1, <3>1, Zenon
  <2>2. CASE l = b /\ i = last
    <3>1. 1 \in 1 .. Len(L[a]) BY <1>1
    <3> QED BY <1>1, <1>2, <2>2, <3>1, Zenon
  <2>3. CASE l = b /\ i # last
    <3>1. i \in 1 .. Len(L[b]) BY <1>2, <2>3
    <3> QED BY <1>2, <2>3, <3>1, Zenon
  <2>4. CASE l # a /\ l # b
    BY <2>4, Zenon
  <2> QED BY <2>1, <2>2, <2>3, <2>4, Zenon
<1>4. \A l, m \in D : \A i \in 1 .. Len(M[l]), j \in 1 .. Len(M[m]) :
        fl(l, i) = fl(m, j) /\ fi(l, i) = fi(m, j) => l = m /\ i = j
  BY <1>1, <1>2
<1>5. OnceIn(D, L, E) => OnceIn(D, M, E)
  <2> HIDE DEF fl, fi
  <2> SUFFICES ASSUME OnceIn(D, L, E), NEW l \in D, NEW m \in D, NEW i \in 1 .. Len(M[l]),
                      NEW j \in 1 .. Len(M[m]), M[l][i] = M[m][j]
               PROVE  (l = m /\ i = j) \/ M[l][i] \in E
    BY Zenon DEF OnceIn
  <2>1. PICK k : k = fl(l, i) BY Zenon
  <2>2. PICK p : p = fi(l, i) BY Zenon
  <2>3. PICK n : n = fl(m, j) BY Zenon
  <2>4. PICK q : q = fi(m, j) BY Zenon
  <2>5. /\ k \in D /\ p \in 1 .. Len(L[k]) /\ M[l][i] = L[k][p]
        /\ n \in D /\ q \in 1 .. Len(L[n]) /\ M[m][j] = L[n][q]
    BY <1>3, <2>1, <2>2, <2>3, <2>4, Zenon
  <2>6. L[k][p] = L[n][q] => (k = n /\ p = q) \/ L[k][p] \in E
    BY <2>5, Zenon DEF OnceIn
  <2>7. fl(l, i) = fl(m, j) /\ fi(l, i) = fi(m, j) => l = m /\ i = j
    BY <1>4
  <2> QED BY <2>1, <2>2, <2>3, <2>4, <2>5, <2>6, <2>7, Zenon
<1>6. \A id : Holds(D, M, id) => Holds(D, L, id)
  <2> HIDE DEF fl, fi
  <2> SUFFICES ASSUME NEW id, NEW l \in D, NEW i \in 1 .. Len(M[l]), M[l][i] = id
               PROVE  Holds(D, L, id)
    BY Zenon DEF Holds
  <2>1. PICK k : k = fl(l, i) BY Zenon
  <2>2. PICK p : p = fi(l, i) BY Zenon
  <2>3. k \in D /\ p \in 1 .. Len(L[k]) /\ id = L[k][p]
    BY <1>3, <2>1, <2>2, Zenon
  <2> QED BY <2>3, Zenon DEF Holds
<1>7. ASSUME NEW l \in D, NEW i \in 1 .. Len(L[l])
      PROVE  \E m \in D : \E j \in 1 .. Len(M[m]) : M[m][j] = L[l][i]
  <2>1. CASE l = a /\ i = 1
    <3>1. last \in 1 .. Len(M[b]) /\ M[b][last] = L[l][i] BY <1>2, <2>1
    <3> QED BY <3>1, Zenon
  <2>2. CASE l = a /\ i # 1
    <3>1. i - 1 \in 1 .. Len(M[a]) /\ M[a][i - 1] = L[l][i] BY <1>1, <2>2
    <3> QED BY <3>1, Zenon
  <2>3. CASE l = b
    <3>1. i \in 1 .. Len(M[b]) /\ M[b][i] = L[l][i] BY <1>2, <2>3
    <3> QED BY <3>1, Zenon
  <2>4. CASE l # a /\ l # b
    BY <2>4, Zenon
  <2> QED BY <2>1, <2>2, <2>3, <2>4, Zenon
<1>8. \A id : Holds(D, L, id) => Holds(D, M, id)
  <2> SUFFICES ASSUME NEW id, NEW l \in D, NEW i \in 1 .. Len(L[l]), L[l][i] = id
               PROVE  Holds(D, M, id)
    BY Zenon DEF Holds
  <2>1. PICK m \in D : \E j \in 1 .. Len(M[m]) : M[m][j] = L[l][i]
    BY <1>7, Zenon
  <2> QED BY <2>1, Zenon DEF Holds
<1> QED BY <1>5, <1>6, <1>8, Zenon

\* The first element of a sequence leaves it.
HeadLoss(D, L, M, a) ==
  /\ L \in [D -> Seq(Id)] /\ M \in [D -> Seq(Id)] /\ a \in D /\ L[a] # << >>
  /\ M[a] = Tail(L[a]) /\ \A l \in D : l # a => M[l] = L[l]

LEMMA HeadLost ==
  \A D, L, M, E, a :
    HeadLoss(D, L, M, a)
      => /\ OnceIn(D, L, E) => OnceIn(D, M, E)
         /\ \A id : Holds(D, M, id) => Holds(D, L, id)
         /\ \A id : Holds(D, L, id) => Holds(D, M, id) \/ id = Head(L[a])
         /\ OnceIn(D, L, E) /\ Holds(D, M, Head(L[a])) => Head(L[a]) \in E
         /\ Holds(D, L, Head(L[a]))
<1> SUFFICES ASSUME NEW D, NEW L, NEW M, NEW E, NEW a, HeadLoss(D, L, M, a)
             PROVE  /\ OnceIn(D, L, E) => OnceIn(D, M, E)
                    /\ \A id : Holds(D, M, id) => Holds(D, L, id)
                    /\ \A id : Holds(D, L, id) => Holds(D, M, id) \/ id = Head(L[a])
                    /\ OnceIn(D, L, E) /\ Holds(D, M, Head(L[a])) => Head(L[a]) \in E
                    /\ Holds(D, L, Head(L[a]))
  BY Zenon
<1> USE DEF HeadLoss
<1> DEFINE fi(l, i) == IF l = a THEN i + 1 ELSE i
<1>1. /\ Len(L[a]) \in Nat \ {0} /\ Head(L[a]) = L[a][1]
      /\ Len(M[a]) = Len(L[a]) - 1 /\ \A i \in 1 .. Len(M[a]) : M[a][i] = L[a][i + 1]
  BY HeadTail
<1>2. \A l \in D : \A i \in 1 .. Len(M[l]) :
        /\ fi(l, i) \in 1 .. Len(L[l]) /\ M[l][i] = L[l][fi(l, i)]
        /\ \A j \in 1 .. Len(M[l]) : fi(l, i) = fi(l, j) => i = j
        /\ ~(l = a /\ fi(l, i) = 1)
  <2> SUFFICES ASSUME NEW l \in D, NEW i \in 1 .. Len(M[l])
               PROVE  /\ fi(l, i) \in 1 .. Len(L[l]) /\ M[l][i] = L[l][fi(l, i)]
                      /\ \A j \in 1 .. Len(M[l]) : fi(l, i) = fi(l, j) => i = j
                      /\ ~(l = a /\ fi(l, i) = 1)
    BY Zenon
  <2>1. CASE l = a
    <3>1. i + 1 \in 1 .. Len(L[a]) /\ i + 1 # 1 BY <1>1, <2>1
    <3>2. \A j \in 1 .. Len(M[l]) : i + 1 = j + 1 => i = j BY <1>1, <2>1
    <3> QED BY <1>1, <2>1, <3>1, <3>2, Zenon
  <2>2. CASE l # a
    BY <2>2, Zenon
  <2> QED BY <2>1, <2>2, Zenon
<1>3. OnceIn(D, L, E) => OnceIn(D, M, E)
  <2> HIDE DEF fi
  <2> SUFFICES ASSUME OnceIn(D, L, E), NEW l \in D, NEW m \in D, NEW i \in 1 .. Len(M[l]),
                      NEW j \in 1 .. Len(M[m]), M[l][i] = M[m][j]
               PROVE  (l = m /\ i = j) \/ M[l][i] \in E
    BY Zenon DEF OnceIn
  <2>1. PICK p \in 1 .. Len(L[l]) : p = fi(l, i) /\ M[l][i] = L[l][p]
    BY <1>2, Zenon
  <2>2. PICK q \in 1 .. Len(L[m]) : q = fi(m, j) /\ M[m][j] = L[m][q]
    BY <1>2, Zenon
  <2>3. (l = m /\ p = q) \/ L[l][p] \in E
    BY <2>1, <2>2, Zenon DEF OnceIn
  <2> QED BY <1>2, <2>1, <2>2, <2>3
<1>4. \A id : Holds(D, M, id) => Holds(D, L, id)
  <2> HIDE DEF fi
  <2> QED BY <1>2 DEF Holds
<1>5. ASSUME NEW l \in D, NEW i \in 1 .. Len(L[l])
      PROVE  (\E j \in 1 .. Len(M[l]) : M[l][j] = L[l][i]) \/ L[l][i] = L[a][1]
  <2>1. CASE l = a /\ i # 1
    <3>1. i - 1 \in 1 .. Len(M[a]) /\ M[a][i - 1] = L[l][i] BY <1>1, <2>1
    <3> QED BY <2>1, <3>1, Zenon
  <2>2. CASE l # a
    BY <2>2, Zenon
  <2> QED BY <2>1, <2>2, Zenon
<1>6. OnceIn(D, L, E) /\ Holds(D, M, L[a][1]) => L[a][1] \in E
  <2> SUFFICES ASSUME OnceIn(D, L, E), NEW l \in D, NEW i \in 1 .. Len(M[l]), M[l][i] = L[a][1]
               PROVE  L[a][1] \in E
    BY Zenon DEF Holds
  <2>1. PICK p \in 1 .. Len(L[l]) : M[l][i] = L[l][p] /\ ~(l = a /\ p = 1)
    BY <1>2, Zenon
  <2>2. PICK q \in 1 .. Len(L[a]) : q = 1 BY <1>1
  <2>3. L[l][p] = L[a][q] /\ ~(l = a /\ p = q) BY <2>1, <2>2, Zenon
  <2>4. a \in D BY Zenon
  <2> HIDE DEF HeadLoss
  <2>5. L[a][q] \in E BY <2>3, <2>4, Zenon DEF OnceIn
  <2> QED BY <2>2, <2>5, Zenon
<1>7. Holds(D, L, L[a][1])
  <2>1. 1 \in 1 .. Len(L[a]) BY <1>1
  <2> QED BY <2>1, Zenon DEF Holds
<1>8. \A id : Holds(D, L, id) => Holds(D, M, id) \/ id = L[a][1]
  BY <1>5 DEF Holds
<1>9. Head(L[a]) = L[a][1] BY <1>1, Zenon
<1> QED BY <1>3, <1>4, <1>6, <1>7, <1>8, <1>9, Zenon

LEMMA HeadOnce ==
  \A D, L, M, E, a :
    HeadLoss(D, L, M, a) /\ OnceIn(D, L, E) /\ Holds(D, M, Head(L[a])) => Head(L[a]) \in E
BY HeadLost, Zenon

LEMMA HeadLostOnly ==
  \A D, L, M, a :
    HeadLoss(D, L, M, a)
      => /\ \A id : Holds(D, M, id) => Holds(D, L, id)
         /\ \A id : Holds(D, L, id) => Holds(D, M, id) \/ id = Head(L[a])
         /\ Holds(D, L, Head(L[a]))
<1> SUFFICES ASSUME NEW D, NEW L, NEW M, NEW a, HeadLoss(D, L, M, a)
             PROVE  /\ \A id : Holds(D, M, id) => Holds(D, L, id)
                    /\ \A id : Holds(D, L, id) => Holds(D, M, id) \/ id = Head(L[a])
                    /\ Holds(D, L, Head(L[a]))
  BY Zenon
<1>1. \A E : /\ \A id : Holds(D, M, id) => Holds(D, L, id)
             /\ \A id : Holds(D, L, id) => Holds(D, M, id) \/ id = Head(L[a])
             /\ Holds(D, L, Head(L[a]))
  <2> TAKE E
  <2> HIDE DEF OnceIn, Holds, HeadLoss
  <2>1. /\ OnceIn(D, L, E) => OnceIn(D, M, E)
        /\ \A id : Holds(D, M, id) => Holds(D, L, id)
        /\ \A id : Holds(D, L, id) => Holds(D, M, id) \/ id = Head(L[a])
        /\ OnceIn(D, L, E) /\ Holds(D, M, Head(L[a])) => Head(L[a]) \in E
        /\ Holds(D, L, Head(L[a]))
    BY HeadLost, Zenon
  <2> QED BY <2>1, Zenon
<1> QED BY <1>1, Zenon

\* An id is appended.
IdAddition(D, L, M, a, x) ==
  /\ L \in [D -> Seq(Id)] /\ M \in [D -> Seq(Id)] /\ a \in D /\ x \in Id
  /\ M[a] = Append(L[a], x) /\ \A l \in D : l # a => M[l] = L[l]

LEMMA IdAdded ==
  \A D, L, M, E, x, a :
    IdAddition(D, L, M, a, x)
      => /\ OnceIn(D, L, E) /\ (Holds(D, L, x) => x \in E) => OnceIn(D, M, E)
         /\ \A id : Holds(D, M, id) <=> Holds(D, L, id) \/ id = x
<1> SUFFICES ASSUME NEW D, NEW L, NEW M, NEW E, NEW x, NEW a, IdAddition(D, L, M, a, x)
             PROVE  /\ OnceIn(D, L, E) /\ (Holds(D, L, x) => x \in E) => OnceIn(D, M, E)
                    /\ \A id : Holds(D, M, id) <=> Holds(D, L, id) \/ id = x
  BY Zenon
<1> USE DEF IdAddition
<1> DEFINE last == Len(L[a]) + 1
<1>1. /\ Len(L[a]) \in Nat /\ Len(M[a]) = last
      /\ \A i \in 1 .. last : M[a][i] = IF i = last THEN x ELSE L[a][i]
  BY Appended
<1>2. \A l \in D : \A i \in 1 .. Len(M[l]) :
        IF l = a /\ i = last THEN M[l][i] = x ELSE i \in 1 .. Len(L[l]) /\ M[l][i] = L[l][i]
  <2> SUFFICES ASSUME NEW l \in D, NEW i \in 1 .. Len(M[l]), ~(l = a /\ i = last)
               PROVE  i \in 1 .. Len(L[l]) /\ M[l][i] = L[l][i]
    BY <1>1, Zenon
  <2>1. CASE l = a
    <3>1. i \in 1 .. Len(L[a]) BY <1>1, <2>1
    <3> QED BY <1>1, <2>1, <3>1, Zenon
  <2>2. CASE l # a BY <2>2, Zenon
  <2> QED BY <2>1, <2>2, Zenon
<1>3. last \in 1 .. Len(M[a]) /\ M[a][last] = x
  BY <1>1
<1>4. \A l \in D : \A i \in 1 .. Len(L[l]) : i \in 1 .. Len(M[l]) /\ M[l][i] = L[l][i]
  <2> SUFFICES ASSUME NEW l \in D, NEW i \in 1 .. Len(L[l])
               PROVE  i \in 1 .. Len(M[l]) /\ M[l][i] = L[l][i]
    BY Zenon
  <2>1. CASE l = a
    <3>1. i \in 1 .. last /\ i # last BY <1>1, <2>1
    <3> QED BY <1>1, <2>1, <3>1, Zenon
  <2>2. CASE l # a BY <2>2, Zenon
  <2> QED BY <2>1, <2>2, Zenon
<1> HIDE DEF last
<1>5. \A id : Holds(D, M, id) <=> Holds(D, L, id) \/ id = x
  <2>1. ASSUME NEW l \in D, NEW i \in 1 .. Len(M[l]) PROVE Holds(D, L, M[l][i]) \/ M[l][i] = x
    BY <1>2, Zenon DEF Holds
  <2>2. ASSUME NEW l \in D, NEW i \in 1 .. Len(L[l]) PROVE Holds(D, M, L[l][i])
    <3>1. PICK j \in 1 .. Len(M[l]) : M[l][j] = L[l][i] BY <1>4, Zenon
    <3> QED BY <3>1, Zenon DEF Holds
  <2>3. Holds(D, M, x) BY <1>3, Zenon DEF Holds
  <2>4. \A id : Holds(D, M, id) => Holds(D, L, id) \/ id = x BY <2>1, Zenon DEF Holds
  <2>5. \A id : Holds(D, L, id) => Holds(D, M, id)
    <3> SUFFICES ASSUME NEW id, NEW l \in D, NEW i \in 1 .. Len(L[l]), L[l][i] = id
                 PROVE  Holds(D, M, id)
      BY Zenon DEF Holds
    <3> QED BY <2>2, Zenon
  <2> QED BY <2>3, <2>4, <2>5, Zenon
<1>6. OnceIn(D, L, E) /\ (Holds(D, L, x) => x \in E) => OnceIn(D, M, E)
  <2> SUFFICES ASSUME OnceIn(D, L, E), Holds(D, L, x) => x \in E, NEW l \in D, NEW m \in D,
                      NEW i \in 1 .. Len(M[l]), NEW j \in 1 .. Len(M[m]), M[l][i] = M[m][j]
               PROVE  (l = m /\ i = j) \/ M[l][i] \in E
    BY Zenon DEF OnceIn
  <2>1. CASE l = a /\ i = last
    BY <1>2, <2>1 DEF Holds
  <2>2. CASE m = a /\ j = last
    BY <1>2, <2>2 DEF Holds
  <2>3. CASE ~(l = a /\ i = last) /\ ~(m = a /\ j = last)
    BY <1>2, <2>3 DEF OnceIn
  <2> QED BY <2>1, <2>2, <2>3, Zenon
<1> QED BY <1>5, <1>6, Zenon

\* Whole sequences change places, where only empty ones are lost or new.
Relabelling(C, L, D, M, f) ==
  /\ L \in [C -> Seq(Id)] /\ M \in [D -> Seq(Id)] /\ f \in [D -> C]
  /\ \A l \in D : M[l] = << >> \/ M[l] = L[f[l]]
  /\ \A l, m \in D : M[l] # << >> /\ M[m] # << >> /\ f[l] = f[m] => l = m
  /\ \A k \in C : L[k] = << >> \/ \E l \in D : M[l] = L[k]

LEMMA Relabelled ==
  \A C, D, L, M, E, f :
    Relabelling(C, L, D, M, f)
      => /\ OnceIn(C, L, E) => OnceIn(D, M, E)
         /\ \A id : Holds(C, L, id) <=> Holds(D, M, id)
<1> SUFFICES ASSUME NEW C, NEW D, NEW L, NEW M, NEW E, NEW f, Relabelling(C, L, D, M, f)
             PROVE  /\ OnceIn(C, L, E) => OnceIn(D, M, E)
                    /\ \A id : Holds(C, L, id) <=> Holds(D, M, id)
  BY Zenon
<1> USE DEF Relabelling
<1>1. \A l \in D : \A i \in 1 .. Len(M[l]) :
        M[l] # << >> /\ i \in 1 .. Len(L[f[l]]) /\ M[l][i] = L[f[l]][i]
  OBVIOUS
<1>2. \A k \in C : \A i \in 1 .. Len(L[k]) : \E l \in D : i \in 1 .. Len(M[l]) /\ M[l][i] = L[k][i]
  OBVIOUS
<1>3. OnceIn(C, L, E) => OnceIn(D, M, E)
  BY <1>1 DEF OnceIn
<1>4. \A id : Holds(C, L, id) <=> Holds(D, M, id)
  BY <1>1, <1>2 DEF Holds
<1> QED BY <1>3, <1>4, Zenon

-----------------------------------------------------------------------------
(* Callers, tokens and traces *)

Pc == {"idle", "next", "store", "add", "count", "post", "full", "drop", "uncount", "final",
       "forward"}

\* Callers that have stored a trace and not yet sent its id to deleteChan.
Posting == {"add", "count", "post", "full", "drop", "uncount"}

Decisions == {"Unspecified", "Sampled"}
TraceData == [spans : SUBSET Span, decision : Decisions]

Types ==
  /\ idToTrace \in [Id -> Nat] /\ deleteChan \in Seq(Id)
  /\ traceData \in Seq(TraceData)
  /\ cpc \in [Caller -> Pc] /\ cid \in [Caller -> Id \cup {NoId}]
  /\ drop \in [Caller -> Id \cup {NoId}] /\ todo \in [Caller -> SUBSET Span]
  /\ cdata \in [Caller -> Nat] /\ tdecision \in Decisions

\* The tokens of the map: one for each trace in it, in deleteChan, with the caller
\* that will send it there, or with the one that received it and will drop the trace.
\* No two of them are the same, so that dropping one leaves the others in the map.
Tokens ==
  /\ \A c \in Caller : cpc[c] \in Posting => cid[c] \in Id /\ idToTrace[cid[c]] # 0
  /\ \A c \in Caller : cpc[c] = "drop" => drop[c] \in Id /\ idToTrace[drop[c]] # 0
  /\ \A i \in 1 .. Len(deleteChan) : idToTrace[deleteChan[i]] # 0
  /\ \A c, d \in Caller : cpc[c] \in Posting /\ cpc[d] \in Posting /\ c # d => cid[c] # cid[d]
  /\ \A c, d \in Caller : cpc[c] = "drop" /\ cpc[d] = "drop" /\ c # d => drop[c] # drop[d]
  /\ \A c, d \in Caller : cpc[c] \in Posting /\ cpc[d] = "drop" => cid[c] # drop[d]
  /\ \A i, j \in 1 .. Len(deleteChan) : i # j => deleteChan[i] # deleteChan[j]
  /\ \A c \in Caller : \A i \in 1 .. Len(deleteChan) :
       /\ cpc[c] \in Posting => cid[c] # deleteChan[i]
       /\ cpc[c] = "drop" => drop[c] # deleteChan[i]

\* Callers waiting in cid[c] = NoId never confuse it with an id, see SamplerAssumption.
Chosen == \A c \in Caller : cpc[c] = "store" => cid[c] \in Id

TokenInv == Types /\ Chosen /\ Tokens

\* copy(policyGroups, cfg.PolicyCfgs) copies nothing, so the default decides.
LEMMA DefaultDecides ==
  \A spans :
    makeDecision(spans) = "Sampled"
<1> SUFFICES ASSUME NEW spans PROVE makeDecision(spans) = "Sampled"
  BY Zenon
<1>1. DOMAIN policies = {}
  BY DEF policies, copy
<1> QED
  BY <1>1, Zenon DEF makeDecision

LEMMA NewTraceData == [spans |-> {}, decision |-> "Unspecified"] \in TraceData
BY Zenon DEF TraceData, Decisions

LEMMA TokenInit == SamplerInit => TokenInv
BY DEF SamplerInit, TokenInv, Types, Chosen, Tokens, Pc, Posting, Decisions

\* A step that changes neither the map nor deleteChan and brings no caller a token.
LEMMA TokensStay ==
  /\ Tokens /\ UNCHANGED <<idToTrace, deleteChan>>
  /\ \A d \in Caller : cpc'[d] \in Posting => cpc[d] \in Posting /\ cid'[d] = cid[d]
  /\ \A d \in Caller : cpc'[d] = "drop" => cpc[d] = "drop" /\ drop'[d] = drop[d]
  => Tokens'
BY DEF Tokens

\* An element of a sequence replaced by another of its kind.
LEMMA Replaced ==
  \A S : \A s \in Seq(S) : \A k, e :
    (k \in 1 .. Len(s) => e \in S) => [s EXCEPT ![k] = e] \in Seq(S)
<1> SUFFICES ASSUME NEW S, NEW s \in Seq(S), NEW k, NEW e, k \in 1 .. Len(s) => e \in S
             PROVE  [s EXCEPT ![k] = e] \in Seq(S)
  BY Zenon
<1>1. CASE k \in 1 .. Len(s)
  BY <1>1, SeqReplaced, Zenon
<1>2. CASE k \notin 1 .. Len(s)
  <2>1. Len(s) \in Nat /\ s \in [1 .. Len(s) -> S]
    BY SeqDomain, Zenon
  <2>2. [s EXCEPT ![k] = e] = s
    BY <1>2, <2>1, Zenon
  <2> QED
    BY <2>2, Zenon
<1> QED
  BY <1>1, <1>2, Zenon

LEMMA SpansReplaced ==
  \A s \in Seq(TraceData) : \A k : \A v \in SUBSET Span :
    [s EXCEPT ![k].spans = @ \cup v] \in Seq(TraceData)
<1> SUFFICES ASSUME NEW s \in Seq(TraceData), NEW k, NEW v \in SUBSET Span
             PROVE  [s EXCEPT ![k].spans = @ \cup v] \in Seq(TraceData)
  BY Zenon
<1>1. k \in 1 .. Len(s) => s[k] \in TraceData
  BY SeqElement, Zenon
<1>2. k \in 1 .. Len(s) => [s[k] EXCEPT !.spans = @ \cup v] \in TraceData
  BY <1>1, Zenon DEF TraceData
<1> QED
  BY <1>2, Replaced, Zenon

LEMMA DecisionReplaced ==
  \A s \in Seq(TraceData) : \A k : \A v \in Decisions :
    [s EXCEPT ![k].decision = v] \in Seq(TraceData)
<1> SUFFICES ASSUME NEW s \in Seq(TraceData), NEW k, NEW v \in Decisions
             PROVE  [s EXCEPT ![k].decision = v] \in Seq(TraceData)
  BY Zenon
<1>1. k \in 1 .. Len(s) => s[k] \in TraceData
  BY SeqElement, Zenon
<1>2. k \in 1 .. Len(s) => [s[k] EXCEPT !.decision = v] \in TraceData
  BY <1>1, Zenon DEF TraceData
<1> QED
  BY <1>2, Replaced, Zenon

LEMMA TokenNext == TokenInv /\ [SamplerNext]_samplerVars => TokenInv'
<1> SUFFICES ASSUME TokenInv, [SamplerNext]_samplerVars PROVE TokenInv'
  BY Zenon
<1> USE DEF Pc, Posting, ticker
<1>1. ASSUME NEW c \in Caller, NEW spans \in Calls, ConsumeTraces(c, spans) PROVE TokenInv'
  <2> USE <1>1, SamplerAssumption DEF ConsumeTraces, TokenInv, store
  <2>1. Types' BY Zenon DEF Types
  <2>2. Chosen' BY Zenon DEF Types, Chosen
  <2>3. Tokens' BY TokensStay, Zenon DEF Types
  <2> QED BY <2>1, <2>2, <2>3, Zenon
<1>2. ASSUME NEW c \in Caller, Load(c) PROVE TokenInv'
  <2> USE <1>2 DEF Load, TokenInv, store
  <2>0. PICK id \in {traceOf[s] : s \in todo[c]} :
          /\ cid' = [cid EXCEPT ![c] = id] /\ cdata' = [cdata EXCEPT ![c] = idToTrace[id]]
          /\ cpc' = [cpc EXCEPT ![c] = IF idToTrace[id] # 0 THEN "final" ELSE "store"]
    BY Zenon
  <2>a. id \in Id
    BY SamplerAssumption DEF Types
  <2>1. Types' BY <2>0, <2>a, Zenon DEF Types
  <2>2. Chosen' BY <2>0, <2>a, Zenon DEF Types, Chosen
  <2>3. Tokens' BY <2>0, TokensStay, Zenon DEF Types
  <2> QED BY <2>1, <2>2, <2>3, Zenon
<1>3. ASSUME NEW c \in Caller, LoadOrStore(c) PROVE TokenInv'
  <2> USE <1>3 DEF LoadOrStore, TokenInv
  <2>a. cid[c] \in Id BY Zenon DEF Chosen
  <2>1. CASE idToTrace[cid[c]] # 0
    <3>1. Types' BY <2>1, <2>a, Zenon DEF Types
    <3>2. Chosen' BY <2>1, Zenon DEF Types, Chosen
    <3>3. Tokens' BY <2>1, TokensStay, Zenon DEF Types
    <3> QED BY <3>1, <3>2, <3>3, Zenon
  <2>2. CASE idToTrace[cid[c]] = 0
    <3>0. traceData' \in Seq(TraceData) /\ Len(traceData') \in Nat \ {0}
      <4>1. /\ traceData' = Append(traceData, [spans |-> {}, decision |-> "Unspecified"])
            /\ traceData \in Seq(TraceData)
        BY <2>2, Zenon DEF Types
      <4> HIDE <1>3 DEF LoadOrStore, TokenInv
      <4> QED BY <4>1, NewTraceData, Appended
    <3>a. /\ idToTrace' = [idToTrace EXCEPT ![cid[c]] = Len(traceData')]
          /\ cdata' = [cdata EXCEPT ![c] = Len(traceData')] /\ cpc' = [cpc EXCEPT ![c] = "add"]
      BY <2>2, Zenon
    <3>1. Types' BY <3>0, <3>a, <2>a, Zenon DEF Types
    <3>2. Chosen' BY <3>a, Zenon DEF Types, Chosen
    <3>3. Tokens' BY <2>2, <2>a, <3>0, <3>a DEF Types, Tokens
    <3> QED BY <3>1, <3>2, <3>3, Zenon
  <2> QED BY <2>1, <2>2, Zenon
<1>4. ASSUME NEW c \in Caller, AddId(c) PROVE TokenInv'
  <2> USE <1>4 DEF AddId, TokenInv, store
  <2>1. Types' BY Zenon DEF Types
  <2>2. Chosen' BY Zenon DEF Types, Chosen
  <2>3. Tokens' BY TokensStay, Zenon DEF Types
  <2> QED BY <2>1, <2>2, <2>3, Zenon
<1>5. ASSUME NEW c \in Caller, CountTrace(c) PROVE TokenInv'
  <2> USE <1>5 DEF CountTrace, TokenInv
  <2>1. Types' BY Zenon DEF Types
  <2>2. Chosen' BY Zenon DEF Types, Chosen
  <2>3. Tokens' BY TokensStay, Zenon DEF Types
  <2> QED BY <2>1, <2>2, <2>3, Zenon
<1>6. ASSUME NEW c \in Caller, PostDeletion(c) PROVE TokenInv'
  <2> USE <1>6 DEF PostDeletion, TokenInv
  <2>a. cid[c] \in Id BY Zenon DEF Tokens, Types
  <2>b. deleteChan' \in Seq(Id)
    <3>1. CASE Len(deleteChan) < NumTraces
      <4>1. deleteChan' = Append(deleteChan, cid[c]) /\ deleteChan \in Seq(Id) BY <3>1, Zenon DEF Types
      <4> HIDE <1>6 DEF PostDeletion, TokenInv
      <4> QED BY <4>1, <2>a, Appended, Zenon
    <3>2. CASE ~(Len(deleteChan) < NumTraces) BY <3>2, Zenon DEF Types
    <3> QED BY <3>1, <3>2, Zenon
  <2>c. cpc' \in [Caller -> Pc] BY Zenon DEF Types
  <2>1. Types' BY <2>b, <2>c, Zenon DEF Types
  <2>2. Chosen' BY Zenon DEF Types, Chosen
  <2>3. CASE Len(deleteChan) < NumTraces
    <3>1. deleteChan' = Append(deleteChan, cid[c]) BY <2>3, Zenon
    <3>2. Len(deleteChan') = Len(deleteChan) + 1 /\ Len(deleteChan) \in Nat
      BY <3>1, <2>a, Appended, Zenon DEF Types
    <3>3. \A i \in 1 .. Len(deleteChan') :
            deleteChan'[i] = IF i = Len(deleteChan) + 1 THEN cid[c] ELSE deleteChan[i]
      BY <3>1, <3>2, <2>a, Appended DEF Types
    <3>4. cpc' = [cpc EXCEPT ![c] = "final"] BY <2>3, Zenon
    <3>5. Tokens'
      <4> USE <3>2, <3>3, <3>4, <2>a DEF Types
      <4> HIDE <1>6 DEF PostDeletion
      <4>0. UNCHANGED <<idToTrace, cid, drop>> /\ cpc[c] = "post" BY <1>6, Zenon DEF PostDeletion
      <4>1. \A d \in Caller : cpc'[d] \in Posting => d # c /\ cpc[d] \in Posting
        BY Zenon
      <4>2. \A d \in Caller : cpc'[d] = "drop" => d # c /\ cpc[d] = "drop"
        BY Zenon
      <4>a. \A i \in 1 .. Len(deleteChan') : i # Len(deleteChan) + 1 => i \in 1 .. Len(deleteChan)
        <5> HIDE <3>3, <3>4, <2>a DEF Types
        <5> QED BY <3>2
      <4>b. idToTrace[cid[c]] # 0 /\ \A i \in 1 .. Len(deleteChan) : cid[c] # deleteChan[i]
        BY <4>0, Zenon DEF Tokens
      <4>3. \A i \in 1 .. Len(deleteChan') : idToTrace'[deleteChan'[i]] # 0
        BY <4>0, <4>a, <4>b, Zenon DEF Tokens
      <4>4. \A i, j \in 1 .. Len(deleteChan') : i # j => deleteChan'[i] # deleteChan'[j]
        BY <4>0, <4>a, <4>b, Zenon DEF Tokens
      <4>5. \A d \in Caller : \A i \in 1 .. Len(deleteChan') :
              /\ cpc'[d] \in Posting => cid'[d] # deleteChan'[i]
              /\ cpc'[d] = "drop" => drop'[d] # deleteChan'[i]
        <5> SUFFICES ASSUME NEW d \in Caller, NEW i \in 1 .. Len(deleteChan')
                     PROVE  /\ cpc'[d] \in Posting => cid'[d] # deleteChan'[i]
                            /\ cpc'[d] = "drop" => drop'[d] # deleteChan'[i]
          BY Zenon
        <5>1. CASE i = Len(deleteChan) + 1
          BY <5>1, <4>0, <4>1, <4>2 DEF Tokens
        <5>2. CASE i # Len(deleteChan) + 1
          <6>1. i \in 1 .. Len(deleteChan) BY <5>2, <4>a, Zenon
          <6>2. deleteChan'[i] = deleteChan[i] BY <5>2, Zenon
          <6> HIDE <3>2, <3>3, <3>4, <2>a DEF Types
          <6> QED BY <6>1, <6>2, <4>0, <4>1, <4>2, Zenon DEF Tokens
        <5> QED BY <5>1, <5>2, Zenon
      <4> QED BY <4>0, <4>1, <4>2, <4>3, <4>4, <4>5 DEF Tokens
    <3> QED BY <2>1, <2>2, <3>5, Zenon
  <2>4. CASE ~(Len(deleteChan) < NumTraces)
    <3>1. Tokens' BY <2>4, TokensStay, Zenon DEF Types
    <3> QED BY <2>1, <2>2, <3>1, Zenon
  <2> QED BY <2>3, <2>4, Zenon
<1>7. ASSUME NEW c \in Caller, ReceiveDrop(c) PROVE TokenInv'
  <2> USE <1>7 DEF ReceiveDrop, TokenInv
  <2>a. /\ Len(deleteChan) \in Nat \ {0} /\ Head(deleteChan) = deleteChan[1]
        /\ Len(deleteChan') = Len(deleteChan) - 1
        /\ \A i \in 1 .. Len(deleteChan') : deleteChan'[i] = deleteChan[i + 1]
        /\ deleteChan' \in Seq(Id) /\ deleteChan[1] \in Id
    BY DEF Types
  <2>b. drop' = [drop EXCEPT ![c] = deleteChan[1]] /\ cpc' = [cpc EXCEPT ![c] = "drop"]
    BY <2>a, Zenon
  <2>1. Types' BY <2>a, <2>b, Zenon DEF Types
  <2>2. Chosen' BY <2>b, Zenon DEF Types, Chosen
  <2>3. Tokens' BY <2>a, <2>b DEF Types, Tokens
  <2> QED BY <2>1, <2>2, <2>3, Zenon
<1>8. ASSUME NEW c \in Caller, dropTrace(c) PROVE TokenInv'
  <2> USE <1>8 DEF dropTrace, TokenInv
  <2>1. Types' BY Zenon DEF Types
  <2>2. Chosen' BY Zenon DEF Types, Chosen
  <2>3. Tokens' BY DEF Types, Tokens
  <2> QED BY <2>1, <2>2, <2>3, Zenon
<1>9. ASSUME NEW c \in Caller, Uncount(c) PROVE TokenInv'
  <2> USE <1>9 DEF Uncount, TokenInv
  <2>1. Types' BY Zenon DEF Types
  <2>2. Chosen' BY Zenon DEF Types, Chosen
  <2>3. Tokens' BY TokensStay, Zenon DEF Types
  <2> QED BY <2>1, <2>2, <2>3, Zenon
<1>10. ASSUME NEW c \in Caller, Final(c) PROVE TokenInv'
  <2> USE <1>10 DEF Final, Handled, Mine, TokenInv
  <2>a. traceData' \in Seq(TraceData)
    <3>1. Mine(c) \in SUBSET Span
      BY Zenon DEF Types
    <3>2. [traceData EXCEPT ![cdata[c]].spans = @ \cup Mine(c)] \in Seq(TraceData)
      BY <3>1, SpansReplaced, Zenon DEF Types
    <3> QED
      BY <3>2, Zenon DEF Types
  <2>b. /\ cpc' \in [Caller -> Pc] /\ todo' \in [Caller -> SUBSET Span]
        /\ cid' \in [Caller -> Id \cup {NoId}] /\ cdata' \in [Caller -> Nat]
    <3>1. CASE traceData[cdata[c]].decision = "Sampled"
      BY <3>1, Zenon DEF Types
    <3>2. CASE traceData[cdata[c]].decision # "Sampled"
      <4>1. Handled(c)
        BY <3>2, Zenon
      <4> HIDE <1>10 DEF Final
      <4> QED BY <4>1, Zenon DEF Types
    <3> QED BY <3>1, <3>2, Zenon
  <2>1. Types' BY <2>a, <2>b, Zenon DEF Types, ticker
  <2>2. Chosen' BY Zenon DEF Types, Chosen
  <2>3. Tokens' BY TokensStay DEF Types
  <2> QED BY <2>1, <2>2, <2>3, Zenon
<1>11. ASSUME NEW c \in Caller, Forward(c) PROVE TokenInv'
  <2> USE <1>11 DEF Forward, Handled, Mine, TokenInv, store
  <2>1. Types' BY Zenon DEF Types
  <2>2. Chosen' BY Zenon DEF Types, Chosen
  <2>3. Tokens' BY TokensStay, Zenon DEF Types
  <2> QED BY <2>1, <2>2, <2>3, Zenon
<1>12. CASE TickStep
  <2>1. UNCHANGED <<caller, idToTrace, deleteChan>>
    BY <1>12, Zenon DEF TickStep, Tick, TickTaking, TickDone, TickLoad, TickDecide, TickSet, TickForward,
         store
  <2>2. traceData' \in Seq(TraceData)
    <3>1. CASE TickSet
      BY <3>1, DecisionReplaced, Zenon DEF TickSet, Types, TokenInv
    <3>2. CASE ~TickSet
      BY <1>12, <3>2, Zenon DEF TickStep, Tick, TickTaking, TickDone, TickLoad, TickDecide, TickForward,
           store, Types, TokenInv
    <3> QED BY <3>1, <3>2, Zenon
  <2>b. tdecision' \in Decisions
    <3>1. CASE TickDecide
      BY <3>1, DefaultDecides, Zenon DEF TickDecide, Decisions
    <3>2. CASE ~TickDecide
      BY <1>12, <3>2, Zenon DEF TickStep, Tick, TickTaking, TickDone, TickLoad, TickSet, TickForward,
           NextId, Types, TokenInv, Decisions
    <3> QED BY <3>1, <3>2, Zenon
  <2>3. Types' BY <2>1, <2>2, <2>b, Zenon DEF Types, TokenInv, caller
  <2>4. Chosen' /\ Tokens' BY <2>1, Zenon DEF Chosen, Tokens, TokenInv, caller
  <2> QED BY <2>3, <2>4, Zenon DEF TokenInv
<1>13. CASE Fill \/ Shutdown \/ UNCHANGED samplerVars
  <2>1. UNCHANGED <<caller, idToTrace, deleteChan, traceData, tdecision>>
    BY <1>13, Zenon DEF Fill, Shutdown, samplerVars, sampler, caller, store, ticker
  <2>2. Types' BY <2>1, Zenon DEF Types, TokenInv, caller
  <2>3. Chosen' /\ Tokens' BY <2>1, Zenon DEF Chosen, Tokens, TokenInv, caller
  <2> QED BY <2>2, <2>3, Zenon DEF TokenInv
<1> QED
  BY <1>1, <1>2, <1>3, <1>4, <1>5, <1>6, <1>7, <1>8, <1>9, <1>10, <1>11, <1>12, <1>13, Zenon
     DEF SamplerNext, Call

\* For any number of callers, traces and num_traces, what is received from
\* deleteChan is in the map: "Attempt to delete traceID not on table" is never
\* logged and no trace keeps its place in the map for ever.
THEOREM DropsFindTraces == SamplerSpec => []DropFindsTrace
<1>1. TokenInv => DropFindsTrace
  BY Zenon DEF TokenInv, Tokens, DropFindsTrace, OnMap
<1> QED
  BY <1>1, TokenInit, TokenNext, PTL DEF SamplerSpec

LEMMA WaitNext == TokenInv /\ DropWaitEnds /\ [SamplerNext]_samplerVars => DropWaitEnds'
<1> SUFFICES ASSUME TokenInv, DropWaitEnds, [SamplerNext]_samplerVars PROVE DropWaitEnds'
  BY Zenon
<1> USE DEF TokenInv, Types, DropWaitEnds
<1>1. ASSUME NEW c \in Caller, NEW spans \in Calls, ConsumeTraces(c, spans) PROVE DropWaitEnds'
  BY <1>1, Zenon DEF ConsumeTraces, store
<1>2. ASSUME NEW c \in Caller, Load(c) PROVE DropWaitEnds'
  BY <1>2, Zenon DEF Load, store
<1>3. ASSUME NEW c \in Caller, LoadOrStore(c) PROVE DropWaitEnds'
  BY <1>3, Zenon DEF LoadOrStore
<1>4. ASSUME NEW c \in Caller, AddId(c) PROVE DropWaitEnds'
  BY <1>4, Zenon DEF AddId, store
<1>5. ASSUME NEW c \in Caller, CountTrace(c) PROVE DropWaitEnds'
  BY <1>5, Zenon DEF CountTrace
<1>6. ASSUME NEW c \in Caller, PostDeletion(c) PROVE DropWaitEnds'
  <2>1. deleteChan' # << >>
    <3>1. CASE Len(deleteChan) < NumTraces
      BY <1>6, <3>1 DEF PostDeletion
    <3>2. CASE ~(Len(deleteChan) < NumTraces)
      BY <1>6, <3>2, SamplerAssumption DEF PostDeletion
    <3> QED BY <3>1, <3>2, Zenon
  <2> QED BY <2>1, Zenon
<1>7. ASSUME NEW c \in Caller, ReceiveDrop(c) PROVE DropWaitEnds'
  <2>1. cpc'[c] = "drop"
    BY <1>7, Zenon DEF ReceiveDrop
  <2> QED BY <2>1, Zenon
<1>8. ASSUME NEW c \in Caller, dropTrace(c) PROVE DropWaitEnds'
  <2>1. cpc'[c] \in {"uncount", "post"}
    BY <1>8, Zenon DEF dropTrace
  <2> QED BY <2>1, Zenon
<1>9. ASSUME NEW c \in Caller, Uncount(c) PROVE DropWaitEnds'
  <2>1. cpc'[c] = "post"
    BY <1>9, Zenon DEF Uncount
  <2> QED BY <2>1, Zenon
<1>10. ASSUME NEW c \in Caller, Final(c) PROVE DropWaitEnds'
  BY <1>10, Zenon DEF Final, Handled
<1>11. ASSUME NEW c \in Caller, Forward(c) PROVE DropWaitEnds'
  BY <1>11, Zenon DEF Forward, Handled, store
<1>12. CASE TickStep
  <2>1. UNCHANGED <<cpc, deleteChan>>
    BY <1>12, Zenon DEF TickStep, Tick, TickTaking, TickDone, TickLoad, TickDecide, TickSet, TickForward,
         store, caller
  <2> QED BY <2>1, Zenon
<1>13. CASE Fill \/ Shutdown \/ UNCHANGED samplerVars
  <2>1. UNCHANGED <<cpc, deleteChan>>
    BY <1>13, Zenon DEF Fill, Shutdown, samplerVars, sampler, caller, store
  <2> QED BY <2>1, Zenon
<1> QED
  BY <1>1, <1>2, <1>3, <1>4, <1>5, <1>6, <1>7, <1>8, <1>9, <1>10, <1>11, <1>12, <1>13, Zenon
     DEF SamplerNext, Call

\* No caller of ConsumeTraces is left waiting on deleteChan: when it is empty,
\* another caller is between its receive and its send.
THEOREM NobodyStarves == SamplerSpec => []DropWaitEnds
<1>1. SamplerInit => DropWaitEnds
  BY Zenon DEF SamplerInit, DropWaitEnds
<1> QED
  BY <1>1, TokenInit, TokenNext, WaitNext, PTL DEF SamplerSpec

LEMMA SamplerStepsBatcher == TokenInv /\ [SamplerNext]_samplerVars => [BatcherNext]_batcher
<1> SUFFICES ASSUME TokenInv, [SamplerNext]_samplerVars PROVE [BatcherNext]_batcher
  BY Zenon
<1>1. ASSUME NEW c \in Caller, AddId(c) PROVE BatcherNext
  <2>1. cid[c] \in Id
    BY <1>1, Zenon DEF AddId, TokenInv, Tokens, Posting
  <2> QED
    BY <1>1, <2>1, Zenon DEF AddId, BatcherNext
<1>2. CASE Tick \/ TickTaking \/ Fill
  BY <1>2, Zenon DEF Tick, TickTaking, Fill, BatcherNext
<1>3. CASE Shutdown
  BY <1>3, Zenon DEF Shutdown, BatcherNext
<1>4. ASSUME NEW c \in Caller, Call(c) \/ (\E spans \in Calls : ConsumeTraces(c, spans)), ~AddId(c)
      PROVE  UNCHANGED batcher
  BY <1>4, Zenon DEF Call, ConsumeTraces, Load, LoadOrStore, CountTrace, PostDeletion, ReceiveDrop,
       dropTrace, Uncount, Final, Forward
<1>5. CASE TickDone \/ TickLoad \/ TickDecide \/ TickSet \/ TickForward
  BY <1>5, Zenon DEF TickDone, TickLoad, TickDecide, TickSet, TickForward
<1>6. CASE UNCHANGED samplerVars
  BY <1>6, Zenon DEF samplerVars
<1> QED
  BY <1>1, <1>2, <1>3, <1>4, <1>5, <1>6, Zenon DEF SamplerNext, TickStep

\* The batcher as the tail sampler uses it is the pipeline it promises to be.
THEOREM SamplerUsesPipeline == SamplerSpec => BatcherIsPipeline
<1>1. SamplerSpec => BatcherSpec
  <2>1. SamplerInit => BatcherInit
    BY Zenon DEF SamplerInit
  <2> QED
    BY <2>1, TokenInit, TokenNext, SamplerStepsBatcher, PTL DEF SamplerSpec, BatcherSpec
<1> QED
  BY <1>1, BatcherImplementsPipeline, Zenon

\* The policies of the configuration never exclude a trace: copy into an empty
\* slice leaves the processor without policies, and the default samples.
NoneExcluded == \A i \in DOMAIN traceData : traceData[i].decision # "NotSampled"

\* Whatever policies are configured, no trace is ever decided NotSampled.
THEOREM PoliciesNeverExclude == SamplerSpec => []NoneExcluded
<1>1. TokenInv => NoneExcluded
  <2> SUFFICES ASSUME TokenInv, NEW i \in DOMAIN traceData PROVE traceData[i].decision # "NotSampled"
    BY Zenon DEF NoneExcluded
  <2>1. traceData \in Seq(TraceData)
    BY Zenon DEF TokenInv, Types
  <2>2. traceData[i] \in TraceData
    BY <2>1
  <2> QED
    BY <2>2, Zenon DEF TraceData, Decisions
<1> QED
  BY <1>1, TokenInit, TokenNext, PTL DEF SamplerSpec

-----------------------------------------------------------------------------
(* The ticker and the batch it has taken *)

\* The ticker is within the batch it looks at, starts at the beginning of the next
\* one, and has trace data only between its load and the end of its turn.
TickerOK ==
  /\ tpc \in {"wait", "taking", "batch", "decide", "set", "forward"}
  /\ (taker = "idle") <=> (tpc # "taking")
  /\ taker = "idle" => readBatch = << >>
  /\ ti \in Nat \ {0} /\ ti <= Len(batch) + 1
  /\ tpc \in {"wait", "taking"} => ti = 1
  /\ tpc \in {"decide", "set", "forward"} => ti <= Len(batch)
  /\ tpc \notin {"decide", "set", "forward"} => tdata = 0

LEMMA TickerInit == SamplerInit => TickerOK
BY DEF SamplerInit, BatcherInit, TickerOK

LEMMA TickerNext == TokenInv /\ BatcherInv /\ TickerOK /\ [SamplerNext]_samplerVars => TickerOK'
<1> SUFFICES ASSUME TokenInv, BatcherInv, TickerOK, [SamplerNext]_samplerVars PROVE TickerOK'
  BY Zenon
<1>0. /\ Len(batch) \in Nat /\ Len(readBatch) \in Nat /\ Len(currentBatch) \in Nat
      /\ taker \in {"idle", "read", "push"}
  BY DEF BatcherInv, Batch
<1>1. CASE Tick
  BY <1>0, <1>1 DEF Tick, ReadBatch, TakeCurrent, Return, TickerOK
<1>2. CASE TickTaking
  BY <1>0, <1>2 DEF TickTaking, ReadLock, PushCurrent, Return, TickerOK
<1>3. CASE TickDone \/ TickDecide
  BY <1>0, <1>3 DEF TickDone, TickDecide, batcher, TickerOK
<1>4. CASE TickLoad \/ TickSet \/ TickForward
  BY <1>0, <1>4 DEF TickLoad, TickSet, TickForward, NextId, batcher, TickerOK
<1>5. ASSUME NEW c \in Caller, Call(c) \/ (\E spans \in Calls : ConsumeTraces(c, spans))
      PROVE  TickerOK'
  <2>1. UNCHANGED <<ticker, taker, readBatch, batch>>
    BY <1>5, Zenon DEF Call, ConsumeTraces, Load, LoadOrStore, AddId, AddToCurrentBatch, CountTrace,
         PostDeletion, ReceiveDrop, dropTrace, Uncount, Final, Forward, batcher
  <2> QED BY <2>1, Zenon DEF TickerOK, ticker
<1>6. CASE Fill \/ Shutdown \/ UNCHANGED samplerVars
  <2>1. UNCHANGED <<ticker, taker, readBatch, batch>>
    BY <1>6, Zenon DEF Fill, ReceiveId, AppendId, Shutdown, ClosePending, StopLock, StopAnswered,
         CloseBatches, samplerVars, sampler, batcher, ticker
  <2> QED BY <2>1, Zenon DEF TickerOK, ticker
<1> QED
  BY <1>1, <1>2, <1>3, <1>4, <1>5, <1>6, Zenon DEF SamplerNext, TickStep

-----------------------------------------------------------------------------
(* No span is forgotten *)

\* The trace data that callers, the ticker and the map refer to exists; a caller
\* outside a call has no spans, and the ticker holds a copy of spans only between
\* the decision, which is always Sampled, and its call of the next consumer.
RefsOK ==
  /\ \A id \in Id : idToTrace[id] <= Len(traceData)
  /\ \A c \in Caller : cdata[c] <= Len(traceData)
  /\ \A c \in Caller : cpc[c] \in Posting \cup {"final", "forward"} => cdata[c] # 0
  /\ tdata \in Nat /\ tdata <= Len(traceData)
  /\ tpc \in {"decide", "set", "forward"} => tdata # 0
SpansOK ==
  /\ given \subseteq Span /\ sent \in [Span -> Nat] /\ tspans \subseteq Span
  /\ \A c \in Caller : cpc[c] = "idle" => todo[c] = {}
  /\ tpc \in {"set", "forward"} => tdecision = "Sampled"
  /\ tpc # "forward" => tspans = {}

SpanInv == TokenInv /\ BatcherInv /\ TickerOK /\ RefsOK /\ SpansOK

LEMMA SpanInit == SamplerInit => SpanInv
<1> SUFFICES ASSUME SamplerInit PROVE SpanInv
  BY Zenon
<1>1. RefsOK BY DEF SamplerInit, RefsOK, Posting
<1>2. SpansOK BY Zenon DEF SamplerInit, SpansOK
<1>3. BatcherInv BY BatcherInvInit, Zenon DEF SamplerInit
<1> QED BY <1>1, <1>2, <1>3, TokenInit, TickerInit, Zenon DEF SpanInv

\* Replacing a field of an element changes no other element and not the length.
LEMMA ElementReplaced ==
  \A s \in Seq(TraceData) : \A k \in 1 .. Len(s), e \in TraceData :
    /\ Len([s EXCEPT ![k] = e]) = Len(s) /\ [s EXCEPT ![k] = e][k] = e
    /\ \A i \in 1 .. Len(s) : i # k => [s EXCEPT ![k] = e][i] = s[i]
BY SeqReplaced, SeqDomain

\* What a step does to the trace data: new data is added at the end, spans are added
\* to the data of the caller, the decision is set on the data of the ticker.
Stores == traceData' = Append(traceData, [spans |-> {}, decision |-> "Unspecified"])
Adds(c) == traceData' = [traceData EXCEPT ![cdata[c]].spans = @ \cup Mine(c)]
Decides == traceData' = [traceData EXCEPT ![tdata].decision = tdecision]

LEMMA StoresEffect ==
  Types /\ Stores
    => /\ Len(traceData) \in Nat /\ Len(traceData') = Len(traceData) + 1
       /\ \A i \in 1 .. Len(traceData) : traceData'[i] = traceData[i]
       /\ traceData'[Len(traceData) + 1].spans = {}
       /\ traceData'[Len(traceData) + 1].decision = "Unspecified"
<1> SUFFICES ASSUME Types, Stores
             PROVE  /\ Len(traceData) \in Nat /\ Len(traceData') = Len(traceData) + 1
                    /\ \A i \in 1 .. Len(traceData) : traceData'[i] = traceData[i]
                    /\ traceData'[Len(traceData) + 1].spans = {}
                    /\ traceData'[Len(traceData) + 1].decision = "Unspecified"
  BY Zenon
<1>1. traceData \in Seq(TraceData) BY Zenon DEF Types
<1>2. /\ Len(traceData) \in Nat /\ Len(traceData') = Len(traceData) + 1
      /\ \A i \in 1 .. Len(traceData) + 1 : traceData'[i] = 
           IF i = Len(traceData) + 1 THEN [spans |-> {}, decision |-> "Unspecified"] ELSE traceData[i]
  <2> HIDE DEF TraceData
  <2> QED BY <1>1, Appended, NewTraceData DEF Stores
<1> QED BY <1>2

LEMMA AddsEffect ==
  \A c \in Caller :
    Types /\ cdata[c] \in 1 .. Len(traceData) /\ Adds(c)
      => /\ Len(traceData) \in Nat /\ Len(traceData') = Len(traceData)
         /\ \A i \in 1 .. Len(traceData) : i # cdata[c] => traceData'[i] = traceData[i]
         /\ traceData'[cdata[c]].spans = traceData[cdata[c]].spans \cup Mine(c)
         /\ traceData'[cdata[c]].decision = traceData[cdata[c]].decision
<1> SUFFICES ASSUME Types, NEW c \in Caller, cdata[c] \in 1 .. Len(traceData), Adds(c)
             PROVE  /\ Len(traceData) \in Nat /\ Len(traceData') = Len(traceData)
                    /\ \A i \in 1 .. Len(traceData) : i # cdata[c] => traceData'[i] = traceData[i]
                    /\ traceData'[cdata[c]].spans = traceData[cdata[c]].spans \cup Mine(c)
                    /\ traceData'[cdata[c]].decision = traceData[cdata[c]].decision
  BY Zenon
<1>1. traceData \in Seq(TraceData) /\ Len(traceData) \in Nat BY DEF Types
<1>2. PICK e : e = [traceData[cdata[c]] EXCEPT !.spans = @ \cup Mine(c)]
  BY Zenon
<1>3. traceData[cdata[c]] \in TraceData BY <1>1, SeqElement, Zenon
<1>4. /\ e.spans = traceData[cdata[c]].spans \cup Mine(c)
      /\ e.decision = traceData[cdata[c]].decision /\ e \in TraceData
  <2>1. Mine(c) \subseteq Span BY Zenon DEF Mine, Types
  <2> QED BY <1>2, <1>3, <2>1, Zenon DEF TraceData
<1>5. traceData' = [traceData EXCEPT ![cdata[c]] = e]
  BY <1>2, Zenon DEF Adds
<1> QED BY <1>1, <1>4, <1>5, ElementReplaced

LEMMA DecidesEffect ==
  Types /\ tdata \in 1 .. Len(traceData) /\ Decides
    => /\ Len(traceData) \in Nat /\ Len(traceData') = Len(traceData)
       /\ \A i \in 1 .. Len(traceData) : i # tdata => traceData'[i] = traceData[i]
       /\ traceData'[tdata].spans = traceData[tdata].spans
       /\ traceData'[tdata].decision = tdecision
<1> SUFFICES ASSUME Types, tdata \in 1 .. Len(traceData), Decides
             PROVE  /\ Len(traceData) \in Nat /\ Len(traceData') = Len(traceData)
                    /\ \A i \in 1 .. Len(traceData) : i # tdata => traceData'[i] = traceData[i]
                    /\ traceData'[tdata].spans = traceData[tdata].spans
                    /\ traceData'[tdata].decision = tdecision
  BY Zenon
<1>1. traceData \in Seq(TraceData) /\ Len(traceData) \in Nat BY DEF Types
<1>2. PICK e : e = [traceData[tdata] EXCEPT !.decision = tdecision]
  BY Zenon
<1>3. traceData[tdata] \in TraceData BY <1>1, SeqElement, Zenon
<1>4. e.spans = traceData[tdata].spans /\ e.decision = tdecision /\ e \in TraceData
  BY <1>2, <1>3, Zenon DEF TraceData, Types
<1>5. traceData' = [traceData EXCEPT ![tdata] = e]
  BY <1>2, Zenon DEF Decides
<1> QED BY <1>1, <1>4, <1>5, ElementReplaced

LEMMA HandledEffect ==
  \A c \in Caller :
    Types /\ Handled(c)
      => /\ todo' = [todo EXCEPT ![c] = todo[c] \ Mine(c)] /\ todo'[c] = todo[c] \ Mine(c)
         /\ cpc'[c] \in {"idle", "next"} /\ (cpc'[c] = "idle" => todo'[c] = {})
         /\ cdata'[c] = 0
         /\ \A d \in Caller : d # c => /\ cpc'[d] = cpc[d] /\ todo'[d] = todo[d]
                                      /\ cid'[d] = cid[d] /\ cdata'[d] = cdata[d]
BY Zenon DEF Types, Handled

\* No trace is decided NotSampled: Final forwards late spans or adds them.
LEMMA FinalCases ==
  \A c \in Caller :
    TokenInv /\ RefsOK /\ Final(c)
      => /\ cdata[c] \in 1 .. Len(traceData) /\ cpc[c] = "final"
         /\ \/ /\ traceData[cdata[c]].decision = "Sampled" /\ cpc' = [cpc EXCEPT ![c] = "forward"]
               /\ UNCHANGED <<traceData, todo, cid, cdata>>
            \/ /\ traceData[cdata[c]].decision = "Unspecified" /\ Adds(c) /\ Handled(c)
<1> SUFFICES ASSUME TokenInv, RefsOK, NEW c \in Caller, Final(c)
             PROVE  /\ cdata[c] \in 1 .. Len(traceData) /\ cpc[c] = "final"
                    /\ \/ /\ traceData[cdata[c]].decision = "Sampled" /\ cpc' = [cpc EXCEPT ![c] = "forward"]
                          /\ UNCHANGED <<traceData, todo, cid, cdata>>
                       \/ /\ traceData[cdata[c]].decision = "Unspecified" /\ Adds(c) /\ Handled(c)
  BY Zenon
<1>1. cdata[c] \in 1 .. Len(traceData) /\ cpc[c] = "final"
  BY DEF Final, TokenInv, Types, RefsOK
<1>2. traceData[cdata[c]].decision \in Decisions
  <2>1. traceData[cdata[c]] \in TraceData
    BY <1>1, SeqElement, Zenon DEF TokenInv, Types
  <2> QED BY <2>1, Zenon DEF TraceData
<1>3. CASE traceData[cdata[c]].decision = "Sampled"
  BY <1>1, <1>3, Zenon DEF Final
<1>4. CASE traceData[cdata[c]].decision = "Unspecified"
  BY <1>1, <1>4, Zenon DEF Final, Adds
<1> QED BY <1>1, <1>2, <1>3, <1>4, Zenon DEF Decisions

LEMMA TickSetCases ==
  TokenInv /\ RefsOK /\ SpansOK /\ TickSet
    => /\ tdata \in 1 .. Len(traceData) /\ tdecision = "Sampled" /\ Decides
       /\ tpc = "set" /\ tpc' = "forward" /\ tspans' = traceData[tdata].spans
       /\ tspans = {} /\ UNCHANGED <<ti, tdata, tdecision>>
<1> SUFFICES ASSUME TokenInv, RefsOK, SpansOK, TickSet
             PROVE  /\ tdata \in 1 .. Len(traceData) /\ tdecision = "Sampled" /\ Decides
                    /\ tpc = "set" /\ tpc' = "forward" /\ tspans' = traceData[tdata].spans
                    /\ tspans = {} /\ UNCHANGED <<ti, tdata, tdecision>>
  BY Zenon
<1>1. tdata \in 1 .. Len(traceData)
  BY DEF TickSet, RefsOK
<1>2. tdecision = "Sampled" /\ tspans = {}
  BY Zenon DEF TickSet, SpansOK
<1> QED BY <1>1, <1>2, Zenon DEF TickSet, Decides

\* LoadOrStore finds trace data or adds some.
LEMMA StoreCases ==
  \A c \in Caller :
    TokenInv /\ LoadOrStore(c)
      => /\ cid[c] \in Id /\ cpc[c] = "store"
         /\ \/ /\ idToTrace[cid[c]] # 0 /\ cdata' = [cdata EXCEPT ![c] = idToTrace[cid[c]]]
               /\ cpc' = [cpc EXCEPT ![c] = "final"] /\ UNCHANGED <<idToTrace, traceData>>
            \/ /\ idToTrace[cid[c]] = 0 /\ Stores
               /\ idToTrace' = [idToTrace EXCEPT ![cid[c]] = Len(traceData) + 1]
               /\ cdata' = [cdata EXCEPT ![c] = Len(traceData) + 1]
               /\ cpc' = [cpc EXCEPT ![c] = "add"]
<1> SUFFICES ASSUME TokenInv, NEW c \in Caller, LoadOrStore(c)
             PROVE  /\ cid[c] \in Id /\ cpc[c] = "store"
                    /\ \/ /\ idToTrace[cid[c]] # 0 /\ cdata' = [cdata EXCEPT ![c] = idToTrace[cid[c]]]
                          /\ cpc' = [cpc EXCEPT ![c] = "final"] /\ UNCHANGED <<idToTrace, traceData>>
                       \/ /\ idToTrace[cid[c]] = 0 /\ Stores
                          /\ idToTrace' = [idToTrace EXCEPT ![cid[c]] = Len(traceData) + 1]
                          /\ cdata' = [cdata EXCEPT ![c] = Len(traceData) + 1]
                          /\ cpc' = [cpc EXCEPT ![c] = "add"]
  BY Zenon
<1>1. cid[c] \in Id /\ cpc[c] = "store"
  BY Zenon DEF LoadOrStore, TokenInv, Chosen
<1>2. CASE idToTrace[cid[c]] # 0
  BY <1>1, <1>2, Zenon DEF LoadOrStore
<1>3. CASE idToTrace[cid[c]] = 0
  <2>1. Stores /\ Types
    BY <1>3, Zenon DEF LoadOrStore, Stores, TokenInv
  <2>2. Len(traceData') = Len(traceData) + 1
    BY <2>1, StoresEffect, Zenon
  <2> QED BY <1>1, <1>3, <2>1, <2>2, Zenon DEF LoadOrStore
<1> QED BY <1>2, <1>3, Zenon

LEMMA LoadCases ==
  \A c \in Caller :
    TokenInv /\ Load(c)
      => \E id \in Id :
           /\ cid' = [cid EXCEPT ![c] = id] /\ cdata' = [cdata EXCEPT ![c] = idToTrace[id]]
           /\ cpc' = [cpc EXCEPT ![c] = IF idToTrace[id] # 0 THEN "final" ELSE "store"]
           /\ cpc[c] = "next"
<1> SUFFICES ASSUME TokenInv, NEW c \in Caller, Load(c)
             PROVE  \E id \in Id :
                      /\ cid' = [cid EXCEPT ![c] = id] /\ cdata' = [cdata EXCEPT ![c] = idToTrace[id]]
                      /\ cpc' = [cpc EXCEPT ![c] = IF idToTrace[id] # 0 THEN "final" ELSE "store"]
                      /\ cpc[c] = "next"
  BY Zenon
<1>1. \A s \in todo[c] : traceOf[s] \in Id
  BY SamplerAssumption, Zenon DEF TokenInv, Types
<1>2. PICK s \in todo[c] :
        /\ cid' = [cid EXCEPT ![c] = traceOf[s]] /\ cdata' = [cdata EXCEPT ![c] = idToTrace[traceOf[s]]]
        /\ cpc' = [cpc EXCEPT ![c] = IF idToTrace[traceOf[s]] # 0 THEN "final" ELSE "store"]
  BY Zenon DEF Load
<1> QED BY <1>1, <1>2, Zenon DEF Load

LEMMA RefsNext == SpanInv /\ [SamplerNext]_samplerVars => RefsOK'
<1> SUFFICES ASSUME SpanInv, [SamplerNext]_samplerVars PROVE RefsOK'
  BY Zenon
<1> USE DEF SpanInv
<1>0. Types /\ Len(traceData) \in Nat
  BY DEF TokenInv, Types
<1>1. ASSUME NEW c \in Caller, NEW spans \in Calls, ConsumeTraces(c, spans) PROVE RefsOK'
  BY <1>0, <1>1, Zenon DEF ConsumeTraces, RefsOK, store, ticker, Types, Posting
<1>2. ASSUME NEW c \in Caller, Load(c) PROVE RefsOK'
  <2>1. PICK id \in Id :
           /\ cdata' = [cdata EXCEPT ![c] = idToTrace[id]]
           /\ cpc' = [cpc EXCEPT ![c] = IF idToTrace[id] # 0 THEN "final" ELSE "store"]
    BY <1>2, LoadCases, Zenon
  <2>2. UNCHANGED <<idToTrace, traceData, ticker>>
    BY <1>2, Zenon DEF Load, store
  <2> QED BY <1>0, <2>1, <2>2, Zenon DEF RefsOK, ticker, Types, Posting
<1>3. ASSUME NEW c \in Caller, LoadOrStore(c) PROVE RefsOK'
  <2>0. UNCHANGED ticker BY <1>3, Zenon DEF LoadOrStore
  <2>1. CASE Stores
    <3>1. Len(traceData') = Len(traceData) + 1 BY <1>0, <2>1, StoresEffect, Zenon
    <3>2. CASE idToTrace[cid[c]] = 0
      <4>1. /\ idToTrace' = [idToTrace EXCEPT ![cid[c]] = Len(traceData) + 1]
            /\ cdata' = [cdata EXCEPT ![c] = Len(traceData) + 1]
            /\ cpc' = [cpc EXCEPT ![c] = "add"]
        BY <1>3, <3>2, StoreCases, Zenon
      <4> QED BY <1>0, <2>0, <3>1, <4>1 DEF RefsOK, ticker, Types, Posting
    <3>3. CASE idToTrace[cid[c]] # 0
      <4>1. UNCHANGED traceData BY <1>3, <3>3, StoreCases, Zenon
      <4> QED BY <1>0, <3>1, <4>1
    <3> QED BY <3>2, <3>3, Zenon
  <2>2. CASE ~Stores
    BY <1>0, <1>3, <2>0, <2>2, StoreCases, Zenon DEF RefsOK, ticker, Types, Posting
  <2> QED BY <2>1, <2>2, Zenon
<1>4. ASSUME NEW c \in Caller,
             AddId(c) \/ CountTrace(c) \/ PostDeletion(c) \/ ReceiveDrop(c) \/ Uncount(c)
      PROVE  RefsOK'
  <2>1. /\ UNCHANGED <<idToTrace, traceData, cdata, ticker>> /\ cpc[c] \in Posting
        /\ \A d \in Caller : d # c => cpc'[d] = cpc[d]
    BY <1>0, <1>4, Zenon DEF AddId, CountTrace, PostDeletion, ReceiveDrop, Uncount, store, Types, Posting
  <2> QED BY <1>0, <2>1, Zenon DEF RefsOK, ticker, Posting
<1>5. ASSUME NEW c \in Caller, dropTrace(c) PROVE RefsOK'
  <2>1. /\ UNCHANGED <<traceData, cdata, ticker>> /\ cpc[c] \in Posting \cup {"drop"}
        /\ \A d \in Caller : d # c => cpc'[d] = cpc[d]
    BY <1>0, <1>5, Zenon DEF dropTrace, Types
  <2>2. \A id \in Id : idToTrace'[id] <= Len(traceData)
    <3>1. idToTrace' = [idToTrace EXCEPT ![drop[c]] = 0] BY <1>5, Zenon DEF dropTrace
    <3>2. \A id \in Id : idToTrace'[id] = 0 \/ idToTrace'[id] = idToTrace[id] BY <1>0, <3>1, Zenon DEF Types
    <3> QED BY <1>0, <3>2 DEF RefsOK
  <2>3. cdata[c] # 0 BY <1>5, Zenon DEF dropTrace, RefsOK, Posting
  <2>4. UNCHANGED <<tpc, tdata>> BY <2>1, Zenon DEF ticker
  <2> QED BY <2>1, <2>2, <2>3, <2>4, Zenon DEF RefsOK
<1>6. ASSUME NEW c \in Caller, Final(c) PROVE RefsOK'
  <2>0. UNCHANGED <<idToTrace, ticker>> BY <1>6, Zenon DEF Final
  <2>1. CASE Adds(c) /\ Handled(c)
    <3>1. Len(traceData') = Len(traceData) BY <1>0, <1>6, <2>1, FinalCases, AddsEffect, Zenon
    <3>2. UNCHANGED <<tpc, tdata>> BY <2>0, Zenon DEF ticker
    <3> QED BY <1>0, <2>0, <2>1, <3>1, <3>2, HandledEffect DEF RefsOK, Posting
  <2>2. CASE ~(Adds(c) /\ Handled(c))
    BY <1>0, <1>6, <2>0, <2>2, FinalCases, Zenon DEF RefsOK, ticker, Types, Posting
  <2> QED BY <2>1, <2>2, Zenon
<1>7. ASSUME NEW c \in Caller, Forward(c) PROVE RefsOK'
  <2>1. Handled(c) /\ UNCHANGED <<idToTrace, traceData, tpc, tdata>> BY <1>7, Zenon DEF Forward, store, ticker
  <2> QED BY <1>0, <2>1, HandledEffect DEF RefsOK, Posting
<1>8. CASE TickSet
  <2>1. Len(traceData') = Len(traceData) BY <1>0, <1>8, TickSetCases, DecidesEffect, Zenon
  <2> QED BY <1>8, <2>1, TickSetCases, Zenon DEF TickSet, RefsOK, caller
<1>9. CASE Tick \/ TickTaking \/ TickDone \/ TickLoad \/ TickDecide \/ TickForward
  <2>1. CASE Tick \/ TickTaking \/ TickDone \/ TickDecide \/ TickForward
    <3>1. UNCHANGED <<idToTrace, traceData, cdata, cpc>>
      BY <2>1, Zenon DEF Tick, TickTaking, TickDone, TickDecide, TickForward, caller, store
    <3>2. \/ tdata' = tdata /\ (tpc' \in {"decide", "set", "forward"} => tpc \in {"decide", "set", "forward"})
          \/ tdata' = 0 /\ tpc' = "batch"
      BY <2>1, Zenon DEF Tick, TickTaking, TickDone, TickDecide, TickForward, NextId
    <3> QED BY <1>0, <3>1, <3>2 DEF RefsOK
  <2>2. CASE TickLoad
    <3>1. CASE ti <= Len(batch) /\ idToTrace[batch[ti]] = 0
      BY <2>2, <3>1, Zenon DEF TickLoad, RefsOK, caller, store
    <3>2. CASE tdata' = idToTrace[batch[ti]] /\ idToTrace[batch[ti]] # 0
      <4>1. batch[ti] \in Id
        BY <2>2, SeqElement DEF TickLoad, BatcherInv, Batch, TickerOK
      <4> QED BY <1>0, <2>2, <3>2, <4>1, Zenon DEF TickLoad, RefsOK, caller, store, Types
    <3> QED BY <2>2, <3>1, <3>2, Zenon DEF TickLoad
  <2> QED BY <1>9, <2>1, <2>2, Zenon
<1>10. CASE Fill \/ Shutdown \/ UNCHANGED samplerVars
  BY <1>10, Zenon DEF Fill, Shutdown, samplerVars, sampler, store, caller, ticker, RefsOK
<1> QED
  BY <1>1, <1>2, <1>3, <1>4, <1>5, <1>6, <1>7, <1>8, <1>9, <1>10, Zenon DEF SamplerNext, Call, TickStep

LEMMA SpansNext == SpanInv /\ [SamplerNext]_samplerVars => SpansOK'
<1> SUFFICES ASSUME SpanInv, [SamplerNext]_samplerVars PROVE SpansOK'
  BY Zenon
<1> USE DEF SpanInv
<1>0. Types
  BY Zenon DEF TokenInv
<1>1. ASSUME NEW c \in Caller, NEW spans \in Calls, ConsumeTraces(c, spans) PROVE SpansOK'
  <2>1. spans \subseteq Span
    BY SamplerAssumption, Zenon
  <2> QED BY <1>0, <1>1, <2>1, Zenon DEF ConsumeTraces, SpansOK, ticker, Types
<1>2. ASSUME NEW c \in Caller, Load(c) PROVE SpansOK'
  <2>1. PICK id \in Id :
           cpc' = [cpc EXCEPT ![c] = IF idToTrace[id] # 0 THEN "final" ELSE "store"]
    BY <1>2, LoadCases, Zenon
  <2> QED BY <1>0, <1>2, <2>1, Zenon DEF Load, SpansOK, ticker, Types
<1>3. ASSUME NEW c \in Caller,
             \/ LoadOrStore(c) \/ AddId(c) \/ CountTrace(c) \/ PostDeletion(c) \/ ReceiveDrop(c)
             \/ dropTrace(c) \/ Uncount(c)
      PROVE  SpansOK'
  <2>1. /\ UNCHANGED <<todo, ticker, given, sent>> /\ cpc'[c] # "idle"
        /\ \A d \in Caller : d # c => cpc'[d] = cpc[d]
    BY <1>0, <1>3, Zenon DEF LoadOrStore, AddId, CountTrace, PostDeletion, ReceiveDrop, dropTrace, Uncount,
         Types
  <2> QED BY <2>1, Zenon DEF SpansOK, ticker
<1>4. ASSUME NEW c \in Caller, Final(c) PROVE SpansOK'
  <2>0. UNCHANGED <<ticker, given, sent>> BY <1>4, Zenon DEF Final
  <2>1. CASE Handled(c)
    BY <1>0, <2>0, <2>1, HandledEffect, Zenon DEF SpansOK, ticker
  <2>2. CASE ~Handled(c)
    BY <1>0, <1>4, <2>0, <2>2, FinalCases, Zenon DEF SpansOK, ticker, Types
  <2> QED BY <2>1, <2>2, Zenon
<1>5. ASSUME NEW c \in Caller, Forward(c) PROVE SpansOK'
  <2>1. sent' \in [Span -> Nat] BY <1>5 DEF Forward, SpansOK
  <2> QED BY <1>0, <1>5, <2>1, HandledEffect, Zenon DEF Forward, SpansOK, ticker
<1>6. CASE TickSet
  <2>1. traceData[tdata] \in TraceData
    BY <1>0, <1>6, TickSetCases, SeqElement, Zenon DEF Types
  <2>2. tspans' \subseteq Span
    BY <1>6, <2>1, TickSetCases, Zenon DEF TraceData
  <2> QED BY <1>6, <2>2, TickSetCases, Zenon DEF TickSet, SpansOK, caller
<1>7. CASE TickForward
  <2>1. sent' \in [Span -> Nat] BY <1>7 DEF TickForward, SpansOK
  <2> QED BY <1>7, <2>1, Zenon DEF TickForward, NextId, SpansOK, caller
<1>8. CASE TickDecide
  BY <1>8, DefaultDecides, Zenon DEF TickDecide, SpansOK, caller
<1>9. CASE Tick \/ TickTaking \/ TickDone \/ TickLoad
  BY <1>9, Zenon DEF Tick, TickTaking, TickDone, TickLoad, SpansOK, caller
<1>10. CASE Fill \/ Shutdown \/ UNCHANGED samplerVars
  BY <1>10, Zenon DEF Fill, Shutdown, samplerVars, sampler, store, caller, ticker, SpansOK
<1> QED
  BY <1>1, <1>2, <1>3, <1>4, <1>5, <1>6, <1>7, <1>8, <1>9, <1>10, Zenon DEF SamplerNext, Call, TickStep

LEMMA SpanNext == SpanInv /\ [SamplerNext]_samplerVars => SpanInv'
BY TokenNext, SamplerStepsBatcher, BatcherInvNext, TickerNext, RefsNext, SpansNext, Zenon DEF SpanInv

\* Where NoSpanForgotten looks for a span.
Found(s) ==
  \/ sent[s] > 0 \/ s \in tspans \/ (\E c \in Caller : s \in todo[c])
  \/ \E i \in 1 .. Len(traceData) : s \in traceData[i].spans /\ traceData[i].decision = "Unspecified"

LEMMA FoundIsKept ==
  \A s \in Span :
    SpanInv /\ [SamplerNext]_samplerVars /\ Found(s) => Found(s)'
<1> SUFFICES ASSUME SpanInv, [SamplerNext]_samplerVars, NEW s \in Span, Found(s)
             PROVE  Found(s)'
  BY Zenon
<1> USE DEF SpanInv
<1>0. Types /\ sent[s] \in Nat /\ sent \in [Span -> Nat]
  BY Zenon DEF TokenInv, SpansOK
<1>1. ASSUME NEW c \in Caller, NEW spans \in Calls, ConsumeTraces(c, spans) PROVE Found(s)'
  <2>1. \A d \in Caller : todo[d] \subseteq todo'[d]
    BY <1>0, <1>1, Zenon DEF ConsumeTraces, SpansOK, Types
  <2> QED BY <1>1, <2>1, Zenon DEF ConsumeTraces, Found, store, ticker
<1>2. ASSUME NEW c \in Caller, LoadOrStore(c) PROVE Found(s)'
  <2>1. UNCHANGED <<sent, tspans, todo>> BY <1>2, Zenon DEF LoadOrStore, ticker
  <2>2. CASE Stores
    <3>1. /\ Len(traceData) \in Nat /\ Len(traceData') = Len(traceData) + 1
          /\ \A i \in 1 .. Len(traceData) : traceData'[i] = traceData[i]
      BY <1>0, <2>2, StoresEffect, Zenon
    <3>2. 1 .. Len(traceData) \subseteq 1 .. Len(traceData') BY <3>1
    <3> QED BY <2>1, <3>1, <3>2, Zenon DEF Found
  <2>3. CASE UNCHANGED traceData
    BY <2>1, <2>3, Zenon DEF Found
  <2> QED BY <1>2, <2>2, <2>3, StoreCases, Zenon
<1>3. ASSUME NEW c \in Caller,
             \/ Load(c) \/ AddId(c) \/ CountTrace(c) \/ PostDeletion(c) \/ ReceiveDrop(c)
             \/ dropTrace(c) \/ Uncount(c)
      PROVE  Found(s)'
  <2>1. UNCHANGED <<todo, ticker, sent, traceData>>
    BY <1>3, Zenon DEF Load, AddId, CountTrace, PostDeletion, ReceiveDrop, dropTrace, Uncount, store
  <2> QED BY <2>1, Zenon DEF Found, ticker
<1>4. ASSUME NEW c \in Caller, Final(c) PROVE Found(s)'
  <2>0. UNCHANGED <<tspans, sent>> BY <1>4, Zenon DEF Final, ticker
  <2>1. CASE Adds(c) /\ Handled(c) /\ traceData[cdata[c]].decision = "Unspecified"
    <3>1. /\ Len(traceData') = Len(traceData)
          /\ \A i \in 1 .. Len(traceData) : i # cdata[c] => traceData'[i] = traceData[i]
          /\ traceData'[cdata[c]].spans = traceData[cdata[c]].spans \cup Mine(c)
          /\ traceData'[cdata[c]].decision = "Unspecified"
          /\ cdata[c] \in 1 .. Len(traceData)
      BY <1>0, <1>4, <2>1, FinalCases, AddsEffect, Zenon
    <3>2. /\ todo'[c] = todo[c] \ Mine(c)
          /\ \A d \in Caller : d # c => todo'[d] = todo[d]
      BY <1>0, <2>1, HandledEffect, Zenon
    <3> QED BY <2>0, <3>1, <3>2, Zenon DEF Found
  <2>2. CASE UNCHANGED <<traceData, todo>>
    BY <2>0, <2>2, Zenon DEF Found
  <2> QED BY <1>4, <2>1, <2>2, FinalCases, Zenon
<1>5. ASSUME NEW c \in Caller, Forward(c) PROVE Found(s)'
  <2>1. /\ todo'[c] = todo[c] \ Mine(c)
        /\ \A d \in Caller : d # c => todo'[d] = todo[d]
    BY <1>0, <1>5, HandledEffect, Zenon DEF Forward
  <2>2. sent'[s] \in Nat /\ sent'[s] >= sent[s] /\ (s \in Mine(c) => sent'[s] > 0)
    BY <1>0, <1>5 DEF Forward
  <2>3. UNCHANGED <<tspans, traceData>> BY <1>5, Zenon DEF Forward, ticker, store
  <2> QED BY <1>0, <2>1, <2>2, <2>3 DEF Found
<1>6. CASE TickSet
  <2>1. /\ Len(traceData') = Len(traceData)
        /\ \A i \in 1 .. Len(traceData) : i # tdata => traceData'[i] = traceData[i]
        /\ tspans' = traceData[tdata].spans /\ tspans = {}
    BY <1>0, <1>6, TickSetCases, DecidesEffect, Zenon
  <2>2. UNCHANGED <<todo, sent>> BY <1>6, Zenon DEF TickSet, caller
  <2> QED BY <2>1, <2>2, Zenon DEF Found
<1>7. CASE TickForward
  <2>1. sent'[s] \in Nat /\ sent'[s] >= sent[s] /\ (s \in tspans => sent'[s] > 0)
    BY <1>0, <1>7 DEF TickForward
  <2>2. UNCHANGED <<todo, traceData>> BY <1>7, Zenon DEF TickForward, caller, store
  <2> QED BY <1>0, <2>1, <2>2 DEF Found
<1>8. CASE \/ Tick \/ TickTaking \/ TickDone \/ TickLoad \/ TickDecide
           \/ Fill \/ Shutdown \/ UNCHANGED samplerVars
  <2>1. UNCHANGED <<todo, tspans, sent, traceData>>
    BY <1>8, Zenon DEF Tick, TickTaking, TickDone, TickLoad, TickDecide, Fill, Shutdown, samplerVars, sampler,
         store, caller, ticker
  <2> QED BY <2>1, Zenon DEF Found
<1> QED
  BY <1>1, <1>2, <1>3, <1>4, <1>5, <1>6, <1>7, <1>8, Zenon DEF SamplerNext, Call, TickStep

\* For any callers, spans and traces, a span passed to ConsumeTraces stays with its
\* caller, in undecided trace data or with the ticker until it is forwarded, however
\* calls, ticks and dropped traces interleave.
THEOREM SpansAreFound == SamplerSpec => []NoSpanForgotten
<1>1. SpanInv => (NoSpanForgotten <=> \A s \in given : Found(s))
  <2>1. SpanInv => DOMAIN traceData = 1 .. Len(traceData)
    BY SeqDomain, Zenon DEF SpanInv, TokenInv, Types
  <2> QED BY <2>1, Zenon DEF NoSpanForgotten, Found
<1>2. SamplerInit => \A s \in given : Found(s)
  BY Zenon DEF SamplerInit
<1>3. SpanInv /\ (\A s \in given : Found(s)) /\ [SamplerNext]_samplerVars => (\A s \in given : Found(s))'
  <2> SUFFICES ASSUME SpanInv, \A t \in given : Found(t), [SamplerNext]_samplerVars, NEW s \in given'
               PROVE  Found(s)'
    BY Zenon
  <2>1. CASE s \in given
    <3>1. s \in Span BY <2>1, Zenon DEF SpanInv, SpansOK
    <3> QED BY <2>1, <3>1, FoundIsKept, Zenon
  <2>2. CASE s \notin given
    <3>1. PICK c \in Caller, spans \in Calls : ConsumeTraces(c, spans)
      BY <2>2, Zenon DEF SamplerNext, Call, Load, LoadOrStore, AddId, CountTrace, PostDeletion, ReceiveDrop,
           dropTrace, Uncount, Final, Forward, TickStep, Tick, TickTaking, TickDone, TickLoad,
           TickDecide, TickSet, TickForward, Fill, Shutdown, samplerVars, sampler
    <3>2. s \in todo'[c]
      BY <2>2, <3>1, Zenon DEF ConsumeTraces, SpanInv, TokenInv, Types
    <3> QED BY <3>2, Zenon DEF Found
  <2> QED BY <2>1, <2>2, Zenon
<1> QED
  BY <1>1, <1>2, <1>3, SpanInit, SpanNext, PTL DEF SamplerSpec
=============================================================================
