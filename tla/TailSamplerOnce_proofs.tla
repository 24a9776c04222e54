------------------------ MODULE TailSamplerOnce_proofs ------------------------
(***************************************************************************)
(* For any callers, traces, spans and num_traces: a trace without a        *)
(* decision is on its way to the ticker, an id is on its way only once     *)
(* unless its trace was dropped undecided, and no span is forwarded twice  *)
(* but for those.                                                          *)
(***************************************************************************)
EXTENDS TailSampler_proofs

\* A leaf goes to the SMT solver unless it cites another prover.
USE SMTT(30)

-----------------------------------------------------------------------------
(* The ids on their way through the batcher *)

\* pendingIds, the id being appended, the current batch, the one being taken, the
\* rest of the one the ticker looks at, and the pipe.
LaneNos == 1 .. 5 + Len(batches)
Lanes == [l \in LaneNos |->
            IF l = 1 THEN pendingIds ELSE IF l = 2 THEN held ELSE IF l = 3 THEN currentBatch
            ELSE IF l = 4 THEN readBatch ELSE IF l = 5 THEN Rest ELSE batches[l - 5]]

\* No id is lost and none is doubled.
LanesKept ==
  /\ \A E : OnceIn(LaneNos, Lanes, E) => OnceIn(LaneNos', Lanes', E)
  /\ \A id : Holds(LaneNos, Lanes, id) <=> Holds(LaneNos', Lanes', id)

LEMMA RestType ==
  BatcherInv /\ TickerOK
    => /\ Rest \in Seq(Id)
       /\ tpc = "batch" /\ ti <= Len(batch) =>
            /\ Rest # << >> /\ Head(Rest) = batch[ti] /\ batch[ti] \in Id
            /\ Tail(Rest) = SubSeq(batch, ti + 1, Len(batch))
       /\ tpc = "batch" /\ ti > Len(batch) => Rest = << >>
<1> SUFFICES ASSUME BatcherInv, TickerOK
             PROVE  /\ Rest \in Seq(Id)
                    /\ tpc = "batch" /\ ti <= Len(batch) =>
                         /\ Rest # << >> /\ Head(Rest) = batch[ti] /\ batch[ti] \in Id
                         /\ Tail(Rest) = SubSeq(batch, ti + 1, Len(batch))
                    /\ tpc = "batch" /\ ti > Len(batch) => Rest = << >>
  BY Zenon
<1>1. batch \in Seq(Id) /\ Len(batch) \in Nat /\ ti \in Nat \ {0} /\ ti <= Len(batch) + 1
  BY DEF BatcherInv, Batch, TickerOK
<1>2. SubSeq(batch, ti, Len(batch)) \in Seq(Id) /\ SubSeq(batch, ti + 1, Len(batch)) \in Seq(Id)
  BY <1>1
<1>3. Rest \in Seq(Id)
  BY <1>2 DEF Rest
<1>4. ASSUME tpc = "batch", ti <= Len(batch)
      PROVE  /\ Rest # << >> /\ Head(Rest) = batch[ti] /\ batch[ti] \in Id
             /\ Tail(Rest) = SubSeq(batch, ti + 1, Len(batch))
  <2>1. Rest = SubSeq(batch, ti, Len(batch))
    BY <1>4, Zenon DEF Rest
  <2>2. ti \in 1 .. Len(batch) /\ Len(batch) \in ti .. Len(batch)
    BY <1>1, <1>4
  <2>3. Head(Rest) = batch[ti] /\ Tail(Rest) = SubSeq(batch, ti + 1, Len(batch))
    BY <1>1, <2>1, <2>2, SubSeqEnds, Zenon
  <2>4. batch[ti] \in Id
    BY <1>1, <2>2, SeqElement, Zenon
  <2>5. Rest # << >>
    <3>1. Len(Rest) = Len(batch) - ti + 1 BY <1>1, <2>1, <2>2
    <3>2. Len(Rest) # 0 BY <1>1, <2>2, <3>1
    <3> QED BY <3>2
  <2> QED BY <2>3, <2>4, <2>5, Zenon
<1>5. ASSUME tpc = "batch", ti > Len(batch) PROVE Rest = << >>
  BY <1>1, <1>5 DEF Rest
<1> QED BY <1>3, <1>4, <1>5, Zenon

LanesOK ==
  /\ Lanes \in [LaneNos -> Seq(Id)] /\ Len(batches) \in Nat
  /\ {1, 2, 3, 4, 5} \subseteq LaneNos
  /\ Lanes[1] = pendingIds /\ Lanes[2] = held /\ Lanes[3] = currentBatch
  /\ Lanes[4] = readBatch /\ Lanes[5] = Rest
  /\ \A k \in 1 .. Len(batches) : 5 + k \in LaneNos /\ Lanes[5 + k] = batches[k]

LEMMA LanesType == BatcherInv /\ TickerOK => LanesOK
<1> SUFFICES ASSUME BatcherInv, TickerOK PROVE LanesOK
  BY Zenon
<1>1. /\ pendingIds \in Seq(Id) /\ held \in Seq(Id) /\ currentBatch \in Seq(Id)
      /\ readBatch \in Seq(Id) /\ batches \in Seq(Seq(Id)) /\ Len(batches) \in Nat
  <2>1. held \in Seq(Id)
    <3>1. CASE held = << >> BY <3>1
    <3>2. ASSUME NEW id \in Id, held = <<id>> PROVE held \in Seq(Id) BY <3>2
    <3> QED BY <3>1, <3>2, Zenon DEF BatcherInv
  <2> QED BY <2>1 DEF BatcherInv, Batch
<1>2. Rest \in Seq(Id)
  BY RestType, Zenon
<1>3. \A k \in 1 .. Len(batches) : batches[k] \in Seq(Id)
  BY <1>1, SeqElement, Zenon
<1>4. \A l \in LaneNos : l = 1 \/ l = 2 \/ l = 3 \/ l = 4 \/ l = 5 \/ l - 5 \in 1 .. Len(batches)
  BY <1>1 DEF LaneNos
<1>5. Lanes \in [LaneNos -> Seq(Id)]
  BY <1>1, <1>2, <1>3, <1>4, Zenon DEF Lanes
<1>6. {1, 2, 3, 4, 5} \subseteq LaneNos
  BY <1>1 DEF LaneNos
<1>7. \A k \in 1 .. Len(batches) : 5 + k \in LaneNos /\ 5 + k - 5 = k /\ 5 + k \notin {1, 2, 3, 4, 5}
  BY <1>1 DEF LaneNos
<1>8. \A k \in 1 .. Len(batches) : 5 + k \in LaneNos /\ Lanes[5 + k] = batches[k]
  BY <1>7 DEF Lanes
<1>9. /\ Lanes[1] = pendingIds /\ Lanes[2] = held /\ Lanes[3] = currentBatch
      /\ Lanes[4] = readBatch /\ Lanes[5] = Rest
  BY <1>6 DEF Lanes
<1> QED BY <1>1, <1>5, <1>6, <1>8, <1>9, Zenon DEF LanesOK

\* A step that leaves the sequences alone.
LEMMA SameLanes ==
  UNCHANGED <<pendingIds, held, currentBatch, readBatch, batches, Rest>> => LanesKept
<1> SUFFICES ASSUME UNCHANGED <<pendingIds, held, currentBatch, readBatch, batches, Rest>>
             PROVE  LanesKept
  BY Zenon
<1>1. UNCHANGED <<LaneNos, Lanes>> BY Zenon DEF LaneNos, Lanes
<1> QED BY <1>1, Zenon DEF LanesKept

LEMMA FillKeeps ==
  BatcherInv /\ TickerOK /\ BatcherInv' /\ TickerOK' /\ Fill => LanesKept
<1> SUFFICES ASSUME BatcherInv, TickerOK, BatcherInv', TickerOK', Fill
             PROVE  LanesKept
  BY Zenon
<1>0. UNCHANGED <<Rest, readBatch, batches, LaneNos>>
  BY Zenon DEF Fill, ReceiveId, AppendId, sampler, Rest, LaneNos
<1>b. LanesOK /\ LanesOK'
  BY LanesType, PTL
<1>a. /\ Lanes \in [LaneNos -> Seq(Id)] /\ Lanes' \in [LaneNos -> Seq(Id)]
      /\ {1, 2, 3, 4, 5} \subseteq LaneNos
  BY <1>0, <1>b, Zenon DEF LanesOK
<1>1. CASE ReceiveId
  <2>1. /\ Lanes[1] # << >> /\ Lanes'[1] = Tail(Lanes[1])
        /\ Lanes'[2] = Append(Lanes[2], Head(Lanes[1]))
    <3>1. pendingIds # << >> /\ held = << >> /\ held' = <<Head(pendingIds)>>
          /\ pendingIds' = Tail(pendingIds)
      BY <1>1, Zenon DEF ReceiveId
    <3>2. Append(<< >>, Head(pendingIds)) = <<Head(pendingIds)>> OBVIOUS
    <3> QED BY <3>1, <3>2, <1>b, Zenon DEF LanesOK
  <2>2. \A l \in LaneNos : l # 1 /\ l # 2 => Lanes'[l] = Lanes[l]
    BY <1>0, <1>1, Zenon DEF ReceiveId, Lanes
  <2>3. ASSUME NEW E
        PROVE  /\ OnceIn(LaneNos, Lanes, E) => OnceIn(LaneNos, Lanes', E)
               /\ \A id : Holds(LaneNos, Lanes, id) <=> Holds(LaneNos, Lanes', id)
    <3>1. HeadMove(LaneNos, Lanes, Lanes', 1, 2)
      BY <1>a, <2>1, <2>2 DEF HeadMove
    <3> HIDE DEF HeadMove, OnceIn, Holds
    <3> QED BY <3>1, HeadMoves, Zenon
  <2> QED BY <1>0, <2>3, Zenon DEF LanesKept
<1>2. CASE AppendId
  <2>1. /\ Lanes[2] # << >> /\ Lanes'[2] = Tail(Lanes[2])
        /\ Lanes'[3] = Append(Lanes[3], Head(Lanes[2]))
    <3>1. PICK id \in Id : held = <<id>>
      BY <1>2, Zenon DEF AppendId, BatcherInv
    <3>2. held # << >> /\ Head(held) = id /\ Tail(held) = << >> /\ held[1] = id BY <3>1
    <3> QED BY <1>2, <3>2, <1>b, Zenon DEF AppendId, LanesOK
  <2>2. \A l \in LaneNos : l # 2 /\ l # 3 => Lanes'[l] = Lanes[l]
    BY <1>0, <1>2, Zenon DEF AppendId, Lanes
  <2>3. ASSUME NEW E
        PROVE  /\ OnceIn(LaneNos, Lanes, E) => OnceIn(LaneNos, Lanes', E)
               /\ \A id : Holds(LaneNos, Lanes, id) <=> Holds(LaneNos, Lanes', id)
    <3>1. HeadMove(LaneNos, Lanes, Lanes', 2, 3)
      BY <1>a, <2>1, <2>2 DEF HeadMove
    <3> HIDE DEF HeadMove, OnceIn, Holds
    <3> QED BY <3>1, HeadMoves
  <2> QED BY <1>0, <2>3, Zenon DEF LanesKept
<1> QED BY <1>1, <1>2, Zenon DEF Fill

\* Sequences that change places keep their ids.
LEMMA RelabelKeeps ==
  \A f :
    Relabelling(LaneNos, Lanes, LaneNos', Lanes', f) => LanesKept
<1> SUFFICES ASSUME NEW f, Relabelling(LaneNos, Lanes, LaneNos', Lanes', f)
             PROVE  LanesKept
  BY Zenon
<1>1. ASSUME NEW E
      PROVE  /\ OnceIn(LaneNos, Lanes, E) => OnceIn(LaneNos', Lanes', E)
             /\ \A id : Holds(LaneNos, Lanes, id) <=> Holds(LaneNos', Lanes', id)
  BY Relabelled, Zenon
<1> QED BY <1>1, Zenon DEF LanesKept

\* A step that moves none of the batches in the pipe: the sequence at a moves to b,
\* where there was none.
LEMMA LaneMoves ==
  \A a \in 1 .. 5, b \in 1 .. 5 :
    /\ LanesOK /\ LanesOK' /\ UNCHANGED batches /\ a # b /\ Lanes[b] = << >>
    /\ Lanes'[b] = Lanes[a] /\ Lanes'[a] = << >>
    /\ \A l \in 1 .. 5 : l # a /\ l # b => Lanes'[l] = Lanes[l]
    => LanesKept
<1> SUFFICES ASSUME LanesOK, LanesOK', UNCHANGED batches, NEW a \in 1 .. 5, NEW b \in 1 .. 5, a # b,
                    Lanes[b] = << >>, Lanes'[b] = Lanes[a], Lanes'[a] = << >>,
                    \A l \in 1 .. 5 : l # a /\ l # b => Lanes'[l] = Lanes[l]
             PROVE  LanesKept
  BY Zenon
<1> DEFINE f == [l \in LaneNos |-> IF l = b THEN a ELSE IF l = a THEN b ELSE l]
<1>0. LaneNos' = LaneNos /\ a \in LaneNos /\ b \in LaneNos
  BY DEF LaneNos, LanesOK
<1>1. \A l \in LaneNos : l # a /\ l # b => Lanes'[l] = Lanes[l]
  <2> SUFFICES ASSUME NEW l \in LaneNos, l # a, l # b, l \notin 1 .. 5
               PROVE  Lanes'[l] = Lanes[l]
    BY Zenon
  <2>1. PICK k : k = l - 5 BY Zenon
  <2>2. k \in 1 .. Len(batches) /\ l = 5 + k BY <2>1 DEF LaneNos, LanesOK
  <2> QED BY <2>2, Zenon DEF LanesOK
<1>2. Relabelling(LaneNos, Lanes, LaneNos', Lanes', f)
  <2>1. Lanes \in [LaneNos -> Seq(Id)] /\ Lanes' \in [LaneNos' -> Seq(Id)] BY Zenon DEF LanesOK
  <2>2. f \in [LaneNos' -> LaneNos] BY <1>0, Zenon
  <2>3. \A l \in LaneNos' : Lanes'[l] = << >> \/ Lanes'[l] = Lanes[f[l]]
    BY <1>0, <1>1, Zenon
  <2>4. \A l, m \in LaneNos' : f[l] = f[m] => l = m
    BY <1>0, Zenon
  <2>5. \A k \in LaneNos : Lanes[k] = << >> \/ \E l \in LaneNos' : Lanes'[l] = Lanes[k]
    BY <1>0, <1>1, Zenon
  <2> HIDE DEF f
  <2> QED BY <2>1, <2>2, <2>3, <2>4, <2>5, Zenon DEF Relabelling
<1> QED BY <1>2, RelabelKeeps, Zenon

\* The oldest batch leaves the pipe to be taken.
LEMMA ReadBatchKeeps ==
  BatcherInv /\ LanesOK /\ LanesOK' /\ ReadBatch /\ readBatch = << >> /\ UNCHANGED Rest => LanesKept
<1> SUFFICES ASSUME BatcherInv, LanesOK, LanesOK', ReadBatch, readBatch = << >>, UNCHANGED Rest
             PROVE  LanesKept
  BY Zenon
<1> DEFINE f == [l \in LaneNos' |-> IF l = 4 THEN 6 ELSE IF l > 5 THEN l + 1 ELSE l]
<1>0. /\ batches # << >> /\ batches \in Seq(Seq(Id)) /\ readBatch' = Head(batches)
      /\ batches' = Tail(batches) /\ UNCHANGED <<pendingIds, held, currentBatch>>
  BY Zenon DEF ReadBatch, BatcherInv, Batch
<1>1. /\ Len(batches) \in Nat \ {0} /\ Len(batches') = Len(batches) - 1
      /\ readBatch' = batches[1] /\ \A k \in 1 .. Len(batches') : batches'[k] = batches[k + 1]
  BY <1>0
<1>2. /\ LaneNos' = 1 .. 4 + Len(batches) /\ LaneNos = 1 .. 5 + Len(batches)
  BY <1>1 DEF LaneNos
<1>3. /\ Lanes'[1] = Lanes[1] /\ Lanes'[2] = Lanes[2] /\ Lanes'[3] = Lanes[3]
      /\ Lanes[4] = << >> /\ Lanes'[5] = Lanes[5]
  BY <1>0, Zenon DEF LanesOK
<1>4. Lanes'[4] = Lanes[6]
  <2>1. 1 \in 1 .. Len(batches) BY <1>1
  <2>2. Lanes[5 + 1] = batches[1] BY <2>1, Zenon DEF LanesOK
  <2>3. Lanes'[4] = readBatch' BY Zenon DEF LanesOK
  <2> QED BY <1>1, <2>2, <2>3
<1>5. \A k \in 1 .. Len(batches') : Lanes'[5 + k] = Lanes[6 + k]
  <2> SUFFICES ASSUME NEW k \in 1 .. Len(batches') PROVE Lanes'[5 + k] = Lanes[6 + k]
    BY Zenon
  <2>1. Lanes'[5 + k] = batches'[k] BY Zenon DEF LanesOK
  <2>2. PICK n : n = k + 1 BY Zenon
  <2>3. n \in 1 .. Len(batches) /\ 5 + n = 6 + k BY <1>1, <2>2
  <2>4. Lanes[5 + n] = batches[n] BY <2>3, Zenon DEF LanesOK
  <2> QED BY <1>1, <2>1, <2>2, <2>3, <2>4, Zenon
<1>6. \A l \in LaneNos' : l > 5 => Lanes'[l] = Lanes[l + 1]
  <2> SUFFICES ASSUME NEW l \in LaneNos', l > 5 PROVE Lanes'[l] = Lanes[l + 1]
    BY Zenon
  <2>1. PICK k : k = l - 5 BY Zenon
  <2>2. k \in 1 .. Len(batches') /\ l = 5 + k /\ l + 1 = 6 + k BY <1>1, <1>2, <2>1
  <2> QED BY <1>5, <2>2, Zenon
<1>7. Relabelling(LaneNos, Lanes, LaneNos', Lanes', f)
  <2>1. Lanes \in [LaneNos -> Seq(Id)] /\ Lanes' \in [LaneNos' -> Seq(Id)] BY Zenon DEF LanesOK
  <2>2. f \in [LaneNos' -> LaneNos] BY <1>1, <1>2
  <2>3. \A l \in LaneNos' : Lanes'[l] = << >> \/ Lanes'[l] = Lanes[f[l]]
    <3> SUFFICES ASSUME NEW l \in LaneNos' PROVE Lanes'[l] = Lanes[f[l]]
      BY Zenon
    <3>1. l = 1 \/ l = 2 \/ l = 3 \/ l = 4 \/ l = 5 \/ l > 5 BY <1>1, <1>2
    <3> QED BY <1>3, <1>4, <1>6, <3>1, Zenon
  <2>4. \A l, m \in LaneNos' : f[l] = f[m] => l = m
    BY <1>1, <1>2
  <2>5. \A k \in LaneNos : Lanes[k] = << >> \/ \E l \in LaneNos' : Lanes'[l] = Lanes[k]
    <3> SUFFICES ASSUME NEW k \in LaneNos
                 PROVE  Lanes[k] = << >> \/ \E l \in LaneNos' : Lanes'[l] = Lanes[k]
      BY Zenon
    <3>1. CASE k \in {1, 2, 3, 5} BY <1>1, <1>2, <1>3, <3>1
    <3>2. CASE k = 4 BY <1>3, <3>2, Zenon
    <3>3. CASE k = 6
      <4>1. 4 \in LaneNos' BY <1>1, <1>2
      <4> QED BY <1>4, <3>3, <4>1, Zenon
    <3>4. CASE k > 6
      <4>1. PICK l : l = k - 1 BY Zenon
      <4>2. l \in LaneNos' /\ l > 5 /\ l + 1 = k BY <1>1, <1>2, <3>4, <4>1
      <4> QED BY <1>6, <4>2, Zenon
    <3> QED BY <1>1, <1>2, <3>1, <3>2, <3>3, <3>4
  <2> HIDE DEF f
  <2> QED BY <2>1, <2>2, <2>3, <2>4, <2>5, Zenon DEF Relabelling
<1> QED BY <1>7, RelabelKeeps, Zenon

\* The current batch goes to the end of the pipe, the batch taken to the ticker.
LEMMA PushKeeps ==
  /\ BatcherInv /\ LanesOK /\ LanesOK' /\ Rest = << >> /\ Rest' = readBatch
  /\ readBatch' = << >> /\ currentBatch' = << >> /\ batches' = Append(batches, currentBatch)
  /\ UNCHANGED <<pendingIds, held>>
  => LanesKept
<1> SUFFICES ASSUME BatcherInv, LanesOK, LanesOK', Rest = << >>, Rest' = readBatch, readBatch' = << >>,
                    currentBatch' = << >>, batches' = Append(batches, currentBatch), UNCHANGED <<pendingIds, held>>
             PROVE  LanesKept
  BY Zenon
<1> DEFINE n == 6 + Len(batches)
           f == [l \in LaneNos' |-> IF l = 5 THEN 4 ELSE IF l = 4 THEN 5 ELSE IF l = n THEN 3 ELSE l]
<1>0. batches \in Seq(Seq(Id)) /\ currentBatch \in Seq(Id)
  BY Zenon DEF BatcherInv, Batch
<1>1. /\ Len(batches) \in Nat /\ Len(batches') = Len(batches) + 1
      /\ \A k \in 1 .. Len(batches) + 1 :
           batches'[k] = IF k = Len(batches) + 1 THEN currentBatch ELSE batches[k]
  BY <1>0, Appended
<1>2. /\ LaneNos' = 1 .. n /\ LaneNos = 1 .. 5 + Len(batches)
  BY <1>1 DEF LaneNos
<1>3. /\ Lanes'[1] = Lanes[1] /\ Lanes'[2] = Lanes[2] /\ Lanes'[3] = << >>
      /\ Lanes'[4] = << >> /\ Lanes'[5] = Lanes[4] /\ Lanes[5] = << >>
  BY Zenon DEF LanesOK
<1>4. Lanes'[n] = Lanes[3]
  <2>1. PICK k : k = Len(batches) + 1 BY Zenon
  <2>2. k \in 1 .. Len(batches') /\ 5 + k = n BY <1>1, <2>1
  <2>3. Lanes'[5 + k] = batches'[k] /\ Lanes[3] = currentBatch BY <2>2, Zenon DEF LanesOK
  <2> QED BY <1>1, <2>1, <2>2, <2>3, Zenon
<1>5. \A l \in LaneNos : l > 5 => Lanes'[l] = Lanes[l]
  <2> SUFFICES ASSUME NEW l \in LaneNos, l > 5 PROVE Lanes'[l] = Lanes[l]
    BY Zenon
  <2>1. PICK k : k = l - 5 BY Zenon
  <2>2. /\ k \in 1 .. Len(batches) /\ k \in 1 .. Len(batches') /\ k # Len(batches) + 1 /\ l = 5 + k
    BY <1>1, <1>2, <2>1
  <2>3. Lanes'[5 + k] = batches'[k] /\ Lanes[5 + k] = batches[k] BY <2>2, Zenon DEF LanesOK
  <2> QED BY <1>1, <2>2, <2>3, Zenon
<1>6. Relabelling(LaneNos, Lanes, LaneNos', Lanes', f)
  <2>1. Lanes \in [LaneNos -> Seq(Id)] /\ Lanes' \in [LaneNos' -> Seq(Id)] BY Zenon DEF LanesOK
  <2>2. f \in [LaneNos' -> LaneNos] BY <1>1, <1>2
  <2>3. \A l \in LaneNos' : Lanes'[l] = << >> \/ Lanes'[l] = Lanes[f[l]]
    <3> SUFFICES ASSUME NEW l \in LaneNos' PROVE Lanes'[l] = << >> \/ Lanes'[l] = Lanes[f[l]]
      BY Zenon
    <3>1. l = 1 \/ l = 2 \/ l = 3 \/ l = 4 \/ l = 5 \/ l = n \/ (l > 5 /\ l \in LaneNos /\ l # n)
      BY <1>1, <1>2
    <3>2. n # 1 /\ n # 2 /\ n # 3 /\ n # 4 /\ n # 5 BY <1>1
    <3>3. CASE l > 5 /\ l \in LaneNos /\ l # n
      <4>1. f[l] = l BY <3>3, <1>1
      <4> QED BY <1>5, <3>3, <4>1, Zenon
    <3>4. CASE l = n
      <4>1. f[l] = 3 BY <3>2, <3>4, Zenon
      <4> QED BY <1>4, <3>4, <4>1, Zenon
    <3> QED BY <1>3, <3>1, <3>2, <3>3, <3>4, Zenon
  <2>4. \A l, m \in LaneNos' :
          Lanes'[l] # << >> /\ Lanes'[m] # << >> /\ f[l] = f[m] => l = m
    <3>1. \A l, m \in LaneNos' : l # 3 /\ m # 3 /\ f[l] = f[m] => l = m
      BY <1>1, <1>2
    <3> HIDE DEF f
    <3> QED BY <1>3, <3>1, Zenon
  <2>5. \A k \in LaneNos : Lanes[k] = << >> \/ \E l \in LaneNos' : Lanes'[l] = Lanes[k]
    <3> SUFFICES ASSUME NEW k \in LaneNos
                 PROVE  Lanes[k] = << >> \/ \E l \in LaneNos' : Lanes'[l] = Lanes[k]
      BY Zenon
    <3>0. n \in LaneNos' /\ 1 \in LaneNos' /\ 2 \in LaneNos' /\ 5 \in LaneNos'
      BY <1>1, <1>2
    <3> HIDE DEF n
    <3>1. CASE k = 1 \/ k = 2 \/ k = 5 BY <1>3, <3>0, <3>1, Zenon
    <3>2. CASE k = 3 BY <1>4, <3>0, <3>2, Zenon
    <3>3. CASE k = 4 BY <1>3, <3>0, <3>3, Zenon
    <3>4. CASE k > 5
      <4>1. k \in LaneNos' BY <1>1, <1>2 DEF n
      <4> QED BY <1>5, <3>4, <4>1, Zenon
    <3> QED BY <1>1, <1>2, <3>1, <3>2, <3>3, <3>4
  <2> HIDE DEF f
  <2> QED BY <2>1, <2>2, <2>3, <2>4, <2>5, Zenon DEF Relabelling
<1> QED BY <1>6, RelabelKeeps, Zenon

LEMMA TickKeeps ==
  BatcherInv /\ TickerOK /\ BatcherInv' /\ TickerOK' /\ (Tick \/ TickTaking) => LanesKept
<1> SUFFICES ASSUME BatcherInv, TickerOK, BatcherInv', TickerOK', Tick \/ TickTaking
             PROVE  LanesKept
  BY Zenon
<1>0. LanesOK /\ LanesOK'
  BY LanesType, PTL
<1>a. /\ currentBatch \in Seq(Id) /\ readBatch \in Seq(Id)
  BY Zenon DEF BatcherInv, Batch
<1>1. CASE Tick /\ ReadBatch
  <2>1. Rest = << >> /\ Rest' = << >>
    BY <1>1, Zenon DEF Tick, ReadBatch, TickerOK, Rest
  <2>2. readBatch = << >> BY <1>1, Zenon DEF TickerOK, ReadBatch
  <2> QED BY <1>0, <1>1, <2>1, <2>2, ReadBatchKeeps, Zenon
<1>2. CASE Tick /\ TakeCurrent
  <2>1. /\ Rest = << >> /\ readBatch = << >> /\ readBatch' = << >> /\ currentBatch' = << >>
        /\ batch' = currentBatch /\ UNCHANGED <<batches, pendingIds, held, ti>> /\ tpc = "wait"
    BY <1>2, Zenon DEF Tick, TakeCurrent, Return, TickerOK, Rest
  <2>2. tpc' = "batch" /\ ti = 1
    BY <1>2, <2>1, Zenon DEF Tick, TakeCurrent, Return, TickerOK
  <2>3. Rest' = currentBatch
    BY <1>a, <2>1, <2>2, WholeSubSeq, Zenon DEF Rest
  <2>4. /\ Lanes[5] = << >> /\ Lanes'[5] = Lanes[3] /\ Lanes'[3] = << >>
        /\ \A l \in 1 .. 5 : l # 3 /\ l # 5 => Lanes'[l] = Lanes[l]
    BY <1>0, <2>1, <2>3 DEF LanesOK
  <2> QED BY <1>0, <2>1, <2>4, LaneMoves
<1>3. CASE TickTaking /\ ReadLock
  <2>0. Rest = << >> BY <1>3, Zenon DEF TickTaking, Rest
  <2>1. CASE stopped
    <3>1. /\ readBatch' = << >> /\ batch' = readBatch /\ taker' = "idle"
          /\ UNCHANGED <<batches, pendingIds, held, ti, currentBatch>>
      BY <1>3, <2>1, Zenon DEF TickTaking, ReadLock, Return
    <3>2. tpc' = "batch" /\ ti = 1
      BY <1>3, <3>1, Zenon DEF TickTaking, TickerOK
    <3>3. Rest' = readBatch
      BY <1>a, <3>1, <3>2, WholeSubSeq, Zenon DEF Rest
    <3>4. /\ Lanes[5] = << >> /\ Lanes'[5] = Lanes[4] /\ Lanes'[4] = << >>
          /\ \A l \in 1 .. 5 : l # 4 /\ l # 5 => Lanes'[l] = Lanes[l]
      BY <1>0, <2>0, <3>1, <3>3 DEF LanesOK
    <3> QED BY <1>0, <3>1, <3>4, LaneMoves
  <2>2. CASE ~stopped
    <3>1. Rest' = << >> BY <1>3, <2>2, Zenon DEF TickTaking, ReadLock, Rest
    <3> QED BY <1>3, <2>0, <2>2, <3>1, SameLanes, Zenon DEF TickTaking, ReadLock
  <2> QED BY <2>1, <2>2, Zenon
<1>4. CASE TickTaking /\ PushCurrent
  <2>1. /\ readBatch' = << >> /\ batch' = readBatch /\ taker' = "idle" /\ currentBatch' = << >>
        /\ batches' = Append(batches, currentBatch) /\ UNCHANGED <<pendingIds, held, ti>>
    BY <1>4, Zenon DEF TickTaking, PushCurrent, Return
  <2>2. tpc' = "batch" /\ ti = 1 /\ Rest = << >>
    BY <1>4, <2>1, Zenon DEF TickTaking, TickerOK, Rest
  <2>3. Rest' = readBatch
    BY <1>a, <2>1, <2>2, WholeSubSeq, Zenon DEF Rest
  <2> QED BY <1>0, <2>1, <2>2, <2>3, PushKeeps, Zenon
<1> QED BY <1>1, <1>2, <1>3, <1>4, Zenon DEF Tick, TickTaking

\* Only AddId, the goroutine that fills batches and the ticker touch the lanes.
OtherCall(c) ==
  \/ Load(c) \/ LoadOrStore(c) \/ CountTrace(c) \/ PostDeletion(c) \/ ReceiveDrop(c) \/ dropTrace(c)
  \/ Uncount(c) \/ Final(c) \/ Forward(c) \/ \E spans \in Calls : ConsumeTraces(c, spans)
OtherStep ==
  \/ \E c \in Caller : OtherCall(c)
  \/ TickDone \/ TickDecide \/ TickSet \/ TickForward \/ Shutdown \/ UNCHANGED samplerVars

LEMMA OthersKeep ==
  BatcherInv /\ TickerOK /\ OtherStep => LanesKept
<1> SUFFICES ASSUME BatcherInv, TickerOK, OtherStep PROVE LanesKept
  BY Zenon
<1>1. CASE TickDone
  <2>1. Rest = << >> /\ Rest' = << >>
    <3>1. ti > Len(batch) /\ tpc = "batch" /\ tpc' = "wait" BY <1>1, Zenon DEF TickDone
    <3> QED BY <3>1, RestType, Zenon DEF Rest
  <2> QED BY <1>1, <2>1, SameLanes, Zenon DEF TickDone, batcher
<1>2. CASE TickDecide \/ TickSet \/ TickForward
  <2>1. UNCHANGED Rest
    BY <1>2, Zenon DEF TickDecide, TickSet, TickForward, NextId, Rest, batcher
  <2> QED BY <1>2, <2>1, SameLanes, Zenon DEF TickDecide, TickSet, TickForward, batcher
<1>3. ASSUME NEW c \in Caller, OtherCall(c) PROVE LanesKept
  <2>1. UNCHANGED <<batcher, ticker>>
    BY <1>3, Zenon DEF OtherCall, ConsumeTraces, Load, LoadOrStore, CountTrace, PostDeletion, ReceiveDrop,
         dropTrace, Uncount, Final, Forward
  <2> QED BY <2>1, SameLanes, Zenon DEF batcher, ticker, Rest
<1>4. CASE Shutdown \/ UNCHANGED samplerVars
  <2>1. UNCHANGED <<pendingIds, held, currentBatch, readBatch, batches, batch, tpc, ti>>
    BY <1>4, Zenon DEF Shutdown, ClosePending, StopLock, StopAnswered, CloseBatches, batcher, samplerVars,
         sampler, ticker
  <2> QED BY <2>1, SameLanes, Zenon DEF Rest
<1> QED BY <1>1, <1>2, <1>3, <1>4, Zenon DEF OtherStep

LEMMA AddIdLanes ==
  \A c \in Caller :
    TokenInv /\ BatcherInv /\ TickerOK /\ BatcherInv' /\ TickerOK' /\ AddId(c)
      => LaneNos' = LaneNos /\ IdAddition(LaneNos, Lanes, Lanes', 1, cid[c])
<1> SUFFICES ASSUME TokenInv, BatcherInv, TickerOK, BatcherInv', TickerOK', NEW c \in Caller, AddId(c)
             PROVE  LaneNos' = LaneNos /\ IdAddition(LaneNos, Lanes, Lanes', 1, cid[c])
  BY Zenon
<1>0. LanesOK /\ LanesOK'
  BY LanesType, PTL
<1>1. /\ pendingIds' = Append(pendingIds, cid[c])
      /\ UNCHANGED <<held, currentBatch, readBatch, batches, batch, tpc, ti>>
  BY Zenon DEF AddId, AddToCurrentBatch, ticker
<1>2. LaneNos' = LaneNos BY <1>1, Zenon DEF LaneNos
<1>3. cid[c] \in Id BY Zenon DEF AddId, TokenInv, Tokens, Posting
<1>4. \A l \in LaneNos : l # 1 => Lanes'[l] = Lanes[l]
  <2>1. UNCHANGED Rest BY <1>1, Zenon DEF Rest
  <2> QED BY <1>1, <1>2, <2>1, Zenon DEF Lanes
<1>5. /\ Lanes \in [LaneNos -> Seq(Id)] /\ Lanes' \in [LaneNos -> Seq(Id)] /\ 1 \in LaneNos
      /\ Lanes'[1] = Append(Lanes[1], cid[c])
  BY <1>0, <1>1, <1>2, Zenon DEF LanesOK
<1> QED BY <1>2, <1>3, <1>4, <1>5, Zenon DEF IdAddition

LEMMA TickLoadLanes ==
  BatcherInv /\ TickerOK /\ BatcherInv' /\ TickerOK' /\ TickLoad
    => /\ LaneNos' = LaneNos /\ HeadLoss(LaneNos, Lanes, Lanes', 5)
       /\ Head(Lanes[5]) = batch[ti] /\ batch[ti] \in Id
<1> SUFFICES ASSUME BatcherInv, TickerOK, BatcherInv', TickerOK', TickLoad
             PROVE  /\ LaneNos' = LaneNos /\ HeadLoss(LaneNos, Lanes, Lanes', 5)
                    /\ Head(Lanes[5]) = batch[ti] /\ batch[ti] \in Id
  BY Zenon
<1>0. LanesOK /\ LanesOK'
  BY LanesType, PTL
<1>1. tpc = "batch" /\ ti <= Len(batch) /\ UNCHANGED batcher
  BY Zenon DEF TickLoad
<1>2. LaneNos' = LaneNos BY <1>1, Zenon DEF LaneNos, batcher
<1>3. Rest' = SubSeq(batch, ti + 1, Len(batch))
  <2>1. CASE idToTrace[batch[ti]] = 0
    BY <1>1, <2>1, Zenon DEF TickLoad, Rest, batcher
  <2>2. CASE idToTrace[batch[ti]] # 0
    BY <1>1, <2>2, Zenon DEF TickLoad, Rest, batcher
  <2> QED BY <2>1, <2>2, Zenon
<1>4. /\ Rest # << >> /\ Head(Rest) = batch[ti] /\ batch[ti] \in Id /\ Rest' = Tail(Rest)
  BY <1>1, <1>3, RestType, Zenon
<1>5. /\ Lanes \in [LaneNos -> Seq(Id)] /\ Lanes' \in [LaneNos -> Seq(Id)] /\ 5 \in LaneNos
      /\ Lanes[5] = Rest /\ Lanes'[5] = Rest'
  BY <1>0, <1>2, Zenon DEF LanesOK
<1>6. \A l \in LaneNos : l # 5 => Lanes'[l] = Lanes[l]
  BY <1>1, <1>2, Zenon DEF Lanes, batcher
<1> QED BY <1>2, <1>4, <1>5, <1>6, Zenon DEF HeadLoss

-----------------------------------------------------------------------------
(* Trace data belongs to one trace, whoever refers to it *)

Owners(own) ==
  /\ \A id \in Id : idToTrace[id] # 0 => own[idToTrace[id]] = id
  /\ \A c \in Caller : cdata[c] # 0 => own[cdata[c]] = cid[c]
  /\ tdata # 0 => own[tdata] = batch[ti]
  /\ \A i \in 1 .. Len(traceData) : \A s \in traceData[i].spans : traceOf[s] = own[i]
Owned == \E own \in [1 .. Len(traceData) -> Id] : Owners(own)

\* A step that neither adds trace data nor spans to it, and leaves references alone
\* or copies them from the map.
LEMMA OwnersStay ==
  \A own :
    /\ Owners(own) /\ Len(traceData') = Len(traceData)
    /\ \A i \in 1 .. Len(traceData) : traceData'[i].spans = traceData[i].spans
    /\ \A id \in Id : idToTrace'[id] = 0 \/ idToTrace'[id] = idToTrace[id]
    /\ \A c \in Caller :
         \/ cdata'[c] = 0
         \/ cdata'[c] = cdata[c] /\ cid'[c] = cid[c]
         \/ cid'[c] \in Id /\ cdata'[c] = idToTrace[cid'[c]]
    /\ \/ tdata' = 0 \/ UNCHANGED <<tdata, batch, ti>>
       \/ batch'[ti'] \in Id /\ tdata' = idToTrace[batch'[ti']]
    => Owners(own)'
BY DEF Owners

LEMMA OwnedNext == SpanInv /\ Owned /\ [SamplerNext]_samplerVars => Owned'
<1> SUFFICES ASSUME SpanInv, Owned, [SamplerNext]_samplerVars PROVE Owned'
  BY Zenon
<1> USE DEF SpanInv
<1>0. Types /\ Len(traceData) \in Nat
  BY DEF TokenInv, Types
<1>a. PICK own \in [1 .. Len(traceData) -> Id] : Owners(own)
  BY Zenon DEF Owned
<1>1. ASSUME NEW c \in Caller, Load(c) PROVE Owned'
  <2>1. PICK id \in Id : cid' = [cid EXCEPT ![c] = id] /\ cdata' = [cdata EXCEPT ![c] = idToTrace[id]]
    BY <1>1, LoadCases, Zenon
  <2>2. UNCHANGED <<idToTrace, traceData, tdata, batch, ti>>
    BY <1>1, Zenon DEF Load, store, ticker, batcher
  <2>3. \A d \in Caller : \/ cdata'[d] = cdata[d] /\ cid'[d] = cid[d]
                          \/ cid'[d] \in Id /\ cdata'[d] = idToTrace[cid'[d]]
    BY <1>0, <2>1, Zenon DEF Types
  <2>4. Owners(own)' BY <1>a, <2>2, <2>3, OwnersStay, Zenon
  <2> QED BY <2>2, <2>4, Zenon DEF Owned
<1>2. ASSUME NEW c \in Caller, LoadOrStore(c) PROVE Owned'
  <2>0. UNCHANGED <<cid, tdata, batch, ti>> BY <1>2, Zenon DEF LoadOrStore, ticker, batcher
  <2>1. CASE idToTrace[cid[c]] # 0
    <3>1. /\ cdata' = [cdata EXCEPT ![c] = idToTrace[cid[c]]] /\ UNCHANGED <<idToTrace, traceData>>
          /\ cid[c] \in Id
      BY <1>2, <2>1, StoreCases, Zenon
    <3>2. \A d \in Caller : \/ cdata'[d] = cdata[d] /\ cid'[d] = cid[d]
                            \/ cid'[d] \in Id /\ cdata'[d] = idToTrace[cid'[d]]
      BY <1>0, <2>0, <3>1, Zenon DEF Types
    <3>3. Owners(own)' BY <1>a, <2>0, <3>1, <3>2, OwnersStay, Zenon
    <3> QED BY <3>1, <3>3, Zenon DEF Owned
  <2>2. CASE idToTrace[cid[c]] = 0
    <3> DEFINE n == Len(traceData) + 1
    <3>1. /\ Stores /\ idToTrace' = [idToTrace EXCEPT ![cid[c]] = n] /\ cid[c] \in Id
          /\ cdata' = [cdata EXCEPT ![c] = n]
      BY <1>2, <2>2, StoreCases, Zenon
    <3>2. /\ Len(traceData') = n /\ \A i \in 1 .. Len(traceData) : traceData'[i] = traceData[i]
          /\ traceData'[n].spans = {}
      BY <1>0, <3>1, StoresEffect, Zenon
    <3>3. PICK new \in [1 .. n -> Id] :
            new[n] = cid[c] /\ \A i \in 1 .. Len(traceData) : new[i] = own[i]
      <4>1. [i \in 1 .. n |-> IF i = n THEN cid[c] ELSE own[i]] \in [1 .. n -> Id]
        BY <1>0, <3>1
      <4>2. /\ [i \in 1 .. n |-> IF i = n THEN cid[c] ELSE own[i]][n] = cid[c]
            /\ \A j \in 1 .. Len(traceData) :
                 [i \in 1 .. n |-> IF i = n THEN cid[c] ELSE own[i]][j] = own[j]
        BY <1>0
      <4> QED BY <4>1, <4>2, Zenon
    <3>4. Owners(new)'
      <4>1. \A id \in Id : idToTrace'[id] # 0 => new[idToTrace'[id]] = id
        <5> SUFFICES ASSUME NEW id \in Id, idToTrace'[id] # 0 PROVE new[idToTrace'[id]] = id
          BY Zenon
        <5>1. CASE id = cid[c]
          BY <1>0, <3>1, <3>3, <5>1, Zenon DEF Types
        <5>2. CASE id # cid[c]
          <6>1. idToTrace'[id] = idToTrace[id] /\ idToTrace[id] \in 1 .. Len(traceData)
            BY <1>0, <3>1, <5>2 DEF Types, RefsOK
          <6> QED BY <1>a, <3>3, <6>1, Zenon DEF Owners
        <5> QED BY <5>1, <5>2, Zenon
      <4>2. \A d \in Caller : cdata'[d] # 0 => new[cdata'[d]] = cid'[d]
        <5> SUFFICES ASSUME NEW d \in Caller, cdata'[d] # 0 PROVE new[cdata'[d]] = cid'[d]
          BY Zenon
        <5>1. CASE d = c
          BY <1>0, <2>0, <3>1, <3>3, <5>1, Zenon DEF Types
        <5>2. CASE d # c
          <6>1. cdata'[d] = cdata[d] /\ cdata[d] \in 1 .. Len(traceData)
            BY <1>0, <3>1, <5>2 DEF Types, RefsOK
          <6> QED BY <1>a, <2>0, <3>3, <6>1, Zenon DEF Owners
        <5> QED BY <5>1, <5>2, Zenon
      <4>3. tdata' # 0 => new[tdata'] = batch'[ti']
        <5>1. tdata # 0 => tdata \in 1 .. Len(traceData) BY <1>0 DEF RefsOK
        <5> QED BY <1>a, <2>0, <3>3, <5>1, Zenon DEF Owners
      <4>4. \A i \in 1 .. Len(traceData') : \A s \in traceData'[i].spans : traceOf[s] = new[i]
        <5>1. \A i \in 1 .. n : i = n \/ i \in 1 .. Len(traceData) BY <1>0
        <5> HIDE DEF n
        <5> QED BY <1>a, <3>2, <3>3, <5>1, Zenon DEF Owners
      <4> QED BY <4>1, <4>2, <4>3, <4>4, Zenon DEF Owners
    <3> QED BY <3>2, <3>4, Zenon DEF Owned
  <2> QED BY <2>1, <2>2, Zenon
<1>3. ASSUME NEW c \in Caller, Final(c) PROVE Owned'
  <2>0. UNCHANGED <<idToTrace, tdata, batch, ti>> BY <1>3, Zenon DEF Final, ticker, batcher
  <2>1. CASE UNCHANGED <<traceData, cid, cdata>>
    BY <1>a, <2>0, <2>1, OwnersStay, Zenon DEF Owned
  <2>2. CASE Adds(c) /\ Handled(c)
    <3>1. /\ Len(traceData') = Len(traceData) /\ cdata[c] \in 1 .. Len(traceData)
          /\ \A i \in 1 .. Len(traceData) : i # cdata[c] => traceData'[i] = traceData[i]
          /\ traceData'[cdata[c]].spans = traceData[cdata[c]].spans \cup Mine(c)
      BY <1>0, <1>3, <2>2, FinalCases, AddsEffect, Zenon
    <3>2. /\ cdata'[c] = 0
          /\ \A d \in Caller : d # c => cid'[d] = cid[d] /\ cdata'[d] = cdata[d]
      BY <1>0, <2>2, HandledEffect, Zenon
    <3>3. \A s \in Mine(c) : traceOf[s] = own[cdata[c]]
      BY <1>0, <1>a, <3>1 DEF Owners, Mine
    <3>4. Owners(own)'
      <4>1. \A i \in 1 .. Len(traceData') : \A s \in traceData'[i].spans : traceOf[s] = own[i]
        BY <1>a, <3>1, <3>3 DEF Owners
      <4> QED BY <1>a, <2>0, <3>2, <4>1, Zenon DEF Owners
    <3> QED BY <3>1, <3>4, Zenon DEF Owned
  <2> QED BY <1>3, <2>1, <2>2, FinalCases, Zenon
<1>4. ASSUME NEW c \in Caller, Forward(c) PROVE Owned'
  <2>1. UNCHANGED <<idToTrace, traceData, tdata, batch, ti>>
    BY <1>4, Zenon DEF Forward, store, ticker, batcher
  <2>2. \A d \in Caller : cdata'[d] = 0 \/ (cdata'[d] = cdata[d] /\ cid'[d] = cid[d])
    <3>1. Handled(c) BY <1>4, Zenon DEF Forward
    <3>2. cdata'[c] = 0 /\ \A d \in Caller : d # c => cid'[d] = cid[d] /\ cdata'[d] = cdata[d]
      BY <1>0, <3>1, HandledEffect, Zenon
    <3> QED BY <3>2, Zenon
  <2>3. Owners(own)' BY <1>a, <2>1, <2>2, OwnersStay, Zenon
  <2> QED BY <2>1, <2>3, Zenon DEF Owned
<1>5. ASSUME NEW c \in Caller, dropTrace(c) PROVE Owned'
  <2>1. UNCHANGED <<traceData, cid, cdata, tdata, batch, ti>>
    BY <1>5, Zenon DEF dropTrace, ticker, batcher
  <2>2. \A id \in Id : idToTrace'[id] = 0 \/ idToTrace'[id] = idToTrace[id]
    BY <1>0, <1>5, Zenon DEF dropTrace, Types
  <2>3. Owners(own)' BY <1>a, <2>1, <2>2, OwnersStay, Zenon
  <2> QED BY <2>1, <2>3, Zenon DEF Owned
<1>6. ASSUME NEW c \in Caller,
             \/ AddId(c) \/ CountTrace(c) \/ PostDeletion(c) \/ ReceiveDrop(c) \/ Uncount(c)
             \/ \E spans \in Calls : ConsumeTraces(c, spans)
      PROVE  Owned'
  <2>1. UNCHANGED <<idToTrace, traceData, cid, cdata, tdata, batch, ti>>
    BY <1>6, Zenon DEF AddId, AddToCurrentBatch, CountTrace, PostDeletion, ReceiveDrop, Uncount,
         ConsumeTraces, store, ticker, batcher
  <2> QED BY <1>a, <2>1 DEF Owned, Owners
<1>7. CASE TickSet
  <2>1. /\ Len(traceData') = Len(traceData)
        /\ \A i \in 1 .. Len(traceData) : traceData'[i].spans = traceData[i].spans
    BY <1>0, <1>7, TickSetCases, DecidesEffect, Zenon
  <2>2. UNCHANGED <<idToTrace, cid, cdata, batch, ti, tdata>>
    BY <1>7, TickSetCases, Zenon DEF TickSet, caller, batcher
  <2>3. Owners(own)' BY <1>a, <2>1, <2>2, OwnersStay, Zenon
  <2> QED BY <2>1, <2>3, Zenon DEF Owned
<1>8. CASE TickLoad
  <2>1. UNCHANGED <<idToTrace, traceData, cid, cdata, batch>>
    BY <1>8, Zenon DEF TickLoad, caller, batcher, store
  <2>2. tdata' = 0 \/ (batch'[ti'] \in Id /\ tdata' = idToTrace[batch'[ti']])
    <3>1. batch[ti] \in Id BY <1>8, RestType, Zenon DEF TickLoad
    <3>2. CASE idToTrace[batch[ti]] = 0
      <4>1. tdata = 0 BY <1>8, Zenon DEF TickLoad, TickerOK
      <4>2. tdata' = tdata BY <1>8, <3>2, Zenon DEF TickLoad
      <4> QED BY <4>1, <4>2, Zenon
    <3>3. CASE idToTrace[batch[ti]] # 0
      BY <1>8, <2>1, <3>1, <3>3, Zenon DEF TickLoad
    <3> QED BY <3>2, <3>3, Zenon
  <2>3. Owners(own)' BY <1>a, <2>1, <2>2, OwnersStay, Zenon
  <2> QED BY <2>1, <2>3, Zenon DEF Owned
<1>9. CASE Tick \/ TickTaking \/ TickDone \/ TickDecide \/ TickForward
  <2>1. UNCHANGED <<idToTrace, traceData, cid, cdata>>
    BY <1>9, Zenon DEF Tick, TickTaking, TickDone, TickDecide, TickForward, caller, store
  <2>2. tdata' = 0 \/ UNCHANGED <<tdata, batch, ti>>
    BY <1>9, Zenon DEF Tick, TickTaking, TickDone, TickDecide, TickForward, NextId, TickerOK, batcher
  <2>3. Owners(own)' BY <1>a, <2>1, <2>2, OwnersStay, Zenon
  <2> QED BY <2>1, <2>3, Zenon DEF Owned
<1>10. CASE Fill \/ Shutdown \/ UNCHANGED samplerVars
  <2>1. UNCHANGED <<idToTrace, traceData, cid, cdata, tdata, batch, ti>>
    BY <1>10, Zenon DEF Fill, ReceiveId, AppendId, Shutdown, ClosePending, StopLock, StopAnswered,
         CloseBatches, samplerVars, sampler, batcher, store, caller, ticker
  <2> QED BY <1>a, <2>1, Zenon DEF Owned, Owners
<1> QED
  BY <1>1, <1>2, <1>3, <1>4, <1>5, <1>6, <1>7, <1>8, <1>9, <1>10, Zenon DEF SamplerNext, Call, TickStep

-----------------------------------------------------------------------------
(* A trace without a decision is on its way to the ticker *)

Undecided(id) == idToTrace[id] # 0 /\ traceData[idToTrace[id]].decision = "Unspecified"
InQueue(id) ==
  \/ Holds(LaneNos, Lanes, id)
  \/ tpc \in {"decide", "set"} /\ tdata = idToTrace[id]
  \/ \E c \in Caller : cpc[c] = "add" /\ cid[c] = id
QueuedInv == \A id \in Id : Undecided(id) => InQueue(id)

LEMMA QueuedInLanes ==
  \A id \in Id :
    BatcherInv /\ TickerOK => (Queued(id) <=> InQueue(id))
<1> SUFFICES ASSUME BatcherInv, TickerOK, NEW id \in Id PROVE Queued(id) <=> InQueue(id)
  BY Zenon
<1>0. LanesOK BY LanesType, Zenon
<1>a. /\ \A l \in LaneNos : Lanes[l] \in Seq(Id)
      /\ \A s \in Seq(Id) : DOMAIN s = 1 .. Len(s)
      /\ DOMAIN batches = 1 .. Len(batches)
  BY <1>0, SeqDomain, Zenon DEF LanesOK, BatcherInv
<1> DEFINE piped == {batches[k] : k \in DOMAIN batches}
<1>1. ASSUME NEW q, q \in {pendingIds, held, currentBatch, readBatch, Rest} \cup piped
      PROVE  \E l \in LaneNos : Lanes[l] = q
  <2>1. CASE q \in piped
    <3>1. PICK k \in 1 .. Len(batches) : q = batches[k] BY <1>a, <2>1, Zenon
    <3> QED BY <1>0, <3>1, Zenon DEF LanesOK
  <2>2. CASE q \in {pendingIds, held, currentBatch, readBatch, Rest}
    BY <1>0, <2>2, Zenon DEF LanesOK
  <2> QED BY <1>1, <2>1, <2>2, Zenon
<1>2. ASSUME NEW l \in LaneNos
      PROVE  Lanes[l] \in {pendingIds, held, currentBatch, readBatch, Rest} \cup piped
  <2>1. CASE l \in 1 .. 5 BY <1>0, <2>1 DEF LanesOK
  <2>2. CASE l \notin 1 .. 5
    <3>1. PICK k : k = l - 5 BY Zenon
    <3>2. k \in 1 .. Len(batches) /\ l = 5 + k BY <1>0, <2>2, <3>1 DEF LaneNos, LanesOK
    <3> QED BY <1>0, <1>a, <3>2, Zenon DEF LanesOK
  <2> QED BY <2>1, <2>2, Zenon
<1>3. (\E q \in {pendingIds, held, currentBatch, readBatch, Rest} \cup piped : \E i \in DOMAIN q : q[i] = id)
        <=> \E l \in LaneNos : \E i \in DOMAIN Lanes[l] : Lanes[l][i] = id
  BY <1>1, <1>2
<1>4. \A l \in LaneNos : DOMAIN Lanes[l] = 1 .. Len(Lanes[l])
  BY <1>a, Zenon
<1> QED BY <1>3, <1>4, Zenon DEF Queued, InQueue, Holds

LEMMA QueuedNext ==
  SpanInv /\ SpanInv' /\ QueuedInv /\ [SamplerNext]_samplerVars => QueuedInv'
<1> SUFFICES ASSUME SpanInv, SpanInv', QueuedInv, [SamplerNext]_samplerVars, NEW id \in Id,
                    Undecided(id)'
             PROVE  InQueue(id)'
  BY Zenon DEF QueuedInv
<1>0. /\ Types /\ TokenInv /\ BatcherInv /\ TickerOK /\ BatcherInv' /\ TickerOK' /\ RefsOK /\ SpansOK
      /\ Len(traceData) \in Nat
  BY DEF SpanInv, TokenInv, Types
<1>a. LanesKept => (Holds(LaneNos, Lanes, id) => Holds(LaneNos, Lanes, id)')
  BY Zenon DEF LanesKept
<1>b. Undecided(id) => InQueue(id)
  BY Zenon DEF QueuedInv
<1>c. idToTrace[id] # 0 => idToTrace[id] \in 1 .. Len(traceData)
  BY <1>0 DEF RefsOK, Types
<1>1. ASSUME NEW c \in Caller, LoadOrStore(c) PROVE InQueue(id)'
  <2>0. LanesKept
    BY <1>0, <1>1, OthersKeep, Zenon DEF OtherStep, OtherCall
  <2>1. UNCHANGED <<tpc, tdata, cid>> /\ \A d \in Caller : cpc[d] = "add" => cpc'[d] = "add"
    BY <1>0, <1>1, Zenon DEF LoadOrStore, ticker, Types
  <2>2. CASE idToTrace[cid[c]] = 0 /\ id = cid[c]
    <3>1. cpc'[c] = "add" BY <1>0, <1>1, <2>2, StoreCases, Zenon DEF Types
    <3> QED BY <2>1, <2>2, <3>1, Zenon DEF InQueue
  <2>3. CASE ~(idToTrace[cid[c]] = 0 /\ id = cid[c])
    <3>1. idToTrace'[id] = idToTrace[id]
      BY <1>0, <1>1, <2>3, StoreCases DEF Types
    <3>2. idToTrace[id] # 0 => traceData'[idToTrace[id]] = traceData[idToTrace[id]]
      BY <1>0, <1>1, <1>c, StoreCases, StoresEffect, Zenon
    <3>3. Undecided(id) BY <3>1, <3>2, Zenon DEF Undecided
    <3> QED BY <1>a, <1>b, <2>0, <2>1, <3>1, <3>3, Zenon DEF InQueue
  <2> QED BY <2>2, <2>3, Zenon
<1>2. ASSUME NEW c \in Caller, AddId(c) PROVE InQueue(id)'
  <2>1. UNCHANGED <<idToTrace, traceData, cid, tpc, tdata>>
    BY <1>2, Zenon DEF AddId, store, ticker
  <2>2. \A d \in Caller : d # c => cpc'[d] = cpc[d]
    BY <1>0, <1>2, Zenon DEF AddId, Types
  <2>3. LaneNos' = LaneNos /\ (Holds(LaneNos, Lanes', id) <=> Holds(LaneNos, Lanes, id) \/ id = cid[c])
    <3>1. LaneNos' = LaneNos /\ IdAddition(LaneNos, Lanes, Lanes', 1, cid[c])
      BY <1>0, <1>2, AddIdLanes, Zenon
    <3> QED BY <3>1, IdAdded, Zenon
  <2>4. Undecided(id) BY <2>1, Zenon DEF Undecided
  <2> QED BY <1>b, <2>1, <2>2, <2>3, <2>4, Zenon DEF InQueue
<1>3. ASSUME NEW c \in Caller, Final(c) PROVE InQueue(id)'
  <2>0. LanesKept
    BY <1>0, <1>3, OthersKeep, Zenon DEF OtherStep, OtherCall
  <2>1. UNCHANGED <<idToTrace, tpc, tdata>> BY <1>3, Zenon DEF Final, ticker
  <2>2. idToTrace[id] # 0 => traceData'[idToTrace[id]].decision = traceData[idToTrace[id]].decision
    BY <1>0, <1>3, <1>c, FinalCases, AddsEffect, Zenon
  <2>3. Undecided(id) BY <2>1, <2>2, Zenon DEF Undecided
  <2>4. \A d \in Caller : cpc[d] = "add" => cpc'[d] = "add" /\ cid'[d] = cid[d]
    <3>1. CASE Handled(c)
      BY <1>0, <1>3, <3>1, FinalCases, HandledEffect, Zenon
    <3>2. CASE ~Handled(c)
      BY <1>0, <1>3, <3>2, FinalCases, Zenon DEF Types
    <3> QED BY <3>1, <3>2, Zenon
  <2> QED BY <1>a, <1>b, <2>0, <2>1, <2>3, <2>4, Zenon DEF InQueue
<1>4. ASSUME NEW c \in Caller, dropTrace(c) PROVE InQueue(id)'
  <2>0. LanesKept
    BY <1>0, <1>4, OthersKeep, Zenon DEF OtherStep, OtherCall
  <2>1. /\ UNCHANGED <<traceData, cid, tpc, tdata>> /\ (idToTrace'[id] = 0 \/ idToTrace'[id] = idToTrace[id])
        /\ \A d \in Caller : cpc[d] = "add" => cpc'[d] = "add"
    BY <1>0, <1>4, Zenon DEF dropTrace, ticker, Types
  <2>2. Undecided(id) /\ idToTrace'[id] = idToTrace[id] BY <2>1, Zenon DEF Undecided
  <2> QED BY <1>a, <1>b, <2>0, <2>1, <2>2, Zenon DEF InQueue
<1>5. ASSUME NEW c \in Caller,
             \/ Load(c) \/ CountTrace(c) \/ PostDeletion(c) \/ ReceiveDrop(c) \/ Uncount(c) \/ Forward(c)
             \/ \E spans \in Calls : ConsumeTraces(c, spans)
      PROVE  InQueue(id)'
  <2>0. LanesKept
    BY <1>0, <1>5, OthersKeep, Zenon DEF OtherStep, OtherCall
  <2>1. UNCHANGED <<idToTrace, traceData, tpc, tdata>>
    BY <1>5, Zenon DEF Load, CountTrace, PostDeletion, ReceiveDrop, Uncount, Forward, ConsumeTraces, ticker,
         store
  <2>2. \A d \in Caller : cpc[d] = "add" => cpc'[d] = "add" /\ cid'[d] = cid[d]
    <3>1. cpc[c] # "add"
      BY <1>5, Zenon DEF Load, CountTrace, PostDeletion, ReceiveDrop, Uncount, Forward, ConsumeTraces
    <3>2. \A d \in Caller : d # c => cpc'[d] = cpc[d] /\ cid'[d] = cid[d]
      BY <1>0, <1>5, Zenon DEF Load, CountTrace, PostDeletion, ReceiveDrop, Uncount, Forward, Handled,
           ConsumeTraces, Types
    <3> QED BY <3>1, <3>2, Zenon
  <2>3. Undecided(id) BY <2>1, Zenon DEF Undecided
  <2> QED BY <1>a, <1>b, <2>0, <2>1, <2>2, <2>3, Zenon DEF InQueue
<1>6. CASE TickSet
  <2>0. LanesKept
    BY <1>0, <1>6, OthersKeep, Zenon DEF OtherStep
  <2>1. UNCHANGED <<idToTrace, cpc, cid>> BY <1>6, Zenon DEF TickSet, caller
  <2>2. /\ traceData'[tdata].decision = "Sampled"
        /\ \A i \in 1 .. Len(traceData) : i # tdata => traceData'[i] = traceData[i]
    BY <1>0, <1>6, TickSetCases, DecidesEffect, Zenon
  <2>3. Undecided(id) /\ tdata # idToTrace[id] BY <1>c, <2>1, <2>2, Zenon DEF Undecided
  <2> QED BY <1>a, <1>b, <2>0, <2>1, <2>3, Zenon DEF InQueue
<1>7. CASE TickLoad
  <2>1. UNCHANGED <<idToTrace, traceData, cpc, cid>> BY <1>7, Zenon DEF TickLoad, caller, store
  <2>2. Undecided(id) BY <2>1, Zenon DEF Undecided
  <2>3. LaneNos' = LaneNos /\ (Holds(LaneNos, Lanes, id) => Holds(LaneNos, Lanes', id) \/ id = batch[ti])
    <3>1. /\ LaneNos' = LaneNos /\ HeadLoss(LaneNos, Lanes, Lanes', 5)
          /\ Head(Lanes[5]) = batch[ti]
      BY <1>0, <1>7, TickLoadLanes, Zenon
    <3>2. \A x : Holds(LaneNos, Lanes, x) => Holds(LaneNos, Lanes', x) \/ x = Head(Lanes[5])
      BY <3>1, HeadLostOnly
    <3> QED BY <3>1, <3>2, Zenon
  <2>4. CASE id = batch[ti]
    BY <1>7, <2>1, <2>2, <2>4, Zenon DEF TickLoad, InQueue, Undecided
  <2>5. CASE id # batch[ti]
    BY <1>7, <1>b, <2>1, <2>2, <2>3, <2>5, Zenon DEF TickLoad, InQueue
  <2> QED BY <2>4, <2>5, Zenon
<1>8. CASE TickDone \/ TickDecide \/ TickForward \/ Shutdown \/ UNCHANGED samplerVars
  <2>0. LanesKept
    BY <1>0, <1>8, OthersKeep, Zenon DEF OtherStep
  <2>1. UNCHANGED <<idToTrace, traceData, cpc, cid>>
    BY <1>8, Zenon DEF TickDone, TickDecide, TickForward, Shutdown, samplerVars, sampler, caller, store
  <2>2. tpc \in {"decide", "set"} => tpc' \in {"decide", "set"} /\ tdata' = tdata
    BY <1>8, Zenon DEF TickDone, TickDecide, TickForward, Shutdown, samplerVars, sampler, ticker
  <2>3. Undecided(id) BY <2>1, Zenon DEF Undecided
  <2> QED BY <1>a, <1>b, <2>0, <2>1, <2>2, <2>3, Zenon DEF InQueue
<1>9. CASE Tick \/ TickTaking \/ Fill
  <2>0. LanesKept
    BY <1>0, <1>9, TickKeeps, FillKeeps, Zenon
  <2>1. UNCHANGED <<idToTrace, traceData, cpc, cid>>
    BY <1>9, Zenon DEF Tick, TickTaking, Fill, sampler, caller, store
  <2>2. tpc \in {"decide", "set"} => tpc' \in {"decide", "set"} /\ tdata' = tdata
    BY <1>9, Zenon DEF Tick, TickTaking, Fill, sampler
  <2>3. Undecided(id) BY <2>1, Zenon DEF Undecided
  <2> QED BY <1>a, <1>b, <2>0, <2>1, <2>2, <2>3, Zenon DEF InQueue
<1> QED
  BY <1>1, <1>2, <1>3, <1>4, <1>5, <1>6, <1>7, <1>8, <1>9, Zenon DEF SamplerNext, Call, TickStep

-----------------------------------------------------------------------------
(* An id is once in the batcher, unless its trace was dropped undecided *)

Adding(id) == \E c \in Caller : cpc[c] = "add" /\ cid[c] = id
InHand(id) == tpc \in {"decide", "set"} /\ batch[ti] = id

\* An id is with the caller adding it, in the batcher or looked at by the ticker, one
\* of them, and while it is its trace is in the map and undecided.
Placed(id) ==
  /\ Holds(LaneNos, Lanes, id) => Undecided(id) /\ ~Adding(id) /\ ~InHand(id)
  /\ Adding(id) => Undecided(id) /\ ~InHand(id)
  /\ InHand(id) => tdata = idToTrace[id] /\ Undecided(id)
PlacedInv == OnceIn(LaneNos, Lanes, early) /\ \A id \in Id \ early : Placed(id)

LEMMA EarlyGrows == [SamplerNext]_samplerVars => early \subseteq early'
BY Zenon DEF SamplerNext, Call, TickStep, Tick, TickTaking, TickDone, TickLoad, TickDecide, TickSet,
     TickForward, Fill, Shutdown, ConsumeTraces, Load, LoadOrStore, AddId, CountTrace, PostDeletion,
     ReceiveDrop, dropTrace, Uncount, Final, Forward, samplerVars, sampler, store

\* What allows more to be in early keeps OnceIn.
LEMMA OnceInGrows ==
  \A D, L, E, F :
    E \subseteq F /\ OnceIn(D, L, E) => OnceIn(D, L, F)
BY DEF OnceIn

\* Where an id is and whether its trace is decided stay as they are.
LEMMA PlacedStays ==
  \A id \in Id :
    /\ Placed(id) /\ LanesKept
    /\ Undecided(id) => Undecided(id)'
    /\ \A c \in Caller : cpc'[c] = "add" => cpc[c] = "add" /\ cid'[c] = cid[c]
    /\ InHand(id)' => InHand(id) /\ tdata' = tdata /\ idToTrace'[id] = idToTrace[id]
    => Placed(id)'
<1> SUFFICES ASSUME NEW id \in Id, Placed(id), LanesKept, Undecided(id) => Undecided(id)',
                    \A c \in Caller : cpc'[c] = "add" => cpc[c] = "add" /\ cid'[c] = cid[c],
                    InHand(id)' => InHand(id) /\ tdata' = tdata /\ idToTrace'[id] = idToTrace[id]
             PROVE  Placed(id)'
  BY Zenon
<1>1. Holds(LaneNos, Lanes, id)' => Holds(LaneNos, Lanes, id) BY Zenon DEF LanesKept
<1>2. Adding(id)' => Adding(id) BY Zenon DEF Adding
<1> QED BY <1>1, <1>2, Zenon DEF Placed

LEMMA PlacedNext ==
  \A id \in Id :
    /\ SpanInv /\ SpanInv' /\ Owned /\ [SamplerNext]_samplerVars /\ id \notin early'
    /\ OnceIn(LaneNos, Lanes, early) /\ Placed(id)
    => Placed(id)'
<1> SUFFICES ASSUME SpanInv, SpanInv', Owned, [SamplerNext]_samplerVars, NEW id \in Id, id \notin early',
                    OnceIn(LaneNos, Lanes, early), Placed(id)
             PROVE  Placed(id)'
  BY Zenon
<1>0. /\ Types /\ TokenInv /\ BatcherInv /\ TickerOK /\ BatcherInv' /\ TickerOK' /\ RefsOK /\ SpansOK
      /\ Len(traceData) \in Nat
  BY DEF SpanInv, TokenInv, Types
<1>c. idToTrace[id] # 0 => idToTrace[id] \in 1 .. Len(traceData)
  BY <1>0 DEF RefsOK, Types
<1>1. ASSUME NEW c \in Caller, LoadOrStore(c) PROVE Placed(id)'
  <2>0. LanesKept
    BY <1>0, <1>1, OthersKeep, Zenon DEF OtherStep, OtherCall
  <2>1. UNCHANGED <<tpc, tdata, ti, batch, cid>>
    BY <1>1, Zenon DEF LoadOrStore, ticker, batcher
  <2>2. CASE idToTrace[cid[c]] = 0 /\ id = cid[c]
    <3>1. idToTrace'[id] = Len(traceData) + 1 /\ Stores
      BY <1>0, <1>1, <2>2, StoreCases, Zenon DEF Types
    <3>2. Undecided(id)' BY <1>0, <3>1, StoresEffect DEF Undecided
    <3>3. ~Undecided(id) BY <2>2, Zenon DEF Undecided
    <3>4. ~Holds(LaneNos, Lanes, id) /\ ~InHand(id) BY <3>3, Zenon DEF Placed
    <3>5. ~Holds(LaneNos, Lanes, id)' /\ ~InHand(id)'
      BY <2>0, <2>1, <3>4, Zenon DEF LanesKept, InHand
    <3> QED BY <3>2, <3>5, Zenon DEF Placed
  <2>3. CASE ~(idToTrace[cid[c]] = 0 /\ id = cid[c])
    <3>1. idToTrace'[id] = idToTrace[id]
      BY <1>0, <1>1, <2>3, StoreCases DEF Types
    <3>2. idToTrace[id] # 0 => traceData'[idToTrace[id]] = traceData[idToTrace[id]]
      BY <1>0, <1>1, <1>c, StoreCases, StoresEffect, Zenon
    <3>3. Undecided(id) => Undecided(id)' BY <3>1, <3>2, Zenon DEF Undecided
    <3>4. Adding(id)' => Adding(id)
      BY <1>0, <1>1, <2>1, <2>3, StoreCases, Zenon DEF Adding, Types
    <3>5. InHand(id)' => InHand(id) BY <2>1, Zenon DEF InHand
    <3> QED BY <2>0, <2>1, <3>1, <3>3, <3>4, <3>5, Zenon DEF Placed, LanesKept
  <2> QED BY <2>2, <2>3, Zenon
<1>2. ASSUME NEW c \in Caller, AddId(c) PROVE Placed(id)'
  <2>1. UNCHANGED <<idToTrace, traceData, cid, tpc, ti, batch, tdata>>
    BY <1>2, Zenon DEF AddId, store, ticker, AddToCurrentBatch, batcher
  <2>2. /\ \A d \in Caller : d # c => cpc'[d] = cpc[d]
        /\ cpc[c] = "add" /\ cpc'[c] = "count"
    BY <1>0, <1>2, Zenon DEF AddId, Types
  <2>3. LaneNos' = LaneNos /\ (Holds(LaneNos, Lanes', id) <=> Holds(LaneNos, Lanes, id) \/ id = cid[c])
    <3>1. LaneNos' = LaneNos /\ IdAddition(LaneNos, Lanes, Lanes', 1, cid[c])
      BY <1>0, <1>2, AddIdLanes, Zenon
    <3> QED BY <3>1, IdAdded, Zenon
  <2>4. (Undecided(id)' <=> Undecided(id)) /\ (InHand(id)' <=> InHand(id))
    BY <2>1, Zenon DEF Undecided, InHand
  <2>5. Adding(id)' => Adding(id) /\ id # cid[c]
    BY <1>0, <2>1, <2>2, Zenon DEF Adding, TokenInv, Tokens, Posting
  <2>6. id = cid[c] => Adding(id) BY <2>2, Zenon DEF Adding
  <2> QED BY <2>1, <2>3, <2>4, <2>5, <2>6, Zenon DEF Placed
<1>3. ASSUME NEW c \in Caller, Final(c) PROVE Placed(id)'
  <2>0. LanesKept
    BY <1>0, <1>3, OthersKeep, Zenon DEF OtherStep, OtherCall
  <2>1. UNCHANGED <<idToTrace, tpc, tdata, ti, batch>> BY <1>3, Zenon DEF Final, ticker, batcher
  <2>2. idToTrace[id] # 0 => traceData'[idToTrace[id]].decision = traceData[idToTrace[id]].decision
    BY <1>0, <1>3, <1>c, FinalCases, AddsEffect, Zenon
  <2>3. Undecided(id) => Undecided(id)' BY <2>1, <2>2, Zenon DEF Undecided
  <2>4. \A d \in Caller : cpc'[d] = "add" => cpc[d] = "add" /\ cid'[d] = cid[d]
    <3>1. CASE Handled(c)
      BY <1>0, <1>3, <3>1, FinalCases, HandledEffect, Zenon
    <3>2. CASE ~Handled(c)
      BY <1>0, <1>3, <3>2, FinalCases, Zenon DEF Types
    <3> QED BY <3>1, <3>2, Zenon
  <2> QED BY <2>0, <2>1, <2>3, <2>4, PlacedStays, Zenon DEF InHand
<1>4. ASSUME NEW c \in Caller, dropTrace(c) PROVE Placed(id)'
  <2>0. LanesKept
    BY <1>0, <1>4, OthersKeep, Zenon DEF OtherStep, OtherCall
  <2>1. /\ UNCHANGED <<traceData, cid, tpc, tdata, ti, batch>>
        /\ \A d \in Caller : cpc'[d] = "add" => cpc[d] = "add"
    BY <1>0, <1>4, Zenon DEF dropTrace, ticker, batcher, Types
  <2>2. CASE id = drop[c]
    <3>1. ~Undecided(id)
      BY <1>4, <2>2, Zenon DEF dropTrace, Undecided
    <3>2. ~Holds(LaneNos, Lanes, id) /\ ~InHand(id) /\ ~Adding(id) BY <3>1, Zenon DEF Placed
    <3>3. ~Holds(LaneNos, Lanes, id)' /\ ~InHand(id)' /\ ~Adding(id)'
      BY <2>0, <2>1, <3>2, Zenon DEF LanesKept, InHand, Adding
    <3> QED BY <3>3, Zenon DEF Placed
  <2>3. CASE id # drop[c]
    <3>1. idToTrace'[id] = idToTrace[id] BY <1>0, <1>4, <2>3, Zenon DEF dropTrace, Types
    <3>2. Undecided(id) => Undecided(id)' BY <2>1, <3>1, Zenon DEF Undecided
    <3> QED BY <2>0, <2>1, <3>1, <3>2, PlacedStays, Zenon DEF InHand
  <2> QED BY <2>2, <2>3, Zenon
<1>5. ASSUME NEW c \in Caller,
             \/ Load(c) \/ CountTrace(c) \/ PostDeletion(c) \/ ReceiveDrop(c) \/ Uncount(c) \/ Forward(c)
             \/ \E spans \in Calls : ConsumeTraces(c, spans)
      PROVE  Placed(id)'
  <2>0. LanesKept
    BY <1>0, <1>5, OthersKeep, Zenon DEF OtherStep, OtherCall
  <2>1. UNCHANGED <<idToTrace, traceData, tpc, tdata, ti, batch>>
    BY <1>5, Zenon DEF Load, CountTrace, PostDeletion, ReceiveDrop, Uncount, Forward, ConsumeTraces, ticker,
         store, batcher
  <2>2. \A d \in Caller : cpc'[d] = "add" => cpc[d] = "add" /\ cid'[d] = cid[d]
    <3>1. cpc'[c] # "add"
      BY <1>0, <1>5, Zenon DEF Load, CountTrace, PostDeletion, ReceiveDrop, Uncount, Forward, Handled,
           ConsumeTraces, Types
    <3>2. \A d \in Caller : d # c => cpc'[d] = cpc[d] /\ cid'[d] = cid[d]
      BY <1>0, <1>5, Zenon DEF Load, CountTrace, PostDeletion, ReceiveDrop, Uncount, Forward, Handled,
           ConsumeTraces, Types
    <3> QED BY <3>1, <3>2, Zenon
  <2>3. Undecided(id) => Undecided(id)' BY <2>1, Zenon DEF Undecided
  <2> QED BY <2>0, <2>1, <2>2, <2>3, PlacedStays, Zenon DEF InHand
<1>6. CASE TickSet
  <2>0. LanesKept
    BY <1>0, <1>6, OthersKeep, Zenon DEF OtherStep
  <2>1. UNCHANGED <<idToTrace, cpc, cid, batch>> BY <1>6, Zenon DEF TickSet, caller, batcher
  <2>2. /\ tpc = "set" /\ tpc' = "forward"
        /\ \A i \in 1 .. Len(traceData) : i # tdata => traceData'[i] = traceData[i]
    BY <1>0, <1>6, TickSetCases, DecidesEffect, Zenon
  <2>3. ~InHand(id)' BY <2>2, Zenon DEF InHand
  <2>4. CASE tdata = idToTrace[id] /\ idToTrace[id] # 0
    <3>1. batch[ti] = id BY <2>4, Zenon DEF Owned, Owners
    <3>2. ~Holds(LaneNos, Lanes, id) /\ ~Adding(id) BY <2>2, <3>1, Zenon DEF Placed, InHand
    <3>3. ~Holds(LaneNos, Lanes, id)' /\ ~Adding(id)' BY <2>0, <2>1, <3>2, Zenon DEF LanesKept, Adding
    <3> QED BY <2>3, <3>3, Zenon DEF Placed
  <2>5. CASE ~(tdata = idToTrace[id] /\ idToTrace[id] # 0)
    <3>1. Undecided(id) => Undecided(id)' BY <1>c, <2>1, <2>2, <2>5, Zenon DEF Undecided
    <3> QED BY <2>0, <2>1, <2>3, <3>1, PlacedStays, Zenon
  <2> QED BY <2>4, <2>5, Zenon
<1>7. CASE TickLoad
  <2>1. UNCHANGED <<idToTrace, traceData, cpc, cid, early, batch>>
    BY <1>7, Zenon DEF TickLoad, caller, store, batcher
  <2>2. (Undecided(id)' <=> Undecided(id)) /\ (Adding(id)' <=> Adding(id))
    BY <2>1, Zenon DEF Undecided, Adding
  <2>3. /\ LaneNos' = LaneNos /\ HeadLoss(LaneNos, Lanes, Lanes', 5)
        /\ Head(Lanes[5]) = batch[ti]
    BY <1>0, <1>7, TickLoadLanes, Zenon
  <2>4. /\ Holds(LaneNos, Lanes', id) => Holds(LaneNos, Lanes, id)
        /\ Holds(LaneNos, Lanes, batch[ti])
    BY <2>3, HeadLostOnly
  <2>5. Holds(LaneNos, Lanes', batch[ti]) => batch[ti] \in early
    <3>1. OnceIn(LaneNos, Lanes, early) /\ Holds(LaneNos, Lanes', Head(Lanes[5])) => Head(Lanes[5]) \in early
      BY <2>3, HeadOnce, Zenon
    <3> QED BY <2>3, <3>1, Zenon
  <2>6. CASE id = batch[ti]
    <3>1. Undecided(id) /\ ~Adding(id) /\ ~Holds(LaneNos, Lanes', id)
      BY <2>1, <2>4, <2>5, <2>6, Zenon DEF Placed
    <3>2. tdata' = idToTrace[id] BY <1>7, <2>6, <3>1, Zenon DEF TickLoad, Undecided
    <3> QED BY <2>1, <2>2, <2>3, <3>1, <3>2, Zenon DEF Placed
  <2>7. CASE id # batch[ti]
    <3>1. ~InHand(id)' BY <1>7, <2>1, <2>7, Zenon DEF InHand, TickLoad
    <3> QED BY <2>2, <2>3, <2>4, <3>1, Zenon DEF Placed
  <2> QED BY <2>6, <2>7, Zenon
<1>8. CASE TickDone \/ TickDecide \/ TickForward \/ Shutdown \/ UNCHANGED samplerVars
  <2>0. LanesKept
    BY <1>0, <1>8, OthersKeep, Zenon DEF OtherStep
  <2>1. UNCHANGED <<idToTrace, traceData, cpc, cid>>
    BY <1>8, Zenon DEF TickDone, TickDecide, TickForward, Shutdown, samplerVars, sampler, caller, store
  <2>2. tpc' \in {"decide", "set"} => tpc \in {"decide", "set"} /\ UNCHANGED <<tdata, ti, batch>>
    BY <1>8, Zenon DEF TickDone, TickDecide, TickForward, NextId, Shutdown, samplerVars, sampler, ticker, batcher,
         ClosePending, StopLock, StopAnswered, CloseBatches
  <2>3. Undecided(id) => Undecided(id)' BY <2>1, Zenon DEF Undecided
  <2> QED BY <2>0, <2>1, <2>2, <2>3, PlacedStays, Zenon DEF InHand
<1>9. CASE Tick \/ TickTaking \/ Fill
  <2>0. LanesKept
    BY <1>0, <1>9, TickKeeps, FillKeeps, Zenon
  <2>1. UNCHANGED <<idToTrace, traceData, cpc, cid>>
    BY <1>9, Zenon DEF Tick, TickTaking, Fill, sampler, caller, store
  <2>2. tpc' \in {"decide", "set"} => tpc \in {"decide", "set"} /\ UNCHANGED <<tdata, ti, batch>>
    BY <1>9, Zenon DEF Tick, TickTaking, Fill, sampler, ReceiveId, AppendId
  <2>3. Undecided(id) => Undecided(id)' BY <2>1, Zenon DEF Undecided
  <2> QED BY <2>0, <2>1, <2>2, <2>3, PlacedStays, Zenon DEF InHand
<1> QED
  BY <1>1, <1>2, <1>3, <1>4, <1>5, <1>6, <1>7, <1>8, <1>9, Zenon DEF SamplerNext, Call, TickStep

LEMMA OnceInNext ==
  SpanInv /\ SpanInv' /\ PlacedInv /\ [SamplerNext]_samplerVars => OnceIn(LaneNos, Lanes, early)'
<1> SUFFICES ASSUME SpanInv, SpanInv', PlacedInv, [SamplerNext]_samplerVars
             PROVE  OnceIn(LaneNos, Lanes, early)'
  BY Zenon
<1>0. TokenInv /\ BatcherInv /\ TickerOK /\ BatcherInv' /\ TickerOK'
  BY Zenon DEF SpanInv
<1>a. OnceIn(LaneNos, Lanes, early) /\ early \subseteq early'
  BY EarlyGrows, Zenon DEF PlacedInv
<1>1. ASSUME NEW c \in Caller, AddId(c) PROVE OnceIn(LaneNos, Lanes, early)'
  <2>1. LaneNos' = LaneNos /\ IdAddition(LaneNos, Lanes, Lanes', 1, cid[c]) /\ cid[c] \in Id
    BY <1>0, <1>1, AddIdLanes, Zenon DEF IdAddition
  <2>2. cpc[c] = "add" /\ early' = early BY <1>1, Zenon DEF AddId, store
  <2>3. cid[c] \notin early => ~Holds(LaneNos, Lanes, cid[c])
    BY <2>1, <2>2, Zenon DEF PlacedInv, Placed, Adding
  <2>4. OnceIn(LaneNos, Lanes, early) /\ (Holds(LaneNos, Lanes, cid[c]) => cid[c] \in early)
          => OnceIn(LaneNos, Lanes', early)
    BY <2>1, IdAdded, Zenon
  <2> QED BY <1>a, <2>1, <2>2, <2>3, <2>4, Zenon
<1>2. CASE TickLoad
  <2>1. LaneNos' = LaneNos /\ HeadLoss(LaneNos, Lanes, Lanes', 5) /\ early' = early
    BY <1>0, <1>2, TickLoadLanes, Zenon DEF TickLoad, store
  <2>2. OnceIn(LaneNos, Lanes, early) => OnceIn(LaneNos, Lanes', early)
    BY <2>1, HeadLost
  <2> QED BY <1>a, <2>1, <2>2, Zenon
<1>3. CASE LanesKept
  <2>1. OnceIn(LaneNos', Lanes', early) BY <1>a, <1>3, Zenon DEF LanesKept
  <2> QED BY <1>a, <2>1, OnceInGrows, Zenon
<1>4. CASE OtherStep BY <1>0, <1>3, <1>4, OthersKeep, Zenon
<1>5. CASE Tick \/ TickTaking \/ Fill BY <1>0, <1>3, <1>5, TickKeeps, FillKeeps, Zenon
<1> QED
  BY <1>1, <1>2, <1>4, <1>5, Zenon DEF SamplerNext, Call, TickStep, OtherStep, OtherCall

\* The initial states of what is proved about the batcher's ids.
LEMMA LanesInit ==
  SamplerInit /\ SpanInv => PlacedInv /\ QueuedInv /\ Owned
<1> SUFFICES ASSUME SamplerInit, SpanInv PROVE PlacedInv /\ QueuedInv /\ Owned
  BY Zenon
<1>1. \A id : ~Holds(LaneNos, Lanes, id)
  <2>1. LanesOK BY LanesType, Zenon DEF SpanInv
  <2>2. /\ pendingIds = << >> /\ held = << >> /\ currentBatch = << >> /\ readBatch = << >> /\ Rest = << >>
        /\ \A k \in 1 .. Len(batches) : batches[k] = << >>
    <3>1. batches = [i \in 1 .. NumBatches |-> << >>] /\ Len(batches) = NumBatches
      BY BatcherAssumption DEF SamplerInit, BatcherInit
    <3> QED BY <3>1, Zenon DEF SamplerInit, BatcherInit, Rest
  <2>3. ASSUME NEW l \in LaneNos PROVE Lanes[l] = << >>
    <3>1. CASE l \in 1 .. 5 BY <2>1, <2>2, <3>1 DEF LanesOK
    <3>2. CASE l \notin 1 .. 5
      <4>1. PICK k : k = l - 5 BY Zenon
      <4>2. k \in 1 .. Len(batches) /\ l = 5 + k BY <2>1, <3>2, <4>1 DEF LaneNos, LanesOK
      <4> QED BY <2>1, <2>2, <4>2, Zenon DEF LanesOK
    <3> QED BY <3>1, <3>2, Zenon
  <2> QED BY <2>3 DEF Holds
<1>2. OnceIn(LaneNos, Lanes, early)
  BY <1>1, Zenon DEF OnceIn, Holds
<1>3. \A id \in Id : ~Undecided(id) /\ ~Adding(id) /\ ~InHand(id)
  BY Zenon DEF SamplerInit, Undecided, Adding, InHand
<1>4. Owned
  <2>1. traceData = << >> /\ 1 .. Len(traceData) = {} BY DEF SamplerInit
  <2>2. \E own : own \in [1 .. Len(traceData) -> Id]
    <3>1. [i \in 1 .. Len(traceData) |-> NoId] \in [1 .. Len(traceData) -> Id] BY <2>1, Zenon
    <3> QED BY <3>1, Zenon
  <2>3. \A own : Owners(own) BY <2>1, Zenon DEF SamplerInit, Owners
  <2> QED BY <2>2, <2>3, Zenon DEF Owned
<1> QED BY <1>1, <1>2, <1>3, <1>4, Zenon DEF PlacedInv, Placed, QueuedInv

\* The batcher's part of the inductive invariant.
LaneInv == SpanInv /\ Owned /\ QueuedInv /\ PlacedInv

LEMMA LaneInvariant == SamplerSpec => []LaneInv
<1>1. SamplerInit => LaneInv
  BY SpanInit, LanesInit, Zenon DEF LaneInv
<1>2. LaneInv /\ [SamplerNext]_samplerVars => LaneInv'
  <2> SUFFICES ASSUME LaneInv, [SamplerNext]_samplerVars PROVE LaneInv'
    BY Zenon
  <2>1. SpanInv /\ SpanInv' /\ Owned' /\ QueuedInv' BY SpanNext, OwnedNext, QueuedNext, Zenon DEF LaneInv
  <2>2. OnceIn(LaneNos, Lanes, early)' BY <2>1, OnceInNext, Zenon DEF LaneInv
  <2>3. ASSUME NEW id \in Id, id \notin early' PROVE Placed(id)'
    BY <2>1, <2>3, PlacedNext, EarlyGrows, Zenon DEF LaneInv, PlacedInv
  <2> QED BY <2>1, <2>2, <2>3, Zenon DEF LaneInv, PlacedInv
<1> QED BY <1>1, <1>2, PTL DEF SamplerSpec

-----------------------------------------------------------------------------
(* A span is forwarded once, unless its trace was dropped undecided *)

\* Nothing has been done with a span yet.
Untouched(s) == sent[s] = 0 /\ s \notin tspans /\ \A i \in 1 .. Len(traceData) : s \notin traceData[i].spans

\* A span has one caller, then is in the data of one trace, and is copied from there
\* when the decision is set and not before.
Once(s) ==
  /\ s \notin given => Untouched(s) /\ \A c \in Caller : s \notin todo[c]
  /\ \A c \in Caller : s \in todo[c] => Untouched(s)
  /\ \A c, d \in Caller : s \in todo[c] /\ s \in todo[d] => c = d
  /\ \A i, j \in 1 .. Len(traceData) : s \in traceData[i].spans /\ s \in traceData[j].spans => i = j
  /\ \/ traceOf[s] \in early
     \/ /\ sent[s] <= 1 /\ (s \in tspans => sent[s] = 0)
        /\ \A i \in 1 .. Len(traceData) :
             s \in traceData[i].spans /\ traceData[i].decision = "Unspecified" => sent[s] = 0 /\ s \notin tspans
OnceInv == \A s \in Span : Once(s)

\* The span is not forwarded, added or copied.
LEMMA OnceStays ==
  \A s \in Span :
    /\ Once(s) /\ early \subseteq early' /\ sent'[s] = sent[s]
    /\ s \in tspans' => s \in tspans
    /\ s \in given => s \in given'
    /\ s \in given' => s \in given
    /\ \A c \in Caller : s \in todo'[c] => s \in todo[c]
    /\ Len(traceData') = Len(traceData)
    /\ \A i \in 1 .. Len(traceData) : 
         /\ s \in traceData'[i].spans <=> s \in traceData[i].spans
         /\ traceData'[i].decision = "Unspecified" => traceData[i].decision = "Unspecified"
    => Once(s)'
<1> SUFFICES ASSUME NEW s \in Span, Once(s), early \subseteq early', sent'[s] = sent[s], s \in tspans' => s \in tspans,
                    s \in given => s \in given', s \in given' => s \in given,
                    \A c \in Caller : s \in todo'[c] => s \in todo[c], Len(traceData') = Len(traceData),
                    \A i \in 1 .. Len(traceData) : 
                      /\ s \in traceData'[i].spans <=> s \in traceData[i].spans
                      /\ traceData'[i].decision = "Unspecified" => traceData[i].decision = "Unspecified"
             PROVE  Once(s)'
  BY Zenon
<1>1. Untouched(s) => Untouched(s)' BY Zenon DEF Untouched
<1>2. (s \notin given => Untouched(s) /\ \A c \in Caller : s \notin todo[c])'
  BY <1>1, Zenon DEF Once
<1>3. (\A c \in Caller : s \in todo[c] => Untouched(s))'
  BY <1>1, Zenon DEF Once
<1>4. (\A c, d \in Caller : s \in todo[c] /\ s \in todo[d] => c = d)'
  BY Zenon DEF Once
<1>5. (\A i, j \in 1 .. Len(traceData) : s \in traceData[i].spans /\ s \in traceData[j].spans => i = j)'
  BY Zenon DEF Once
<1>6. traceOf[s] \notin early' =>
        (/\ sent[s] <= 1 /\ (s \in tspans => sent[s] = 0)
         /\ \A i \in 1 .. Len(traceData) :
              s \in traceData[i].spans /\ traceData[i].decision = "Unspecified"
                => sent[s] = 0 /\ s \notin tspans)'
  BY Zenon DEF Once
<1> QED BY <1>2, <1>3, <1>4, <1>5, <1>6, Zenon DEF Once

LEMMA OnceNext ==
  \A s \in Span :
    LaneInv /\ OnceInv /\ [SamplerNext]_samplerVars => Once(s)'
<1> SUFFICES ASSUME LaneInv, OnceInv, [SamplerNext]_samplerVars, NEW s \in Span
             PROVE  Once(s)'
  BY Zenon
<1>0. /\ Types /\ TokenInv /\ RefsOK /\ SpansOK /\ Len(traceData) \in Nat
      /\ Once(s) /\ early \subseteq early' /\ sent[s] \in Nat
  BY EarlyGrows DEF LaneInv, SpanInv, TokenInv, Types, OnceInv, SpansOK
<1>1. ASSUME NEW c \in Caller, NEW spans \in Calls, ConsumeTraces(c, spans) PROVE Once(s)'
  <2>1. /\ UNCHANGED <<traceData, tspans, sent>> /\ given' = given \cup spans
        /\ todo'[c] = spans /\ \A d \in Caller : d # c => todo'[d] = todo[d]
    BY <1>0, <1>1, Zenon DEF ConsumeTraces, store, ticker, Types
  <2>2. CASE s \in spans
    <3>1. Untouched(s) /\ \A d \in Caller : s \notin todo[d]
      BY <1>0, <1>1, <2>2, Zenon DEF ConsumeTraces, Once
    <3>2. Untouched(s)' BY <2>1, <3>1, Zenon DEF Untouched
    <3> QED BY <2>1, <2>2, <3>1, <3>2 DEF Once, Untouched
  <2>3. CASE s \notin spans
    <3>1. s \notin todo'[c] BY <2>1, <2>3, Zenon
    <3> QED BY <1>0, <2>1, <2>3, <3>1, OnceStays, Zenon
  <2> QED BY <2>2, <2>3, Zenon
<1>2. ASSUME NEW c \in Caller, LoadOrStore(c) PROVE Once(s)'
  <2>1. UNCHANGED <<tspans, sent, given, todo>>
    BY <1>2, Zenon DEF LoadOrStore, ticker
  <2>2. CASE UNCHANGED traceData BY <1>0, <2>1, <2>2, OnceStays, Zenon
  <2>3. CASE Stores
    <3>1. /\ Len(traceData') = Len(traceData) + 1 /\ traceData'[Len(traceData) + 1].spans = {}
          /\ \A i \in 1 .. Len(traceData) : traceData'[i] = traceData[i]
      BY <1>0, <2>3, StoresEffect, Zenon
    <3>2. \A i \in 1 .. Len(traceData') :
            s \in traceData'[i].spans => i \in 1 .. Len(traceData) /\ traceData'[i] = traceData[i]
      BY <1>0, <3>1
    <3>3. Untouched(s) => Untouched(s)' BY <2>1, <3>2, Zenon DEF Untouched
    <3>4. (\A i, j \in 1 .. Len(traceData) : s \in traceData[i].spans /\ s \in traceData[j].spans => i = j)'
      BY <1>0, <3>2, Zenon DEF Once
    <3>5. traceOf[s] \notin early' =>
            (/\ sent[s] <= 1 /\ (s \in tspans => sent[s] = 0)
             /\ \A i \in 1 .. Len(traceData) :
                  s \in traceData[i].spans /\ traceData[i].decision = "Unspecified"
                    => sent[s] = 0 /\ s \notin tspans)'
      BY <1>0, <2>1, <3>2, Zenon DEF Once
    <3> QED BY <1>0, <2>1, <3>3, <3>4, <3>5, Zenon DEF Once
  <2> QED BY <1>0, <1>2, <2>2, <2>3, StoreCases, Zenon
<1>3. ASSUME NEW c \in Caller, Final(c) PROVE Once(s)'
  <2>1. UNCHANGED <<tspans, sent, given>> BY <1>3, Zenon DEF Final, ticker
  <2>2. CASE UNCHANGED <<traceData, todo>> BY <1>0, <2>1, <2>2, OnceStays, Zenon
  <2>3. CASE Adds(c) /\ Handled(c)
    <3>1. /\ Len(traceData') = Len(traceData) /\ cdata[c] \in 1 .. Len(traceData)
          /\ \A i \in 1 .. Len(traceData) : i # cdata[c] => traceData'[i] = traceData[i]
          /\ traceData'[cdata[c]].spans = traceData[cdata[c]].spans \cup Mine(c)
          /\ traceData'[cdata[c]].decision = traceData[cdata[c]].decision
      BY <1>0, <1>3, <2>3, FinalCases, AddsEffect, Zenon
    <3>2. todo'[c] = todo[c] \ Mine(c) /\ \A d \in Caller : d # c => todo'[d] = todo[d]
      BY <1>0, <2>3, HandledEffect, Zenon
    <3>3. CASE s \in Mine(c)
      <4>1. s \in todo[c] /\ s \notin todo'[c] BY <3>2, <3>3, Zenon DEF Mine
      <4>2. Untouched(s) /\ s \in given /\ \A d \in Caller : d # c => s \notin todo[d]
        BY <1>0, <4>1, Zenon DEF Once
      <4>3. \A d \in Caller : s \notin todo'[d] BY <3>2, <4>1, <4>2, Zenon
      <4>4. \A i \in 1 .. Len(traceData') : s \in traceData'[i].spans => i = cdata[c]
        BY <3>1, <4>2, Zenon DEF Untouched
      <4> QED BY <1>0, <2>1, <4>2, <4>3, <4>4, Zenon DEF Once, Untouched
    <3>4. CASE s \notin Mine(c)
      <4>1. \A d \in Caller : s \in todo'[d] => s \in todo[d] BY <3>2, Zenon
      <4>2. \A i \in 1 .. Len(traceData) :
              /\ s \in traceData'[i].spans <=> s \in traceData[i].spans
              /\ traceData'[i].decision = "Unspecified" => traceData[i].decision = "Unspecified"
        BY <3>1, <3>4, Zenon
      <4> QED BY <1>0, <2>1, <3>1, <4>1, <4>2, OnceStays, Zenon
    <3> QED BY <3>3, <3>4, Zenon
  <2> QED BY <1>0, <1>3, <2>2, <2>3, FinalCases, Zenon
<1>4. ASSUME NEW c \in Caller, Forward(c) PROVE Once(s)'
  <2>1. /\ UNCHANGED <<traceData, tspans, given>> 
        /\ sent'[s] = IF s \in Mine(c) THEN sent[s] + 1 ELSE sent[s]
    BY <1>4, Zenon DEF Forward, store, ticker
  <2>2. todo'[c] = todo[c] \ Mine(c) /\ \A d \in Caller : d # c => todo'[d] = todo[d]
    BY <1>0, <1>4, HandledEffect, Zenon DEF Forward
  <2>3. CASE s \in Mine(c)
    <3>1. s \in todo[c] /\ s \notin todo'[c] BY <2>2, <2>3, Zenon DEF Mine
    <3>2. Untouched(s) /\ s \in given /\ \A d \in Caller : d # c => s \notin todo[d]
      BY <1>0, <3>1, Zenon DEF Once
    <3>3. \A d \in Caller : s \notin todo'[d] BY <2>2, <3>1, <3>2, Zenon
    <3>4. sent'[s] = 1 BY <2>1, <2>3, <3>2 DEF Untouched
    <3> QED BY <2>1, <3>2, <3>3, <3>4 DEF Once, Untouched
  <2>4. CASE s \notin Mine(c)
    <3>1. \A d \in Caller : s \in todo'[d] => s \in todo[d] BY <2>2, Zenon
    <3> QED BY <1>0, <2>1, <2>4, <3>1, OnceStays, Zenon
  <2> QED BY <2>3, <2>4, Zenon
<1>5. CASE TickSet
  <2>1. UNCHANGED <<sent, given, todo, early>> BY <1>5, Zenon DEF TickSet, caller
  <2>2. /\ Len(traceData') = Len(traceData) /\ tdata \in 1 .. Len(traceData)
        /\ \A i \in 1 .. Len(traceData) : i # tdata => traceData'[i] = traceData[i]
        /\ traceData'[tdata].spans = traceData[tdata].spans /\ traceData'[tdata].decision = "Sampled"
        /\ tpc = "set" /\ tspans' = traceData[tdata].spans /\ tspans = {}
    BY <1>0, <1>5, TickSetCases, DecidesEffect, Zenon
  <2>3. \A i \in 1 .. Len(traceData) :
          /\ s \in traceData'[i].spans <=> s \in traceData[i].spans
          /\ traceData'[i].decision = "Unspecified" => traceData[i].decision = "Unspecified"
    BY <2>2, Zenon
  <2>4. CASE s \in traceData[tdata].spans
    <3>1. s \in given /\ \A c \in Caller : s \notin todo[c]
      BY <1>0, <2>2, <2>4, Zenon DEF Once, Untouched
    <3>2. traceOf[s] \in early \/ sent[s] = 0
      <4>1. traceOf[s] = batch[ti] BY <1>0, <2>2, <2>4 DEF LaneInv, Owned, Owners
      <4>2. traceOf[s] \in Id BY SamplerAssumption, Zenon
      <4>3. traceOf[s] \notin early => traceData[tdata].decision = "Unspecified"
        BY <2>2, <4>1, <4>2, Zenon DEF LaneInv, PlacedInv, Placed, InHand, Undecided
      <4> QED BY <1>0, <2>2, <2>4, <4>3, Zenon DEF Once
    <3>3. \A i \in 1 .. Len(traceData') : s \in traceData'[i].spans => traceData'[i].decision = "Sampled"
      BY <1>0, <2>2, <2>3, <2>4, Zenon DEF Once
    <3>4. (\A i, j \in 1 .. Len(traceData) : s \in traceData[i].spans /\ s \in traceData[j].spans => i = j)'
      BY <1>0, <2>2, <2>3, Zenon DEF Once
    <3> QED BY <1>0, <2>1, <3>1, <3>2, <3>3, <3>4, Zenon DEF Once
  <2>5. CASE s \notin traceData[tdata].spans
    BY <1>0, <2>1, <2>2, <2>3, <2>5, OnceStays, Zenon
  <2> QED BY <2>4, <2>5, Zenon
<1>6. CASE TickForward
  <2>1. /\ UNCHANGED <<traceData, given, todo, early>> /\ tspans' = {}
        /\ sent'[s] = IF s \in tspans THEN sent[s] + 1 ELSE sent[s]
    BY <1>6, Zenon DEF TickForward, NextId, store, caller
  <2>2. CASE s \in tspans
    <3>1. s \in given /\ \A c \in Caller : s \notin todo[c]
      BY <1>0, <2>2, Zenon DEF Once, Untouched
    <3>2. traceOf[s] \notin early => sent[s] = 0 /\ sent'[s] = 1
      BY <1>0, <2>1, <2>2 DEF Once
    <3>3. traceOf[s] \notin early =>
            \A i \in 1 .. Len(traceData) :
              ~(s \in traceData[i].spans /\ traceData[i].decision = "Unspecified")
      BY <1>0, <2>2, Zenon DEF Once
    <3>4. \A i, j \in 1 .. Len(traceData) : s \in traceData[i].spans /\ s \in traceData[j].spans => i = j
      BY <1>0, Zenon DEF Once
    <3> QED BY <2>1, <3>1, <3>2, <3>3, <3>4 DEF Once
  <2>3. CASE s \notin tspans
    BY <1>0, <2>1, <2>3, OnceStays, Zenon
  <2> QED BY <2>2, <2>3, Zenon
<1>7. ASSUME UNCHANGED <<traceData, todo, given, sent, tspans>> PROVE Once(s)'
  BY <1>0, <1>7, OnceStays, Zenon
<1>8. ASSUME NEW c \in Caller,
             \/ Load(c) \/ AddId(c) \/ CountTrace(c) \/ PostDeletion(c) \/ ReceiveDrop(c) \/ dropTrace(c)
             \/ Uncount(c)
      PROVE  Once(s)'
  BY <1>7, <1>8, Zenon DEF Load, AddId, CountTrace, PostDeletion, ReceiveDrop, dropTrace, Uncount, store, ticker
<1>9. CASE Tick \/ TickTaking \/ TickDone \/ TickLoad \/ TickDecide \/ Fill \/ Shutdown
           \/ UNCHANGED samplerVars
  BY <1>7, <1>9, Zenon DEF Tick, TickTaking, TickDone, TickLoad, TickDecide, Fill, Shutdown, samplerVars, sampler,
       store, caller, ticker
<1> QED
  BY <1>1, <1>2, <1>3, <1>4, <1>5, <1>6, <1>8, <1>9, Zenon DEF SamplerNext, Call, TickStep

\* A span is handed to the next consumer at most once, by the ticker with the spans
\* of its trace or by the caller as a late span, whatever order spans, decisions and
\* drops come in, unless its trace was dropped before its decision.
THEOREM ForwardedOnce == SamplerSpec => []OnceUnlessDropped
<1>1. SamplerInit => OnceInv
  BY DEF SamplerInit, OnceInv, Once, Untouched
<1>2. LaneInv /\ OnceInv /\ [SamplerNext]_samplerVars => OnceInv'
  BY OnceNext, Zenon DEF OnceInv
<1>3. LaneInv /\ OnceInv => OnceUnlessDropped
  <2> SUFFICES ASSUME LaneInv, OnceInv, NEW s \in Span, sent[s] > 1 PROVE traceOf[s] \in early
    BY Zenon DEF OnceUnlessDropped
  <2>1. sent[s] \in Nat BY Zenon DEF LaneInv, SpanInv, SpansOK
  <2> QED BY <2>1 DEF OnceInv, Once
<1> QED BY <1>1, <1>2, <1>3, LaneInvariant, PTL DEF SamplerSpec
=============================================================================
