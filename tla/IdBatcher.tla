------------------------------- MODULE IdBatcher -------------------------------
(***************************************************************************)
(* processor/o11ytailsampler/internal/idbatcher: ids go through a channel  *)
(* to a goroutine that fills the current batch; the ticker of the tail     *)
(* sampler takes batches; Stop ends both.  The actions are those of the    *)
(* batcher; TailSampler says who calls it and when.                        *)
(***************************************************************************)
EXTENDS Naturals, Sequences

CONSTANTS Id,                \* trace ids
          NumBatches,        \* batches in the pipe
          BatchChannelSize   \* capacity of pendingIds

ASSUME BatcherAssumption == NumBatches \in Nat \ {0} /\ BatchChannelSize \in Nat \ {0}

VARIABLES pendingIds,    \* the channel of ids
          pendingClosed,
          held,          \* the id the goroutine has received and not yet appended, << >> for none
          currentBatch,
          batches,       \* the channel of batches
          batchesClosed,
          stopped,
          readLock,      \* the taker holds stopLock for reading
          taker,         \* where CloseCurrentAndTakeFirstBatch is
          readBatch,     \* the batch it has received
          batch,         \* the batch it returned last
          stopper        \* where Stop is

batcher == <<pendingIds, pendingClosed, held, currentBatch, batches, batchesClosed, stopped,
             readLock, taker, readBatch, batch, stopper>>

BatcherInit ==
  /\ pendingIds = << >> /\ pendingClosed = FALSE /\ held = << >>
  /\ currentBatch = << >> /\ batches = [i \in 1 .. NumBatches |-> << >>] /\ batchesClosed = FALSE
  /\ stopped = FALSE /\ readLock = FALSE
  /\ taker = "idle" /\ readBatch = << >> /\ batch = << >> /\ stopper = "idle"

\* AddToCurrentBatch: blocks while the channel is full ("After this method is called
\* attempts to enqueue new items will panic", of Stop: there are none).
AddToCurrentBatch(id) ==
  /\ ~pendingClosed /\ Len(pendingIds) < BatchChannelSize
  /\ pendingIds' = Append(pendingIds, id)
  /\ UNCHANGED <<pendingClosed, held, currentBatch, batches, batchesClosed, stopped, readLock,
                 taker, readBatch, batch, stopper>>

\* The goroutine receives an id ...
ReceiveId ==
  /\ held = << >> /\ pendingIds # << >>
  /\ held' = <<Head(pendingIds)>> /\ pendingIds' = Tail(pendingIds)
  /\ UNCHANGED <<pendingClosed, currentBatch, batches, batchesClosed, stopped, readLock,
                 taker, readBatch, batch, stopper>>

\* ... and appends it under cbMutex.
AppendId ==
  /\ held # << >>
  /\ currentBatch' = Append(currentBatch, held[1]) /\ held' = << >>
  /\ UNCHANGED <<pendingIds, pendingClosed, batches, batchesClosed, stopped, readLock,
                 taker, readBatch, batch, stopper>>

\* CloseCurrentAndTakeFirstBatch receives the oldest batch ...
ReadBatch ==
  /\ taker = "idle" /\ batches # << >>
  /\ readBatch' = Head(batches) /\ batches' = Tail(batches) /\ taker' = "read"
  /\ UNCHANGED <<pendingIds, pendingClosed, held, currentBatch, batchesClosed, stopped,
                 readLock, batch, stopper>>

Return(b, current) ==
  /\ batch' = b /\ currentBatch' = current /\ readBatch' = << >> /\ taker' = "idle"
  /\ readLock' = FALSE

\* ... takes stopLock, which Stop must not hold or wait for, and returns when stopped ...
ReadLock ==
  /\ taker = "read" /\ stopper \notin {"lock", "locked"}
  /\ IF stopped THEN Return(readBatch, currentBatch)
     ELSE taker' = "push" /\ readLock' = TRUE /\ UNCHANGED <<batch, currentBatch, readBatch>>
  /\ UNCHANGED <<pendingIds, pendingClosed, held, batches, batchesClosed, stopped, stopper>>

PushCurrent_Empty ==
  /\ taker = "push" /\ Len(batches) < NumBatches
  /\ batches' = Append(batches, << >>) /\ Return(readBatch, << >>)
  /\ UNCHANGED <<pendingIds, pendingClosed, held, batchesClosed, stopped, stopper>>

\* ... or puts the current batch at the end of the pipe and starts a new one, under cbMutex.
PushCurrent ==
  /\ taker = "push" /\ Len(batches) < NumBatches
  /\ batches' = Append(batches, currentBatch) /\ Return(readBatch, << >>)
  /\ UNCHANGED <<pendingIds, pendingClosed, held, batchesClosed, stopped, stopper>>

\* The pipe is closed and empty: the current batch is the last.
TakeCurrent ==
  /\ taker = "idle" /\ batches = << >> /\ batchesClosed
  /\ Return(currentBatch, << >>)
  /\ UNCHANGED <<pendingIds, pendingClosed, held, batches, batchesClosed, stopped, stopper>>

\* Stop closes the channel of ids, ...
ClosePending ==
  /\ stopper = "idle" /\ pendingClosed' = TRUE /\ stopper' = "lock"
  /\ UNCHANGED <<pendingIds, held, currentBatch, batches, batchesClosed, stopped, readLock,
                 taker, readBatch, batch>>

\* ... takes stopLock ...
StopLock ==
  /\ stopper = "lock" /\ ~readLock /\ stopper' = "locked"
  /\ UNCHANGED <<pendingIds, pendingClosed, held, currentBatch, batches, batchesClosed, stopped,
                 readLock, taker, readBatch, batch>>

StopAnswered_NoWait ==
  /\ stopper = "locked" 
  /\ stopped' = TRUE /\ stopper' = "close"
  /\ UNCHANGED <<pendingIds, pendingClosed, held, currentBatch, batches, batchesClosed,
                 readLock, taker, readBatch, batch>>

\* ... waits under it for the goroutine, which answers when the channel is empty ...
StopAnswered ==
  /\ stopper = "locked" /\ pendingIds = << >> /\ held = << >>
  /\ stopped' = TRUE /\ stopper' = "close"
  /\ UNCHANGED <<pendingIds, pendingClosed, held, currentBatch, batches, batchesClosed,
                 readLock, taker, readBatch, batch>>

\* ... and closes the pipe.
CloseBatches ==
  /\ stopper = "close" /\ batchesClosed' = TRUE /\ stopper' = "done"
  /\ UNCHANGED <<pendingIds, pendingClosed, held, currentBatch, batches, stopped, readLock,
                 taker, readBatch, batch>>

BatcherNext ==
  \/ \E id \in Id : AddToCurrentBatch(id)
  \/ ReceiveId \/ AppendId
  \/ ReadBatch \/ ReadLock \/ PushCurrent \/ TakeCurrent
  \/ ClosePending \/ StopLock \/ StopAnswered \/ CloseBatches

BatcherSpec == BatcherInit /\ [][BatcherNext]_batcher

-----------------------------------------------------------------------------
\* The batcher is the pipeline it promises to be, with adders, taker and Stop
\* interleaved: between its receive and its send CloseCurrentAndTakeFirstBatch has
\* taken nothing yet, the batch received is still the first of the pipe.
Pipeline == INSTANCE BatchPipeline
              WITH pipe <- IF taker = "idle" THEN batches ELSE <<readBatch>> \o batches,
                   building <- currentBatch, out <- batch, ended <- stopped
BatcherIsPipeline == Pipeline!PipelineSpec
=============================================================================
