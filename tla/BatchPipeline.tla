----------------------------- MODULE BatchPipeline -----------------------------
(***************************************************************************)
(* What idbatcher.Batcher promises: "a pipeline of batches that has a fixed*)
(* number of batches in the pipe and a new batch being built outside of the*)
(* pipe".  Closing the batch being built and taking the oldest one is one  *)
(* step ("this is done as an atomic operation"); after Stop the pipe is    *)
(* read until it is empty, and the batch being built comes last.           *)
(***************************************************************************)
EXTENDS Naturals, Sequences

CONSTANTS Id, NumBatches

VARIABLES pipe,      \* the batches in the pipe, oldest first
          building,  \* the batch being built
          out,       \* the batch last taken
          ended      \* Stop has returned or is about to: nothing is added any more

pipeline == <<pipe, building, out, ended>>

PipelineInit ==
  /\ pipe = [i \in 1 .. NumBatches |-> << >>]
  /\ building = << >> /\ out = << >> /\ ended = FALSE

Add(id) ==
  ~ended /\ building' = Append(building, id) /\ UNCHANGED <<pipe, out, ended>>

CloseAndTake ==
  /\ ~ended
  /\ out' = Head(pipe) /\ pipe' = Append(Tail(pipe), building) /\ building' = << >>
  /\ UNCHANGED ended

End == ~ended /\ ended' = TRUE /\ UNCHANGED <<pipe, building, out>>

Take ==
  /\ ended /\ pipe # << >>
  /\ out' = Head(pipe) /\ pipe' = Tail(pipe) /\ UNCHANGED <<building, ended>>

TakeLast ==
  /\ ended /\ pipe = << >>
  /\ out' = building /\ building' = << >> /\ UNCHANGED <<pipe, ended>>

PipelineNext == (\E id \in Id : Add(id)) \/ CloseAndTake \/ End \/ Take \/ TakeLast

PipelineSpec == PipelineInit /\ [][PipelineNext]_pipeline
=============================================================================
