---------------------------- MODULE KafkaReceiver ----------------------------
(***************************************************************************)
(* The Kafka receiver: the consume loop, the claim handlers (one goroutine *)
(* per partition of a consumer-group session), the marking and committing  *)
(* of offsets, and the back-pressure of WithMemoryLimiter.                 *)
(*                                                                         *)
(* The traces, metrics and logs handlers are the same code three times;    *)
(* this module is one of them.  The sarama library is not in the           *)
(* repository: Fetch, StartSession, EndSession, Rebalance, AutoCommitTick, *)
(* MarkMessage and Commit say what the receiver relies on.                 *)
(***************************************************************************)
EXTENDS Integers

CONSTANTS Partition,      \* the partitions assigned to this member
          MaxOffset,      \* bound: messages produced per partition
          Poison,         \* <<partition, offset>> pairs that do not unmarshal
          After,          \* message_marking.after
          OnError,        \* message_marking.on_error
          AutoCommit,     \* autocommit.enable
          Earliest        \* initial_offset: TRUE earliest, FALSE latest

ASSUME KafkaAssumption == /\ MaxOffset \in Nat
                          /\ Poison \subseteq Partition \X Nat
                          /\ {After, OnError, AutoCommit, Earliest} \subseteq BOOLEAN

VARIABLES
  hw,          \* hw[p]: the log-end offset of the partition
  committed,   \* committed[p]: the group's committed offset at the broker
  loop,        \* the consumeLoop goroutine: "run" or "exited"
  stopped,     \* cancelConsumeLoop has been called
  session,     \* the consumer-group session: "none", "open" or "closing"
  pc,          \* pc[p]: where the ConsumeClaim goroutine of p is
  pos,         \* pos[p]: offset of the message at hand, or of the next one
  fetched,     \* fetched[p]: messages below it are in the claim's channel
  marked,      \* marked[p]: the offset the session would commit
  paused,      \* the partition consumers of the session are paused
  acked,       \* acked[p]: offsets the next consumer accepted (history)
  failed,      \* failed[p]: offsets whose handling ended in an error (history)
  base         \* base[p]: where the first session began reading (history)

vars == <<hw, committed, loop, stopped, session, pc, pos, fetched, marked,
          paused, acked, failed, base>>
broker == <<hw, base>>
history == <<acked, failed>>

NoOffset == -1
Offset == Nat \cup {NoOffset}

-----------------------------------------------------------------------------
(* Offsets, as sarama keeps them.                                          *)

\* A mark is the offset to read next, and never moves back.
MarkMessage(m, p) ==
  [m EXCEPT ![p] = IF pos[p] + 1 > @ THEN pos[p] + 1 ELSE @]

\* Session.Commit sends every partition's mark; the request may fail.
Commit(m) == committed' \in {committed, m}

CommitIf(cond, m) == IF cond THEN Commit(m) ELSE UNCHANGED committed

InitialOffset_IgnoresCommitted(p) == IF Earliest THEN 0 ELSE hw[p]
InitialOffset(p) ==
  IF committed[p] # NoOffset THEN committed[p]
  ELSE IF Earliest THEN 0 ELSE hw[p]

Init ==
  /\ hw = [p \in Partition |-> 0]
  /\ committed = [p \in Partition |-> NoOffset]
  /\ loop = "run" /\ stopped = FALSE /\ session = "none"
  /\ pc = [p \in Partition |-> "off"]
  /\ pos = [p \in Partition |-> 0]
  /\ fetched = [p \in Partition |-> 0]
  /\ marked = [p \in Partition |-> NoOffset]
  /\ paused = FALSE
  /\ acked = [p \in Partition |-> {}]
  /\ failed = [p \in Partition |-> {}]
  /\ base = [p \in Partition |-> NoOffset]

-----------------------------------------------------------------------------
(* The broker and the group protocol (external).                           *)

Produce(p) ==
  /\ hw[p] < MaxOffset
  /\ hw' = [hw EXCEPT ![p] = @ + 1]
  /\ UNCHANGED <<committed, loop, stopped, session, pc, pos, fetched, marked,
                 paused, history, base>>

\* consumeLoop calls Consume, which joins the group, runs Setup and starts one
\* ConsumeClaim per partition, from the committed or the initial offset.  The
\* partition consumers are new, so none is paused.
StartSession ==
  /\ loop = "run" /\ ~stopped /\ session = "none"
  /\ session' = "open"
  /\ pc' = [p \in Partition |-> "select"]
  /\ pos' = [p \in Partition |-> InitialOffset(p)]
  /\ fetched' = [p \in Partition |-> InitialOffset(p)]
  /\ marked' = committed
  /\ base' = [p \in Partition |->
                IF base[p] = NoOffset THEN InitialOffset(p) ELSE base[p]]
  /\ UNCHANGED <<hw, committed, loop, stopped, paused, history>>

Fetch(p) ==
  /\ session = "open" /\ ~paused
  /\ fetched[p] < hw[p]
  /\ fetched' = [fetched EXCEPT ![p] = @ + 1]
  /\ UNCHANGED <<broker, committed, loop, stopped, session, pc, pos, marked,
                 paused, history>>

\* The coordinator revokes the claims, or the heartbeat fails.
Rebalance ==
  /\ session = "open"
  /\ session' = "closing"
  /\ UNCHANGED <<broker, committed, loop, stopped, pc, pos, fetched, marked,
                 paused, history>>

\* Once every ConsumeClaim has returned, the session is released; with
\* auto-commit the offset manager flushes the marks a last time.
EndSession ==
  /\ session = "closing" /\ \A p \in Partition : pc[p] = "off"
  /\ session' = "none"
  /\ CommitIf(AutoCommit, marked)
  /\ paused' = FALSE
  /\ UNCHANGED <<broker, loop, stopped, pc, pos, fetched, marked, history>>

AutoCommitTick ==
  /\ AutoCommit /\ session # "none"
  /\ Commit(marked)
  /\ UNCHANGED <<broker, loop, stopped, session, pc, pos, fetched, marked,
                 paused, history>>

-----------------------------------------------------------------------------
(* ConsumeClaim.                                                           *)

MarksFailure_IgnoresOnError == After
MarksFailure == After /\ OnError

MarksBefore == ~After

\* The select arm that receives a message.  Both arms may be ready, so a
\* message can still be taken while the session is closing.
Claim(p) ==
  LET before == IF MarksBefore THEN MarkMessage(marked, p) ELSE marked
  IN
  /\ pc[p] = "select" /\ pos[p] < fetched[p]
  /\ \/ /\ <<p, pos[p]>> \notin Poison
        /\ pc' = [pc EXCEPT ![p] = "consume"]
        /\ marked' = before
        /\ UNCHANGED failed
     \/ /\ <<p, pos[p]>> \in Poison               \* Unmarshal fails
        /\ pc' = [pc EXCEPT ![p] = "return"]
        /\ marked' = IF MarksFailure THEN MarkMessage(before, p) ELSE before
        /\ failed' = [failed EXCEPT ![p] = @ \cup {pos[p]}]
  /\ UNCHANGED <<broker, committed, loop, stopped, session, pos, fetched,
                 paused, acked>>

\* The arm for a closed channel or a done session context.
ClaimDone(p) ==
  /\ pc[p] = "select" /\ session = "closing"
  /\ pc' = [pc EXCEPT ![p] = "return"]
  /\ UNCHANGED <<broker, committed, loop, stopped, session, pos, fetched,
                 marked, paused, history>>

\* WithMemoryLimiter: the first call of the next consumer ...
ConsumeOk(p) ==
  /\ pc[p] = "consume"
  /\ acked' = [acked EXCEPT ![p] = @ \cup {pos[p]}]
  /\ pc' = [pc EXCEPT ![p] = "ok"]
  /\ UNCHANGED <<broker, committed, loop, stopped, session, pos, fetched,
                 marked, paused, failed>>

ConsumeError(p) ==
  /\ pc[p] = "consume"
  /\ pc' = [pc EXCEPT ![p] = "err"]
  /\ UNCHANGED <<broker, committed, loop, stopped, session, pos, fetched,
                 marked, paused, history>>

\* ... refused for memory: PauseAll, and enter the retry loop.
ConsumeHighMemory(p) ==
  /\ pc[p] = "consume"
  /\ pc' = [pc EXCEPT ![p] = "retry"]
  /\ paused' = TRUE
  /\ UNCHANGED <<broker, committed, loop, stopped, session, pos, fetched,
                 marked, history>>

\* The ticker's arm: the message is accepted, or refused for good; ResumeAll.
\* (Refused for memory again, the loop goes round and nothing changes.)
RetryOk_NoResume(p) ==
  /\ pc[p] = "retry"
  /\ acked' = [acked EXCEPT ![p] = @ \cup {pos[p]}]
  /\ pc' = [pc EXCEPT ![p] = "ok"]
  /\ UNCHANGED <<broker, committed, loop, stopped, session, pos, fetched,
                 marked, paused, failed>>

RetryOk(p) ==
  /\ pc[p] = "retry"
  /\ acked' = [acked EXCEPT ![p] = @ \cup {pos[p]}]
  /\ pc' = [pc EXCEPT ![p] = "ok"]
  /\ paused' = FALSE
  /\ UNCHANGED <<broker, committed, loop, stopped, session, pos, fetched,
                 marked, failed>>

RetryError(p) ==
  /\ pc[p] = "retry"
  /\ pc' = [pc EXCEPT ![p] = "err"]
  /\ paused' = FALSE
  /\ UNCHANGED <<broker, committed, loop, stopped, session, pos, fetched,
                 marked, history>>

\* The ctx.Done arm: the session ended while the message was held back.
RetryDone_Never(p) == FALSE /\ UNCHANGED vars
RetryDone(p) ==
  /\ pc[p] = "retry" /\ session = "closing"
  /\ pc' = [pc EXCEPT ![p] = "err"]
  /\ UNCHANGED <<broker, committed, loop, stopped, session, pos, fetched,
                 marked, paused, history>>

\* After success: mark, and commit unless auto-commit does it.
Finish(p) ==
  /\ pc[p] = "ok"
  /\ marked' = IF After THEN MarkMessage(marked, p) ELSE marked
  /\ CommitIf(~AutoCommit, marked')
  /\ pos' = [pos EXCEPT ![p] = @ + 1]
  /\ pc' = [pc EXCEPT ![p] = "select"]
  /\ UNCHANGED <<broker, loop, stopped, session, fetched, paused, history>>

Fail(p) ==
  /\ pc[p] = "err"
  /\ marked' = IF MarksFailure THEN MarkMessage(marked, p) ELSE marked
  /\ failed' = [failed EXCEPT ![p] = @ \cup {pos[p]}]
  /\ pc' = [pc EXCEPT ![p] = "return"]
  /\ UNCHANGED <<broker, committed, loop, stopped, session, pos, fetched,
                 paused, acked>>

\* ConsumeClaim returns: the deferred Commit, and sarama cancels the session.
Return(p) ==
  /\ pc[p] = "return"
  /\ CommitIf(~AutoCommit, marked)
  /\ pc' = [pc EXCEPT ![p] = "off"]
  /\ session' = "closing"
  /\ UNCHANGED <<broker, loop, stopped, pos, fetched, marked, paused, history>>

-----------------------------------------------------------------------------
(* The receiver's life.                                                    *)

\* Shutdown cancels the loop's context and closes the consumer group.
Shutdown ==
  /\ ~stopped
  /\ stopped' = TRUE
  /\ session' = IF session = "open" THEN "closing" ELSE session
  /\ UNCHANGED <<broker, committed, loop, pc, pos, fetched, marked, paused,
                 history>>

LoopExit ==
  /\ loop = "run" /\ stopped /\ session = "none"
  /\ loop' = "exited"
  /\ UNCHANGED <<broker, committed, stopped, session, pc, pos, fetched, marked,
                 paused, history>>

\* The process dies anywhere, or has stopped, and starts again.
Restart ==
  /\ loop' = "run" /\ stopped' = FALSE /\ session' = "none" /\ paused' = FALSE
  /\ pc' = [p \in Partition |-> "off"]
  /\ UNCHANGED <<broker, committed, pos, fetched, marked, history>>

Handler(p) ==
  \/ Claim(p) \/ ClaimDone(p)
  \/ ConsumeOk(p) \/ ConsumeError(p) \/ ConsumeHighMemory(p)
  \/ RetryOk(p) \/ RetryError(p) \/ RetryDone(p)
  \/ Finish(p) \/ Fail(p) \/ Return(p)

Next ==
  \/ \E p \in Partition : Produce(p) \/ Fetch(p) \/ Handler(p)
  \/ StartSession \/ Rebalance \/ EndSession \/ AutoCommitTick
  \/ Shutdown \/ LoopExit \/ Restart

Spec == Init /\ [][Next]_vars

\* What the Go scheduler and sarama give: every goroutine that can run does,
\* the group is rejoined, a call of the next consumer returns.
Scheduling ==
  /\ WF_vars(StartSession) /\ WF_vars(EndSession) /\ WF_vars(LoopExit)
  /\ \A p \in Partition :
       /\ SF_vars(Fetch(p)) /\ SF_vars(Claim(p))
       /\ WF_vars(ClaimDone(p)) /\ WF_vars(RetryDone(p))
       /\ WF_vars(ConsumeOk(p) \/ ConsumeError(p) \/ ConsumeHighMemory(p))
       /\ WF_vars(Finish(p)) /\ WF_vars(Fail(p)) /\ WF_vars(Return(p))

\* What the pipeline gives: it does not refuse any one message for ever.
Accepting ==
  \A p \in Partition : \A o \in 0..(MaxOffset - 1) :
    /\ SF_vars(pos[p] = o /\ ConsumeOk(p))
    /\ SF_vars(pos[p] = o /\ RetryOk(p))

\* What the operator gives: the process is not restarted for ever.
Surviving == <>[][~Restart]_vars

FairSpec == Spec /\ Scheduling

-----------------------------------------------------------------------------
(* Properties.                                                             *)

\* Every variable stays in its type; in particular a mark is never negative
\* once set.
TypeOK ==
  /\ hw \in [Partition -> 0..MaxOffset]
  /\ committed \in [Partition -> Offset]
  /\ loop \in {"run", "exited"} /\ stopped \in BOOLEAN
  /\ session \in {"none", "open", "closing"}
  /\ pc \in [Partition -> {"off", "select", "consume", "retry", "ok", "err",
                           "return"}]
  /\ pos \in [Partition -> Nat] /\ fetched \in [Partition -> Nat]
  /\ marked \in [Partition -> Offset]
  /\ paused \in BOOLEAN
  /\ acked \in [Partition -> SUBSET Nat]
  /\ failed \in [Partition -> SUBSET Nat]
  /\ base \in [Partition -> Offset]

\* message_marking.after without on_error: every message below the committed
\* offset was accepted by the pipeline, whatever rebalances, refusals, failed
\* commits and crashes came between, so no restart can skip one.
AtLeastOnce ==
  After /\ ~OnError =>
    \A p \in Partition : (base[p] .. committed[p] - 1) \subseteq acked[p]

\* message_marking.after, with or without on_error: a committed message was
\* accepted, or its handling really ended in an error; no message is committed
\* merely because it was claimed.
CommittedWasHandled ==
  After => \A p \in Partition :
    (base[p] .. committed[p] - 1) \subseteq acked[p] \cup failed[p]

\* A message whose offset was already committed is never handed to the
\* pipeline again (marking after the pipeline's execution).
NoRedeliveryOfCommitted ==
  After => \A p \in Partition :
    pc[p] \in {"consume", "retry"} => committed[p] <= pos[p]

\* PauseAll is never left behind: while an open session is paused, some handler
\* is in the retry loop that ends in ResumeAll, even though the handlers of
\* all partitions pause and resume each other.
PausedHasRetrier ==
  paused /\ session = "open" => \E p \in Partition : pc[p] = "retry"

\* Shutdown ends the consume loop even if the pipeline refuses for ever.
ShutdownEndsLoop == stopped ~> (loop = "exited" \/ ~stopped)

\* Every message produced is eventually accepted, or the receiver has stopped:
\* if the pipeline refuses no message for ever and the restarts come to an end,
\* no pause or failed session makes the receiver wait for ever.
EventuallyAccepted ==
  Accepting /\ Surviving =>
    \A p \in Partition : \A o \in 0..(MaxOffset - 1) :
      (hw[p] > o) ~> (o \in acked[p] \/ stopped)

-----------------------------------------------------------------------------
(* The inductive invariant behind the safety properties.                   *)

\* What may lie below a committed offset: accepted messages, and with on_error
\* those whose handling failed.
Settled(p) == acked[p] \cup (IF OnError THEN failed[p] ELSE {})
SettledBelow(p, n) == (0 .. n - 1) \subseteq Settled(p)

\* A session that is over has no handler and pauses nothing.
SessionInv ==
  session = "none" => ~paused /\ \A p \in Partition : pc[p] = "off"

\* Reading starts at 0 and nothing is committed or marked before it does.
BaseInv ==
  \A p \in Partition :
    /\ base[p] \in {NoOffset, 0}
    /\ base[p] = NoOffset => /\ session = "none"
                             /\ committed[p] = NoOffset

\* Everything below the committed offset, the mark and the read position of a
\* running handler is settled.
SettledInv ==
  \A p \in Partition :
    /\ SettledBelow(p, committed[p]) /\ SettledBelow(p, marked[p])
    /\ pc[p] # "off" => SettledBelow(p, pos[p])
    /\ pc[p] = "ok" => pos[p] \in acked[p]

\* While a handler runs, committed <= mark <= position (one more once a failed
\* message has been marked).
OrderInv ==
  \A p \in Partition :
    pc[p] # "off" =>
      /\ committed[p] <= marked[p]
      /\ marked[p] <= pos[p] + (IF pc[p] = "return" THEN 1 ELSE 0)

SafetyInv == SessionInv /\ PausedHasRetrier /\ OrderInv /\ BaseInv /\ SettledInv
=============================================================================
