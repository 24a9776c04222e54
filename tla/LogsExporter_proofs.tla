------------------------- MODULE LogsExporter_proofs -------------------------
(***************************************************************************)
(* The safety of pushLogsData for any number of concurrent calls, records, *)
(* retries and slots of the limiter: the properties of LogsExporter hold   *)
(* whatever fails.                                                         *)
(*                                                                         *)
(* All actions but those of Shutdown change the variables of one call.     *)
(* CallInv says what these satisfy, as a predicate of their values, so     *)
(* that what a step does to a call is a lemma about values.                *)
(***************************************************************************)
EXTENDS LogsExporter, FiniteSetTheorems, TLAPS

\* A leaf goes to the SMT solver unless it cites another prover.
USE SMTT(30)

Labels == Returned \cup {"begin", "prepare", "loop", "wait", "resources", "send"}
WorkerState == {"none", "work", "send", "fail", "done"}
Fingerprints(p) == {Batch[p][r].res : r \in Record(p)}
Elems(s) == {s[i] : i \in 1 .. Len(s)}

CallType(p) ==
  [next : 1 .. Len(Batch[p]) + 1, worker : [Record(p) -> WorkerState], stream : Seq(Record(p)),
   closed : BOOLEAN, consumer : BOOLEAN, expired : BOOLEAN, cancelled : BOOLEAN,
   groupErr : BOOLEAN, appended : SUBSET Record(p), seen : SUBSET Fingerprints(p),
   resources : SUBSET Fingerprints(p), pending : SUBSET Table,
   sendErr : SUBSET {"error", "code 252"}]

Typed(p, l, c) ==
  /\ l \in Labels /\ c \in CallType(p)
  /\ Len(c.stream) <= Limit /\ c.resources \subseteq c.seen

\* Where goroutines can be: workers run while the call is in its loop or waits for them,
\* and nobody streams once the stream is closed.
Goroutines(p, l, c) ==
  /\ l \notin {"loop", "wait"} => \A r \in Record(p) : c.worker[r] \in {"none", "done"}
  /\ l \in {"begin", "prepare", "loop"} =>
       ~c.closed /\ \A r \in Record(p) : r >= c.next => c.worker[r] = "none"
  /\ c.closed => \A r \in Record(p) : c.worker[r] \notin {"work", "send"}

\* What is on its way: while nobody has failed and the context lasts, a record that the
\* loop has passed is with its worker, was skipped, or is in the stream or in the batch.
Flow(p, l, c) ==
  /\ (c.cancelled <=> c.expired \/ c.groupErr)
  /\ \A r \in Record(p) : c.worker[r] = "send" => r \in Eligible(p)
  /\ Elems(c.stream) \subseteq Eligible(p) /\ c.appended \subseteq Eligible(p)
  /\ l \in {"begin", "prepare", "loop", "wait"} /\ ~c.cancelled =>
       /\ \A r \in Record(p) : c.worker[r] = "none" => r >= c.next
       /\ \A r \in Record(p) : c.worker[r] = "done" /\ r \in Eligible(p)
                                 => r \in c.appended \cup Elems(c.stream)
       /\ ~c.consumer => c.closed /\ c.stream = << >>
       /\ l = "wait" => c.next \notin Record(p)

\* Past the group the batch is complete, unless the context has expired, which the
\* preparation of the resources notices.
Complete(p, l, c, st) ==
  /\ l = "resources" => c.expired \/ Eligible(p) \subseteq c.appended
  /\ l = "send" => /\ Eligible(p) \subseteq c.appended
                   /\ "logs" \in c.pending \/ c.sendErr # {} \/ c.appended \subseteq st
  /\ l # "send" => c.pending = {}

Outcome(p, l, st, dr, me) ==
  /\ st \in SUBSET Record(p) /\ dr \in BOOLEAN
  /\ dr => l = "ok"
  /\ me = IF l = "ok" /\ ~dr THEN Cardinality(Eligible(p)) ELSE 0
  /\ l = "ok" /\ ~dr => Eligible(p) \subseteq st

CallInv(p, l, c, st) ==
  Typed(p, l, c) /\ Goroutines(p, l, c) /\ Flow(p, l, c) /\ Complete(p, l, c, st)

Held == UNION {{p} \X Streaming(p) : p \in Push}

OnPush(f) == f = [p \in Push |-> f[p]]

\* The inductive invariant.
LogsIInv ==
  /\ OnPush(pc) /\ OnPush(attempts) /\ OnPush(call)
  /\ OnPush(stored) /\ OnPush(dropped) /\ OnPush(metered)
  /\ \A p \in Push : attempts[p] \in Nat /\ attempts[p] <= MaxAttempts[p]
  /\ \A p \in Push : CallInv(p, pc[p], call[p], stored[p])
  /\ \A p \in Push : Outcome(p, pc[p], stored[p], dropped[p], metered[p])
  /\ IsFiniteSet(Held) /\ limiter = Cardinality(Held) /\ limiter <= Limit
  /\ closing \in BOOLEAN /\ db \in BOOLEAN /\ (~db => closing) /\ DbOpenWhileUsed
  /\ CachedResourceStored

-----------------------------------------------------------------------------
(* Sequences and sets *)

LEMMA ElemsAppend ==
  \A S : \A s \in Seq(S), e \in S :
    /\ Append(s, e) \in Seq(S) /\ Len(Append(s, e)) = Len(s) + 1
    /\ Elems(Append(s, e)) = Elems(s) \cup {e}
BY DEF Elems

LEMMA ElemsTail ==
  \A S : \A s \in Seq(S) :
    s # << >>
      => /\ Tail(s) \in Seq(S) /\ Len(Tail(s)) = Len(s) - 1 /\ Head(s) \in S
         /\ Elems(s) = Elems(Tail(s)) \cup {Head(s)}
<1> SUFFICES ASSUME NEW S, NEW s \in Seq(S), s # << >>
             PROVE  /\ Tail(s) \in Seq(S) /\ Len(Tail(s)) = Len(s) - 1 /\ Head(s) \in S
                    /\ Elems(s) = Elems(Tail(s)) \cup {Head(s)}
  BY Zenon
<1>1. /\ Len(s) \in Nat \ {0} /\ Tail(s) \in Seq(S) /\ Len(Tail(s)) = Len(s) - 1
      /\ Head(s) = s[1] /\ Head(s) \in S
      /\ \A i \in 1 .. Len(s) - 1 : Tail(s)[i] = s[i + 1]
  OBVIOUS
<1>2. Elems(s) \subseteq Elems(Tail(s)) \cup {Head(s)}
  <2> SUFFICES ASSUME NEW i \in 1 .. Len(s) PROVE s[i] \in Elems(Tail(s)) \cup {Head(s)}
    BY Zenon DEF Elems
  <2>1. CASE i = 1
    BY <1>1, <2>1, Zenon
  <2>2. CASE i # 1
    <3>1. i - 1 \in 1 .. Len(s) - 1 /\ s[i] = Tail(s)[i - 1]
      BY <1>1, <2>2
    <3> QED BY <1>1, <3>1, Zenon DEF Elems
  <2> QED BY <2>1, <2>2, Zenon
<1>3. Elems(Tail(s)) \cup {Head(s)} \subseteq Elems(s)
  BY <1>1 DEF Elems
<1> QED BY <1>1, <1>2, <1>3, Zenon

LEMMA ElemsEmpty == Elems(<< >>) = {}
BY DEF Elems

LEMMA EligibleFinite ==
  \A p \in Push :
    IsFiniteSet(Eligible(p)) /\ Cardinality(Eligible(p)) \in Nat
<1> SUFFICES ASSUME NEW p \in Push
             PROVE  IsFiniteSet(Eligible(p)) /\ Cardinality(Eligible(p)) \in Nat
  BY Zenon
<1>1. IsFiniteSet(Record(p))
  BY LogsAssumption, FS_Interval DEF Record
<1> QED BY <1>1, FS_Subset, FS_CardinalityType, Zenon DEF Eligible

-----------------------------------------------------------------------------
(* What a step does to the variables of a call *)

LEMMA NewCallInv ==
  \A p \in Push, l \in {"idle", "begin"} : \A st :
    CallInv(p, l, NewCall(p), st)
<1> SUFFICES ASSUME NEW p \in Push, NEW l \in {"idle", "begin"}, NEW st
             PROVE  CallInv(p, l, NewCall(p), st)
  BY Zenon
<1>1. Typed(p, l, NewCall(p))
  BY LogsAssumption DEF Typed, Labels, Returned, CallType, NewCall, WorkerState, Record
<1>2. Goroutines(p, l, NewCall(p))
  BY Zenon DEF Goroutines, NewCall
<1>3. Flow(p, l, NewCall(p))
  BY LogsAssumption, ElemsEmpty DEF Flow, NewCall, Record
<1>4. Complete(p, l, NewCall(p), st)
  BY Zenon DEF Complete, NewCall
<1> QED BY <1>1, <1>2, <1>3, <1>4, Zenon DEF CallInv

\* The variables of a call that has returned.
Gone(p, w) == [NewCall(p) EXCEPT !.worker = w, !.closed = TRUE]

LEMMA GoneInv ==
  \A p \in Push, l \in {"ok", "err"} : \A st : \A w \in [Record(p) -> {"none", "done"}] :
    CallInv(p, l, Gone(p, w), st)
<1> SUFFICES ASSUME NEW p \in Push, NEW l \in {"ok", "err"}, NEW st, NEW w \in [Record(p) -> {"none", "done"}]
             PROVE  CallInv(p, l, Gone(p, w), st)
  BY Zenon
<1>1. Typed(p, l, Gone(p, w))
  <2>1. w \in [Record(p) -> WorkerState]
    BY Zenon DEF WorkerState
  <2>2. NewCall(p) \in CallType(p) /\ Typed(p, "idle", NewCall(p))
    BY NewCallInv, Zenon DEF CallInv, Typed
  <2>3. Gone(p, w) \in CallType(p)
    BY <2>1, <2>2, Zenon DEF Gone, CallType
  <2> QED BY <2>2, <2>3, Zenon DEF Typed, Labels, Returned, NewCall, Gone
<1>2. Goroutines(p, l, Gone(p, w))
  BY Zenon DEF Goroutines, NewCall, Gone
<1>3. Flow(p, l, Gone(p, w))
  BY ElemsEmpty, Zenon DEF Flow, NewCall, Gone
<1>4. Complete(p, l, Gone(p, w), st)
  BY Zenon DEF Complete, NewCall, Gone
<1> QED BY <1>1, <1>2, <1>3, <1>4, Zenon DEF CallInv

LEMMA ExpiredInv ==
  \A p \in Push : \A l, st, c :
    CallInv(p, l, c, st) => CallInv(p, l, [c EXCEPT !.expired = TRUE, !.cancelled = TRUE], st)
<1> SUFFICES ASSUME NEW p \in Push, NEW l, NEW st, NEW c, CallInv(p, l, c, st)
             PROVE  CallInv(p, l, [c EXCEPT !.expired = TRUE, !.cancelled = TRUE], st)
  BY Zenon
<1> DEFINE d == [c EXCEPT !.expired = TRUE, !.cancelled = TRUE]
<1>1. Typed(p, l, d)
  BY Zenon DEF CallInv, Typed, CallType
<1>2. Goroutines(p, l, d)
  BY Zenon DEF CallInv, Typed, CallType, Goroutines
<1>3. Flow(p, l, d)
  BY Zenon DEF CallInv, Typed, CallType, Flow
<1>4. Complete(p, l, d, st)
  BY Zenon DEF CallInv, Typed, CallType, Complete
<1> QED BY <1>1, <1>2, <1>3, <1>4, Zenon DEF CallInv

\* The call goes on with its variables as they are.
LEMMA MovesOn ==
  \A p \in Push : \A l, m, st, c :
    /\ CallInv(p, l, c, st)
    /\ \/ l = "begin" /\ m = "prepare"
       \/ l = "prepare" /\ m = "loop"
       \/ l = "loop" /\ m = "wait" /\ (c.next \notin Record(p) \/ c.cancelled)
       \/ /\ l = "wait" /\ m = "resources" /\ ~c.consumer /\ ~c.groupErr
          /\ \A r \in Record(p) : c.worker[r] \in {"none", "done"}
    => CallInv(p, m, c, st)
<1> SUFFICES ASSUME NEW p \in Push, NEW l, NEW m, NEW st, NEW c, CallInv(p, l, c, st),
                    \/ l = "begin" /\ m = "prepare"
                    \/ l = "prepare" /\ m = "loop"
                    \/ l = "loop" /\ m = "wait" /\ (c.next \notin Record(p) \/ c.cancelled)
                    \/ /\ l = "wait" /\ m = "resources" /\ ~c.consumer /\ ~c.groupErr
                       /\ \A r \in Record(p) : c.worker[r] \in {"none", "done"}
             PROVE  CallInv(p, m, c, st)
  OBVIOUS
<1>1. Typed(p, m, c)
  BY Zenon DEF CallInv, Typed, Labels
<1>2. Goroutines(p, m, c)
  BY Zenon DEF CallInv, Goroutines
<1>3. Flow(p, m, c)
  BY Zenon DEF CallInv, Flow
<1>4. Complete(p, m, c, st)
  <2>1. CASE m # "resources"
    BY <2>1, Zenon DEF CallInv, Complete
  <2>2. CASE m = "resources" /\ ~c.expired
    <3>1. ~c.cancelled /\ l = "wait"
      BY <2>2, Zenon DEF CallInv, Flow
    <3>2. c.stream = << >> /\ c.next \in 1 .. Len(Batch[p]) + 1 /\ c.next \notin Record(p)
      BY <2>2, <3>1, Zenon DEF CallInv, Flow, Typed, CallType
    <3>3. \A r \in Record(p) : c.worker[r] = "done"
      BY <2>2, <3>1, <3>2, LogsAssumption DEF CallInv, Flow, Record
    <3>4. Eligible(p) \subseteq c.appended
      BY <3>1, <3>2, <3>3, ElemsEmpty, Zenon DEF CallInv, Flow, Eligible
    <3> QED BY <2>2, <3>1, <3>4, Zenon DEF CallInv, Complete
  <2>3. CASE m = "resources" /\ c.expired
    BY <2>3, Zenon DEF CallInv, Complete
  <2> QED BY <2>1, <2>2, <2>3, Zenon
<1> QED BY <1>1, <1>2, <1>3, <1>4, Zenon DEF CallInv

\* Spawn: the worker of the record the loop is at.
LEMMA SpawnInv ==
  \A p \in Push : \A st, c :
    CallInv(p, "loop", c, st) /\ c.next \in Record(p)
      => CallInv(p, "loop", [c EXCEPT !.worker[c.next] = "work", !.next = @ + 1], st)
<1> SUFFICES ASSUME NEW p \in Push, NEW st, NEW c, CallInv(p, "loop", c, st), c.next \in Record(p)
             PROVE  CallInv(p, "loop", [c EXCEPT !.worker[c.next] = "work", !.next = @ + 1], st)
  BY Zenon
<1> DEFINE d == [c EXCEPT !.worker[c.next] = "work", !.next = @ + 1]
<1>0. c \in CallType(p)
  BY Zenon DEF CallInv, Typed
<1>n. /\ c.next \in 1 .. Len(Batch[p]) + 1 /\ c.next + 1 \in 1 .. Len(Batch[p]) + 1
      /\ \A r \in Record(p) : r >= c.next + 1 <=> r >= c.next /\ r # c.next
  <2>1. Len(Batch[p]) \in Nat /\ c.next \in 1 .. Len(Batch[p]) /\ Record(p) = 1 .. Len(Batch[p])
    BY LogsAssumption, Zenon DEF Record
  <2> QED BY <2>1
<1>d. /\ d.next = c.next + 1
      /\ \A r \in Record(p) : d.worker[r] = IF r = c.next THEN "work" ELSE c.worker[r]
      /\ \A f \in {"stream", "cancelled", "expired", "groupErr", "appended", "consumer", "closed"} : d[f] = c[f]
  BY <1>0, Zenon DEF CallType
<1>1. Typed(p, "loop", d)
  <2>1. d \in CallType(p)
    BY <1>0, <1>n, Zenon DEF CallType, WorkerState
  <2> QED BY <1>0, <2>1, Zenon DEF CallInv, Typed, CallType
<1>2. Goroutines(p, "loop", d)
  <2> HIDE DEF d
  <2> QED BY <1>n, <1>d, Zenon DEF CallInv, Goroutines
<1>3. Flow(p, "loop", d)
  <2> HIDE DEF d
  <2> QED BY <1>n, <1>d, Zenon DEF CallInv, Flow
<1>4. Complete(p, "loop", d, st)
  BY <1>0, Zenon DEF CallInv, CallType, Complete
<1> QED BY <1>1, <1>2, <1>3, <1>4, Zenon DEF CallInv

\* A worker of a call runs only in its loop, or while the call waits for it.
LEMMA WorkerRuns ==
  \A p \in Push : \A l, st, c : \A r \in Record(p) :
    CallInv(p, l, c, st) /\ c.worker[r] \in {"work", "send", "fail"} => l \in {"loop", "wait"}
BY DEF CallInv, Goroutines

\* Work: the record is skipped, refused or ready.
LEMMA WorkInv ==
  ASSUME NEW p \in Push, NEW l, NEW st, NEW c, CallInv(p, l, c, st), NEW r \in Record(p),
         c.worker[r] = "work", NEW s \in WorkerState, NEW seen \in SUBSET Fingerprints(p),
         c.seen \subseteq seen,
         \/ s \in {"done", "fail"} /\ r \notin Eligible(p)
         \/ s = "send" /\ r \in Eligible(p)
  PROVE  CallInv(p, l, [c EXCEPT !.worker[r] = s, !.seen = seen], st)
<1> DEFINE d == [c EXCEPT !.worker[r] = s, !.seen = seen]
<1>0. c \in CallType(p) /\ l \in {"loop", "wait"}
  BY WorkerRuns, Zenon DEF CallInv, Typed
<1>1. Typed(p, l, d)
  <2>1. d \in CallType(p)
    BY <1>0, Zenon DEF CallType
  <2> QED BY <1>0, <2>1, Zenon DEF CallInv, Typed, CallType
<1>2. Goroutines(p, l, d)
  BY <1>0, Zenon DEF CallInv, CallType, Goroutines
<1>3. Flow(p, l, d)
  BY <1>0, Zenon DEF CallInv, CallType, Flow
<1>4. Complete(p, l, d, st)
  BY <1>0, Zenon DEF CallInv, CallType, Complete
<1> QED BY <1>1, <1>2, <1>3, <1>4, Zenon DEF CallInv

LEMMA WorkerFailsInv ==
  \A p \in Push : \A l, st, c : \A r \in Record(p) :
    CallInv(p, l, c, st) /\ c.worker[r] = "fail"
      => CallInv(p, l, [c EXCEPT !.worker[r] = "done", !.groupErr = TRUE, !.cancelled = TRUE], st)
<1> SUFFICES ASSUME NEW p \in Push, NEW l, NEW st, NEW c, CallInv(p, l, c, st), NEW r \in Record(p),
                    c.worker[r] = "fail"
             PROVE  CallInv(p, l, [c EXCEPT !.worker[r] = "done", !.groupErr = TRUE, !.cancelled = TRUE], st)
  BY Zenon
<1> DEFINE d == [c EXCEPT !.worker[r] = "done", !.groupErr = TRUE, !.cancelled = TRUE]
<1>0. c \in CallType(p) /\ l \in {"loop", "wait"}
  BY WorkerRuns, Zenon DEF CallInv, Typed
<1>1. Typed(p, l, d)
  <2>1. d \in CallType(p)
    BY <1>0, Zenon DEF CallType, WorkerState
  <2> QED BY <1>0, <2>1, Zenon DEF CallInv, Typed, CallType
<1>2. Goroutines(p, l, d)
  BY <1>0, Zenon DEF CallInv, CallType, Goroutines
<1>3. Flow(p, l, d)
  BY <1>0, Zenon DEF CallInv, CallType, Flow
<1>4. Complete(p, l, d, st)
  BY <1>0, Zenon DEF CallInv, CallType, Complete
<1> QED BY <1>1, <1>2, <1>3, <1>4, Zenon DEF CallInv

LEMMA StreamInv ==
  \A p \in Push : \A l, st, c : \A r \in Record(p) :
    CallInv(p, l, c, st) /\ c.worker[r] = "send" /\ Len(c.stream) < Limit
      => CallInv(p, l, [c EXCEPT !.stream = Append(@, r), !.worker[r] = "done"], st)
<1> SUFFICES ASSUME NEW p \in Push, NEW l, NEW st, NEW c, CallInv(p, l, c, st), NEW r \in Record(p),
                    c.worker[r] = "send", Len(c.stream) < Limit
             PROVE  CallInv(p, l, [c EXCEPT !.stream = Append(@, r), !.worker[r] = "done"], st)
  BY Zenon
<1> DEFINE d == [c EXCEPT !.stream = Append(@, r), !.worker[r] = "done"]
<1>0. c \in CallType(p) /\ l \in {"loop", "wait"}
  BY WorkerRuns, Zenon DEF CallInv, Typed
<1>a. c.stream \in Seq(Record(p)) /\ d.stream = Append(c.stream, r)
  BY <1>0, Zenon DEF CallType
<1>s. /\ d.stream \in Seq(Record(p)) /\ Len(d.stream) = Len(c.stream) + 1
      /\ Elems(d.stream) = Elems(c.stream) \cup {r}
  <2> HIDE DEF d
  <2> QED BY <1>a, ElemsAppend
<1>1. Typed(p, l, d)
  <2>1. d \in CallType(p)
    BY <1>0, <1>s, Zenon DEF CallType, WorkerState
  <2>2. Len(d.stream) <= Limit
    <3> HIDE DEF d
    <3> QED BY <1>a, <1>s, LogsAssumption
  <2> QED BY <1>0, <2>1, <2>2, Zenon DEF CallInv, Typed, CallType
<1>2. Goroutines(p, l, d)
  BY <1>0, Zenon DEF CallInv, CallType, Goroutines
<1>3. Flow(p, l, d)
  <2>1. \A x \in Record(p) : d.worker[x] = IF x = r THEN "done" ELSE c.worker[x]
    BY <1>0, Zenon DEF CallType
  <2>2. c.closed => c.worker[r] # "send"
    BY Zenon DEF CallInv, Goroutines
  <2>3. \A f \in {"cancelled", "expired", "groupErr", "appended", "next", "consumer", "closed"} : d[f] = c[f]
    BY <1>0, Zenon DEF CallType
  <2> HIDE DEF d
  <2> QED BY <1>s, <2>1, <2>2, <2>3, Zenon DEF CallInv, Flow
<1>4. Complete(p, l, d, st)
  BY <1>0, Zenon DEF CallInv, CallType, Complete
<1> QED BY <1>1, <1>2, <1>3, <1>4, Zenon DEF CallInv

LEMMA CloseInv ==
  \A p \in Push : \A st, c :
    CallInv(p, "wait", c, st) /\ (\A r \in Record(p) : c.worker[r] \notin {"work", "send"})
      => CallInv(p, "wait", [c EXCEPT !.closed = TRUE], st)
<1> SUFFICES ASSUME NEW p \in Push, NEW st, NEW c, CallInv(p, "wait", c, st),
                    \A r \in Record(p) : c.worker[r] \notin {"work", "send"}
             PROVE  CallInv(p, "wait", [c EXCEPT !.closed = TRUE], st)
  BY Zenon
<1> DEFINE d == [c EXCEPT !.closed = TRUE]
<1>0. c \in CallType(p)
  BY Zenon DEF CallInv, Typed
<1>1. Typed(p, "wait", d)
  BY Zenon DEF CallInv, Typed, CallType
<1>2. Goroutines(p, "wait", d)
  BY <1>0, Zenon DEF CallInv, CallType, Goroutines
<1>3. Flow(p, "wait", d)
  BY <1>0, Zenon DEF CallInv, CallType, Flow
<1>4. Complete(p, "wait", d, st)
  BY <1>0, Zenon DEF CallInv, CallType, Complete
<1> QED BY <1>1, <1>2, <1>3, <1>4, Zenon DEF CallInv

\* Consume: the record is appended, or the consumer ends with an error.
LEMMA ConsumeInv ==
  \A p \in Push, l \in {"loop", "wait"} : \A st, c :
    CallInv(p, l, c, st) /\ c.stream # << >>
      => /\ CallInv(p, l, [c EXCEPT !.stream = Tail(@), !.appended = @ \cup {Head(c.stream)}], st)
         /\ CallInv(p, l, [c EXCEPT !.stream = Tail(@), !.consumer = FALSE,
                                    !.groupErr = TRUE, !.cancelled = TRUE], st)
<1> SUFFICES ASSUME NEW p \in Push, NEW l \in {"loop", "wait"}, NEW st, NEW c, CallInv(p, l, c, st),
                    c.stream # << >>
             PROVE  /\ CallInv(p, l, [c EXCEPT !.stream = Tail(@), !.appended = @ \cup {Head(c.stream)}], st)
                    /\ CallInv(p, l, [c EXCEPT !.stream = Tail(@), !.consumer = FALSE,
                                               !.groupErr = TRUE, !.cancelled = TRUE], st)
  BY Zenon
<1>0. c \in CallType(p) /\ c.stream \in Seq(Record(p))
  BY Zenon DEF CallInv, Typed, CallType
<1>l. Len(c.stream) \in Nat
  BY <1>0
<1>t. /\ Tail(c.stream) \in Seq(Record(p)) /\ Len(Tail(c.stream)) <= Limit
      /\ Head(c.stream) \in Record(p)
      /\ Elems(c.stream) = Elems(Tail(c.stream)) \cup {Head(c.stream)}
  BY <1>0, <1>l, ElemsTail, LogsAssumption DEF CallInv, Typed
<1>1. ASSUME NEW d, d = [c EXCEPT !.stream = Tail(@), !.appended = @ \cup {Head(c.stream)}]
      PROVE  CallInv(p, l, d, st)
  <2>0. /\ d \in CallType(p) /\ d.stream = Tail(c.stream) /\ d.appended = c.appended \cup {Head(c.stream)}
        /\ \A f \in {"worker", "cancelled", "expired", "groupErr", "next", "consumer", "closed", "resources",
                     "seen", "pending"} : d[f] = c[f]
    BY <1>0, <1>1, <1>t, Zenon DEF CallType
  <2>1. Typed(p, l, d)
    BY <1>t, <2>0, Zenon DEF CallInv, Typed
  <2>2. Goroutines(p, l, d)
    BY <2>0, Zenon DEF CallInv, Goroutines
  <2>3. Flow(p, l, d)
    BY <1>t, <2>0, Zenon DEF CallInv, Flow
  <2>4. Complete(p, l, d, st)
    BY <2>0, Zenon DEF CallInv, Complete
  <2> QED BY <2>1, <2>2, <2>3, <2>4, Zenon DEF CallInv
<1>2. ASSUME NEW d, d = [c EXCEPT !.stream = Tail(@), !.consumer = FALSE, !.groupErr = TRUE, !.cancelled = TRUE]
      PROVE  CallInv(p, l, d, st)
  <2>0. /\ d \in CallType(p) /\ d.stream = Tail(c.stream) /\ d.cancelled = TRUE /\ d.groupErr = TRUE
        /\ \A f \in {"worker", "appended", "expired", "next", "closed", "resources", "seen", "pending"} : d[f] = c[f]
    BY <1>0, <1>2, <1>t, Zenon DEF CallType
  <2>1. Typed(p, l, d)
    BY <1>t, <2>0, Zenon DEF CallInv, Typed
  <2>2. Goroutines(p, l, d)
    BY <2>0, Zenon DEF CallInv, Goroutines
  <2>3. Flow(p, l, d)
    BY <1>t, <2>0, Zenon DEF CallInv, Flow
  <2>4. Complete(p, l, d, st)
    BY <2>0, Zenon DEF CallInv, Complete
  <2> QED BY <2>1, <2>2, <2>3, <2>4, Zenon DEF CallInv
<1> QED BY <1>1, <1>2, Zenon

LEMMA ConsumerEndsInv ==
  \A p \in Push, l \in {"loop", "wait"} : \A st, c :
    CallInv(p, l, c, st) /\ (c.cancelled \/ (c.closed /\ c.stream = << >>))
      => CallInv(p, l, [c EXCEPT !.consumer = FALSE], st)
<1> SUFFICES ASSUME NEW p \in Push, NEW l \in {"loop", "wait"}, NEW st, NEW c, CallInv(p, l, c, st),
                    c.cancelled \/ (c.closed /\ c.stream = << >>)
             PROVE  CallInv(p, l, [c EXCEPT !.consumer = FALSE], st)
  BY Zenon
<1> DEFINE d == [c EXCEPT !.consumer = FALSE]
<1>0. c \in CallType(p)
  BY Zenon DEF CallInv, Typed
<1>1. Typed(p, l, d)
  BY Zenon DEF CallInv, Typed, CallType
<1>2. Goroutines(p, l, d)
  BY <1>0, Zenon DEF CallInv, CallType, Goroutines
<1>3. Flow(p, l, d)
  BY <1>0, Zenon DEF CallInv, CallType, Flow
<1>4. Complete(p, l, d, st)
  BY <1>0, Zenon DEF CallInv, CallType, Complete
<1> QED BY <1>1, <1>2, <1>3, <1>4, Zenon DEF CallInv

\* Resources: the batch of fingerprints is filled.
LEMMA ResourcesInv ==
  \A p \in Push : \A st, c, new :
    CallInv(p, "resources", c, st) /\ ~c.expired /\ new \subseteq c.seen
      => CallInv(p, "send", [c EXCEPT !.resources = new, !.pending = Table], st)
<1> SUFFICES ASSUME NEW p \in Push, NEW st, NEW c, CallInv(p, "resources", c, st), ~c.expired,
                    NEW new, new \subseteq c.seen
             PROVE  CallInv(p, "send", [c EXCEPT !.resources = new, !.pending = Table], st)
  BY Zenon
<1> DEFINE d == [c EXCEPT !.resources = new, !.pending = Table]
<1>0. c \in CallType(p)
  BY Zenon DEF CallInv, Typed
<1>1. Typed(p, "send", d)
  BY Zenon DEF CallInv, Typed, CallType, Labels
<1>2. Goroutines(p, "send", d)
  BY <1>0, Zenon DEF CallInv, CallType, Goroutines
<1>3. Flow(p, "send", d)
  BY <1>0, Zenon DEF CallInv, CallType, Flow
<1>4. Complete(p, "send", d, st)
  BY <1>0, Zenon DEF CallInv, CallType, Complete, Table
<1> QED BY <1>1, <1>2, <1>3, <1>4, Zenon DEF CallInv

\* Send: a table is written, or its error is kept.
LEMMA SendInv ==
  \A p \in Push : \A st, c : \A t \in Table, e \in {"error", "code 252"} :
    CallInv(p, "send", c, st)
      => /\ CallInv(p, "send", [c EXCEPT !.pending = @ \ {t}], IF t = "logs" THEN st \cup c.appended ELSE st)
         /\ CallInv(p, "send", [c EXCEPT !.pending = @ \ {t}, !.sendErr = @ \cup {e}], st)
<1> SUFFICES ASSUME NEW p \in Push, NEW st, NEW c, CallInv(p, "send", c, st), NEW t \in Table,
                    NEW e \in {"error", "code 252"}
             PROVE  /\ CallInv(p, "send", [c EXCEPT !.pending = @ \ {t}], IF t = "logs" THEN st \cup c.appended ELSE st)
                    /\ CallInv(p, "send", [c EXCEPT !.pending = @ \ {t}, !.sendErr = @ \cup {e}], st)
  BY Zenon
<1>0. c \in CallType(p)
  BY Zenon DEF CallInv, Typed
<1>1. ASSUME NEW d, d = [c EXCEPT !.pending = @ \ {t}], NEW st2,
             st2 = IF t = "logs" THEN st \cup c.appended ELSE st
      PROVE  CallInv(p, "send", d, st2)
  <2>1. Typed(p, "send", d)
    BY <1>1, Zenon DEF CallInv, Typed, CallType
  <2>2. Goroutines(p, "send", d)
    BY <1>0, <1>1, Zenon DEF CallInv, CallType, Goroutines
  <2>3. Flow(p, "send", d)
    BY <1>0, <1>1, Zenon DEF CallInv, CallType, Flow
  <2>4. Complete(p, "send", d, st2)
    BY <1>0, <1>1, Zenon DEF CallInv, CallType, Complete
  <2> QED BY <2>1, <2>2, <2>3, <2>4, Zenon DEF CallInv
<1>2. ASSUME NEW d, d = [c EXCEPT !.pending = @ \ {t}, !.sendErr = @ \cup {e}]
      PROVE  CallInv(p, "send", d, st)
  <2>1. Typed(p, "send", d)
    BY <1>2, Zenon DEF CallInv, Typed, CallType
  <2>2. Goroutines(p, "send", d)
    BY <1>0, <1>2, Zenon DEF CallInv, CallType, Goroutines
  <2>3. Flow(p, "send", d)
    BY <1>0, <1>2, Zenon DEF CallInv, CallType, Flow
  <2>4. Complete(p, "send", d, st)
    BY <1>0, <1>2, Zenon DEF CallInv, CallType, Complete
  <2> QED BY <2>1, <2>2, <2>3, <2>4, Zenon DEF CallInv
<1> QED BY <1>1, <1>2, Zenon

-----------------------------------------------------------------------------
(* Steps *)

\* A step takes a slot for one worker of p, gives one back, or leaves them.
SlotStep(p) ==
  \/ Streaming(p)' = Streaming(p) /\ limiter' = limiter
  \/ \E r \in Record(p) : /\ r \notin Streaming(p) /\ Streaming(p)' = Streaming(p) \cup {r}
                          /\ limiter' = limiter + 1 /\ limiter < Limit
  \/ \E r \in Streaming(p) : Streaming(p)' = Streaming(p) \ {r} /\ limiter' = limiter - 1

LEMMA SlotsStay ==
  \A p \in Push :
    /\ IsFiniteSet(Held) /\ limiter = Cardinality(Held) /\ limiter <= Limit
    /\ \A q \in Push : q # p => Streaming(q)' = Streaming(q)
    /\ SlotStep(p)
    => IsFiniteSet(Held') /\ limiter' = Cardinality(Held') /\ limiter' <= Limit
<1> SUFFICES ASSUME IsFiniteSet(Held), limiter = Cardinality(Held), limiter <= Limit, NEW p \in Push,
                    \A q \in Push : q # p => Streaming(q)' = Streaming(q), SlotStep(p)
             PROVE  IsFiniteSet(Held') /\ limiter' = Cardinality(Held') /\ limiter' <= Limit
  BY Zenon
<1>0. Cardinality(Held) \in Nat
  BY FS_CardinalityType, Zenon
<1>1. CASE Streaming(p)' = Streaming(p) /\ limiter' = limiter
  <2>1. Held' = Held
    BY <1>1, Zenon DEF Held
  <2> QED BY <1>1, <2>1, Zenon
<1>2. ASSUME NEW r \in Record(p), r \notin Streaming(p), Streaming(p)' = Streaming(p) \cup {r},
             limiter' = limiter + 1, limiter < Limit
      PROVE  IsFiniteSet(Held') /\ limiter' = Cardinality(Held') /\ limiter' <= Limit
  <2>1. Held' = Held \cup {<<p, r>>} /\ <<p, r>> \notin Held
    BY <1>2 DEF Held
  <2>2. IsFiniteSet(Held') /\ Cardinality(Held') = Cardinality(Held) + 1
    BY <2>1, FS_AddElement, Zenon
  <2> QED BY <1>0, <1>2, <2>2, LogsAssumption
<1>3. ASSUME NEW r \in Streaming(p), Streaming(p)' = Streaming(p) \ {r}, limiter' = limiter - 1
      PROVE  IsFiniteSet(Held') /\ limiter' = Cardinality(Held') /\ limiter' <= Limit
  <2>1. Held' = Held \ {<<p, r>>} /\ <<p, r>> \in Held
    BY <1>3 DEF Held
  <2>2. IsFiniteSet(Held') /\ Cardinality(Held') = Cardinality(Held) - 1
    BY <2>1, FS_RemoveElement, Zenon
  <2> QED BY <1>0, <1>3, <2>2, LogsAssumption
<1> QED BY <1>1, <1>2, <1>3, Zenon DEF SlotStep

LEMMA CachedStay ==
  \A p \in Push :
    /\ CachedResourceStored
    /\ \A q \in Push : q # p => call'[q] = call[q]
    /\ storedRes \subseteq storedRes' /\ resLost \subseteq resLost'
    /\ "resources" \in call[p].pending =>
         \/ "resources" \in call'[p].pending /\ call'[p].resources = call[p].resources
         \/ call[p].resources \subseteq storedRes' \cup resLost'
    /\ \A f \in rfCache' \ rfCache :
         \/ f \in storedRes' \cup resLost'
         \/ "resources" \in call'[p].pending /\ f \in call'[p].resources
    => CachedResourceStored'
<1> SUFFICES ASSUME CachedResourceStored, NEW p \in Push, \A q \in Push : q # p => call'[q] = call[q],
                    storedRes \subseteq storedRes', resLost \subseteq resLost',
                    "resources" \in call[p].pending =>
                      \/ "resources" \in call'[p].pending /\ call'[p].resources = call[p].resources
                      \/ call[p].resources \subseteq storedRes' \cup resLost',
                    \A f \in rfCache' \ rfCache :
                      \/ f \in storedRes' \cup resLost'
                      \/ "resources" \in call'[p].pending /\ f \in call'[p].resources
             PROVE  CachedResourceStored'
  BY Zenon
<1> SUFFICES ASSUME NEW f \in rfCache', f \notin storedRes' \cup resLost'
             PROVE  \E q \in Push : "resources" \in call'[q].pending /\ f \in call'[q].resources
  BY Zenon DEF CachedResourceStored
<1>1. CASE f \notin rfCache
  BY <1>1, Zenon
<1>2. CASE f \in rfCache
  <2>1. PICK q \in Push : "resources" \in call[q].pending /\ f \in call[q].resources
    BY <1>2, Zenon DEF CachedResourceStored
  <2> QED BY <2>1, Zenon
<1> QED BY <1>1, <1>2, Zenon

\* g is f but for its value at p.
Local(f, g, p) == OnPush(g) /\ \A q \in Push : q # p => g[q] = f[q]

LEMMA LocalSame ==
  \A f, p :
    OnPush(f) => Local(f, f, p)
BY Zenon DEF Local

LEMMA LocalExcept ==
  \A f : \A p \in Push : \A v :
    OnPush(f) => Local(f, [f EXCEPT ![p] = v], p) /\ [f EXCEPT ![p] = v][p] = v
BY Zenon DEF Local, OnPush

\* The variables of one call change, to values that satisfy their invariant.
LEMMA CallStep ==
  \A p \in Push :
    /\ LogsIInv /\ Local(pc, pc', p) /\ Local(call, call', p) /\ Local(attempts, attempts', p)
    /\ Local(stored, stored', p) /\ Local(dropped, dropped', p) /\ Local(metered, metered', p)
    /\ attempts'[p] \in Nat /\ attempts'[p] <= MaxAttempts[p]
    /\ CallInv(p, pc'[p], call'[p], stored'[p])
    /\ Outcome(p, pc'[p], stored'[p], dropped'[p], metered'[p]) /\ SlotStep(p)
    /\ closing' = closing /\ db' = db
    /\ db \/ pc'[p] \in Returned \cup {"begin"}
    /\ CachedResourceStored'
    => LogsIInv'
<1> SUFFICES ASSUME LogsIInv, NEW p \in Push,
                    Local(pc, pc', p), Local(call, call', p), Local(attempts, attempts', p),
                    Local(stored, stored', p), Local(dropped, dropped', p), Local(metered, metered', p),
                    attempts'[p] \in Nat, attempts'[p] <= MaxAttempts[p],
                    CallInv(p, pc'[p], call'[p], stored'[p]),
                    Outcome(p, pc'[p], stored'[p], dropped'[p], metered'[p]),
                    SlotStep(p), closing' = closing, db' = db, db \/ pc'[p] \in Returned \cup {"begin"},
                    CachedResourceStored'
             PROVE  LogsIInv'
  BY Zenon
<1>1. /\ OnPush(pc') /\ OnPush(attempts') /\ OnPush(call')
      /\ OnPush(stored') /\ OnPush(dropped') /\ OnPush(metered')
  BY Zenon DEF Local
<1>2. \A q \in Push : attempts'[q] \in Nat /\ attempts'[q] <= MaxAttempts[q]
  BY Zenon DEF LogsIInv, Local
<1>3. \A q \in Push : CallInv(q, pc'[q], call'[q], stored'[q])
  BY Zenon DEF LogsIInv, Local
<1>4. \A q \in Push : Outcome(q, pc'[q], stored'[q], dropped'[q], metered'[q])
  BY Zenon DEF LogsIInv, Local
<1>5. IsFiniteSet(Held') /\ limiter' = Cardinality(Held') /\ limiter' <= Limit
  <2>1. \A q \in Push : q # p => Streaming(q)' = Streaming(q)
    BY Zenon DEF Streaming, Local
  <2> QED BY <2>1, SlotsStay, Zenon DEF LogsIInv
<1>6. closing' \in BOOLEAN /\ db' \in BOOLEAN /\ (~db' => closing') /\ DbOpenWhileUsed'
  BY Zenon DEF LogsIInv, DbOpenWhileUsed, Local
<1> QED BY <1>1, <1>2, <1>3, <1>4, <1>5, <1>6, Zenon DEF LogsIInv

\* A step before the sends: nothing is stored or counted, and nothing is forgotten.
LEMMA InnerStep ==
  \A p \in Push :
    /\ LogsIInv /\ Local(pc, pc', p) /\ Local(call, call', p)
    /\ UNCHANGED <<attempts, rfCache, closing, db, store, result>>
    /\ pc'[p] = pc[p] \/ (pc[p] # "ok" /\ pc'[p] # "ok")
    /\ db \/ pc'[p] \in Returned \cup {"begin"}
    /\ CallInv(p, pc'[p], call'[p], stored[p]) /\ SlotStep(p)
    /\ "resources" \in call[p].pending =>
         "resources" \in call'[p].pending /\ call'[p].resources = call[p].resources
    => LogsIInv'
<1> SUFFICES ASSUME LogsIInv, NEW p \in Push, Local(pc, pc', p), Local(call, call', p),
                    UNCHANGED <<attempts, rfCache, closing, db, store, result>>,
                    pc'[p] = pc[p] \/ (pc[p] # "ok" /\ pc'[p] # "ok"),
                    db \/ pc'[p] \in Returned \cup {"begin"},
                    CallInv(p, pc'[p], call'[p], stored[p]), SlotStep(p),
                    "resources" \in call[p].pending =>
                      "resources" \in call'[p].pending /\ call'[p].resources = call[p].resources
             PROVE  LogsIInv'
  BY Zenon
<1>1. /\ Local(attempts, attempts', p) /\ Local(stored, stored', p)
      /\ Local(dropped, dropped', p) /\ Local(metered, metered', p)
  BY LocalSame, Zenon DEF LogsIInv, store, result
<1>2. Outcome(p, pc'[p], stored'[p], dropped'[p], metered'[p])
  <2>1. Outcome(p, pc[p], stored[p], dropped[p], metered[p])
    BY Zenon DEF LogsIInv
  <2>2. stored' = stored /\ dropped' = dropped /\ metered' = metered
    BY Zenon DEF store, result
  <2> QED BY <2>1, <2>2, Zenon DEF Outcome
<1>3. CachedResourceStored'
  BY CachedStay, Zenon DEF LogsIInv, store, Local
<1> QED BY <1>1, <1>2, <1>3, CallStep, Zenon DEF LogsIInv, store

\* The slots stay when the workers do.
LEMMA SameWorkers ==
  \A p :
    call'[p].worker = call[p].worker /\ limiter' = limiter => SlotStep(p)
BY Zenon DEF SlotStep, Streaming

LEMMA BeginStep ==
  \A p \in Push :
    LogsIInv /\ Begin(p) => LogsIInv'
<1> SUFFICES ASSUME LogsIInv, NEW p \in Push, Begin(p)
             PROVE  LogsIInv'
  BY Zenon
<1>1. /\ pc[p] \in {"idle", "err"} /\ attempts[p] < MaxAttempts[p] /\ attempts[p] \in Nat
      /\ MaxAttempts[p] \in Nat
  BY LogsAssumption, Zenon DEF Begin, LogsIInv
<1>2. /\ Local(pc, pc', p) /\ pc'[p] = "begin" /\ Local(call, call', p) /\ call'[p] = NewCall(p)
  <2>1. OnPush(pc) /\ OnPush(call)
    BY Zenon DEF LogsIInv
  <2>2. pc' = [pc EXCEPT ![p] = "begin"] /\ call' = [call EXCEPT ![p] = NewCall(p)]
    BY Zenon DEF Begin, Goto
  <2> QED BY <2>1, <2>2, LocalExcept, Zenon
<1>3. Local(attempts, attempts', p) /\ attempts'[p] = attempts[p] + 1
  <2>1. OnPush(attempts)
    BY Zenon DEF LogsIInv
  <2>2. attempts' = [attempts EXCEPT ![p] = attempts[p] + 1]
    BY Zenon DEF Begin
  <2> QED BY <2>1, <2>2, LocalExcept, Zenon
<1>4. /\ Local(stored, stored', p) /\ Local(dropped, dropped', p) /\ Local(metered, metered', p)
      /\ stored' = stored /\ dropped' = dropped /\ metered' = metered
  BY LocalSame, Zenon DEF LogsIInv, Begin, store, result
<1>5. CallInv(p, pc'[p], call'[p], stored'[p])
  BY <1>2, NewCallInv, Zenon
<1>6. Outcome(p, pc'[p], stored'[p], dropped'[p], metered'[p])
  BY <1>1, <1>2, <1>4, Zenon DEF LogsIInv, Outcome
<1>7. SlotStep(p)
  <2>1. \A r \in Record(p) : call[p].worker[r] \in {"none", "done"} /\ call'[p].worker[r] = "none"
    <3>1. Goroutines(p, pc[p], call[p])
      BY Zenon DEF LogsIInv, CallInv
    <3>2. call'[p].worker = [r \in Record(p) |-> "none"]
      BY <1>2 DEF NewCall
    <3>3. \A r \in Record(p) : call[p].worker[r] \in {"none", "done"}
      BY <1>1, <3>1, Zenon DEF Goroutines
    <3> QED BY <3>2, <3>3, Zenon
  <2> QED BY <2>1, Zenon DEF SlotStep, Streaming, Begin
<1>8. CachedResourceStored'
  <2>1. call[p].pending = {}
    BY <1>1, Zenon DEF LogsIInv, CallInv, Complete
  <2> QED BY <1>2, <2>1, CachedStay, Zenon DEF LogsIInv, Begin, store, Local
<1>9. attempts'[p] \in Nat /\ attempts'[p] <= MaxAttempts[p]
  BY <1>1, <1>3
<1>10. closing' = closing /\ db' = db /\ pc'[p] \in Returned \cup {"begin"}
  BY <1>2, Zenon DEF Begin
<1> QED BY <1>2, <1>3, <1>4, <1>5, <1>6, <1>7, <1>8, <1>9, <1>10, CallStep, Zenon

LEMMA ExpireStep ==
  \A p \in Push :
    LogsIInv /\ Expire(p) => LogsIInv'
<1> SUFFICES ASSUME LogsIInv, NEW p \in Push, Expire(p)
             PROVE  LogsIInv'
  BY Zenon
<1>0. call[p] \in CallType(p) /\ OnPush(call)
  BY Zenon DEF LogsIInv, CallInv, Typed
<1>1. Local(call, call', p) /\ call'[p] = [call[p] EXCEPT !.expired = TRUE, !.cancelled = TRUE]
  BY <1>0, Zenon DEF Expire, Local, OnPush
<1>2. CallInv(p, pc'[p], call'[p], stored[p])
  <2>1. CallInv(p, pc[p], call[p], stored[p]) /\ pc' = pc
    BY Zenon DEF Expire, LogsIInv
  <2>2. CallInv(p, pc[p], [call[p] EXCEPT !.expired = TRUE, !.cancelled = TRUE], stored[p])
    BY <2>1, ExpiredInv, Zenon
  <2> QED BY <1>1, <2>1, <2>2, Zenon
<1>3. call'[p].worker = call[p].worker /\ call'[p].pending = call[p].pending /\ call'[p].resources = call[p].resources
  BY <1>0, <1>1, Zenon DEF CallType
<1>4. db \/ pc'[p] \in Returned \cup {"begin"}
  BY Zenon DEF LogsIInv, DbOpenWhileUsed, Expire
<1>5. Local(pc, pc', p)
  BY LocalSame, Zenon DEF LogsIInv, Expire
<1> QED BY <1>1, <1>2, <1>3, <1>4, <1>5, SameWorkers, InnerStep, Zenon DEF Expire

\* A call that returns before it has sent anything.
LEMMA ReturnStep ==
  \A p \in Push :
    /\ LogsIInv /\ Return(p, "err") /\ pc[p] \in {"begin", "prepare", "wait", "resources"}
    /\ Running(p) = {} /\ limiter' = limiter
    /\ UNCHANGED <<attempts, rfCache, closing, db, store, result>>
    => LogsIInv'
<1> SUFFICES ASSUME LogsIInv, NEW p \in Push, Return(p, "err"), pc[p] \in {"begin", "prepare", "wait", "resources"},
                    Running(p) = {}, limiter' = limiter, UNCHANGED <<attempts, rfCache, closing, db, store, result>>
             PROVE  LogsIInv'
  BY Zenon
<1>1. Local(pc, pc', p) /\ pc'[p] = "err" /\ Local(call, call', p) /\ call'[p] = Gone(p, call[p].worker)
  <2>1. OnPush(pc) /\ OnPush(call)
    BY Zenon DEF LogsIInv
  <2>2. pc' = [pc EXCEPT ![p] = "err"] /\ call' = [call EXCEPT ![p] = Gone(p, call[p].worker)]
    BY Zenon DEF Return, Goto, Gone
  <2> QED BY <2>1, <2>2, LocalExcept, Zenon
<1>2. call[p].worker \in [Record(p) -> {"none", "done"}]
  <2>1. call[p].worker \in [Record(p) -> WorkerState]
    BY Zenon DEF LogsIInv, CallInv, Typed, CallType
  <2>2. \A r \in Record(p) : call[p].worker[r] \in {"none", "done"}
    BY <2>1, Zenon DEF Running, WorkerState
  <2> QED BY <2>1, <2>2, Zenon
<1>3. CallInv(p, pc'[p], call'[p], stored[p])
  BY <1>1, <1>2, GoneInv, Zenon
<1>4. call'[p].worker = call[p].worker
  BY <1>1, Zenon DEF Gone, NewCall
<1>5. call[p].pending = {}
  BY Zenon DEF LogsIInv, CallInv, Complete
<1> QED BY <1>1, <1>3, <1>4, <1>5, SameWorkers, InnerStep, Zenon DEF Returned

\* The call goes on, or returns an error, before the sends; its variables are as they were.
LEMMA MoveStep ==
  \A p \in Push : \A m :
    /\ LogsIInv /\ Goto(p, m)
    /\ UNCHANGED <<call, limiter, attempts, rfCache, closing, db, store, result>>
    /\ \/ pc[p] = "begin" /\ m = "prepare" /\ db
       \/ pc[p] = "prepare" /\ m = "loop"
       \/ pc[p] = "loop" /\ m = "wait" /\ (call[p].next \notin Record(p) \/ call[p].cancelled)
       \/ /\ pc[p] = "wait" /\ m = "resources" /\ ~call[p].consumer /\ ~call[p].groupErr
          /\ Running(p) = {}
    => LogsIInv'
<1> SUFFICES ASSUME LogsIInv, NEW p \in Push, NEW m, Goto(p, m),
                    UNCHANGED <<call, limiter, attempts, rfCache, closing, db, store, result>>,
                    \/ pc[p] = "begin" /\ m = "prepare" /\ db
                    \/ pc[p] = "prepare" /\ m = "loop"
                    \/ pc[p] = "loop" /\ m = "wait" /\ (call[p].next \notin Record(p) \/ call[p].cancelled)
                    \/ /\ pc[p] = "wait" /\ m = "resources" /\ ~call[p].consumer /\ ~call[p].groupErr
                       /\ Running(p) = {}
             PROVE  LogsIInv'
  BY Zenon
<1>1. Local(pc, pc', p) /\ pc'[p] = m /\ Local(call, call', p) /\ call' = call
  <2>1. OnPush(pc) /\ OnPush(call)
    BY Zenon DEF LogsIInv
  <2>2. pc' = [pc EXCEPT ![p] = m] /\ call' = call
    BY Zenon DEF Goto
  <2>3. Local(call, call', p)
    BY <2>1, <2>2, LocalSame, Zenon
  <2> QED BY <2>1, <2>2, <2>3, LocalExcept, Zenon
<1>2. CallInv(p, pc[p], call[p], stored[p])
  BY Zenon DEF LogsIInv
<1>3. Running(p) = {} => \A r \in Record(p) : call[p].worker[r] \in {"none", "done"}
  BY <1>2, Zenon DEF CallInv, Typed, CallType, Running, WorkerState
<1>4. CallInv(p, m, call[p], stored[p])
  BY <1>2, <1>3, MovesOn, Zenon
<1>5. db
  BY Zenon DEF LogsIInv, DbOpenWhileUsed, Returned
<1> QED BY <1>1, <1>4, <1>5, SameWorkers, InnerStep, Zenon

LEMMA CheckClosedStep ==
  \A p \in Push :
    LogsIInv /\ CheckClosed(p) => LogsIInv'
<1> SUFFICES ASSUME LogsIInv, NEW p \in Push, CheckClosed(p)
             PROVE  LogsIInv'
  BY Zenon
<1>0. pc[p] = "begin" /\ UNCHANGED <<limiter, attempts, rfCache, closing, db, store, result>>
  BY Zenon DEF CheckClosed
<1>1. Running(p) = {}
  BY <1>0, Zenon DEF LogsIInv, CallInv, Goroutines, Running
<1>2. CASE closing
  BY <1>0, <1>1, <1>2, ReturnStep, Zenon DEF CheckClosed
<1>3. CASE ~closing
  BY <1>0, <1>3, MoveStep, Zenon DEF CheckClosed, LogsIInv
<1> QED BY <1>2, <1>3, Zenon

LEMMA PrepareStep ==
  \A p \in Push :
    LogsIInv /\ Prepare(p) => LogsIInv'
<1> SUFFICES ASSUME LogsIInv, NEW p \in Push, Prepare(p)
             PROVE  LogsIInv'
  BY Zenon
<1>0. pc[p] = "prepare" /\ UNCHANGED <<limiter, attempts, rfCache, closing, db, store, result>>
  BY Zenon DEF Prepare
<1>1. Running(p) = {}
  BY <1>0, Zenon DEF LogsIInv, CallInv, Goroutines, Running
<1>2. CASE Return(p, "err")
  BY <1>0, <1>1, <1>2, ReturnStep, Zenon
<1>3. CASE Goto(p, "loop") /\ UNCHANGED call
  BY <1>0, <1>3, MoveStep, Zenon
<1> QED BY <1>2, <1>3, Zenon DEF Prepare

LEMMA EndLoopStep ==
  \A p \in Push :
    LogsIInv /\ EndLoop(p) => LogsIInv'
BY MoveStep, Zenon DEF EndLoop

LEMMA GroupWaitStep ==
  \A p \in Push :
    LogsIInv /\ GroupWait(p) => LogsIInv'
<1> SUFFICES ASSUME LogsIInv, NEW p \in Push, GroupWait(p)
             PROVE  LogsIInv'
  BY Zenon
<1>0. /\ pc[p] = "wait" /\ ~call[p].consumer /\ Running(p) = {}
      /\ UNCHANGED <<limiter, attempts, rfCache, closing, db, store, result>>
  BY Zenon DEF GroupWait
<1>1. CASE call[p].groupErr
  BY <1>0, <1>1, ReturnStep, Zenon DEF GroupWait
<1>2. CASE ~call[p].groupErr
  BY <1>0, <1>2, MoveStep, Zenon DEF GroupWait
<1> QED BY <1>1, <1>2, Zenon

LEMMA SpawnStep ==
  \A p \in Push :
    LogsIInv /\ Spawn(p) => LogsIInv'
<1> SUFFICES ASSUME LogsIInv, NEW p \in Push, Spawn(p)
             PROVE  LogsIInv'
  BY Zenon
<1>0. /\ pc[p] = "loop" /\ call[p] \in CallType(p) /\ OnPush(call) /\ CallInv(p, "loop", call[p], stored[p])
      /\ call[p].next \in Record(p)
  BY Zenon DEF LogsIInv, CallInv, Typed, Spawn
<1>1. /\ Local(call, call', p)
      /\ call'[p] = [call[p] EXCEPT !.worker[call[p].next] = "work", !.next = @ + 1]
  BY <1>0, Zenon DEF Spawn, Local, OnPush
<1>2. CallInv(p, pc'[p], call'[p], stored[p])
  <2>1. CallInv(p, "loop", [call[p] EXCEPT !.worker[call[p].next] = "work", !.next = @ + 1], stored[p])
    BY <1>0, SpawnInv, Zenon
  <2>2. pc'[p] = "loop"
    BY <1>0, Zenon DEF Spawn
  <2> QED BY <1>1, <2>1, <2>2, Zenon
<1>3. /\ call'[p].pending = call[p].pending /\ call'[p].resources = call[p].resources
      /\ \A r \in Record(p) : call'[p].worker[r] = IF r = call[p].next THEN "work" ELSE call[p].worker[r]
  <2> DEFINE Fields(c, d) ==
        /\ d.pending = c.pending /\ d.resources = c.resources
        /\ \A r \in Record(p) : d.worker[r] = IF r = c.next THEN "work" ELSE c.worker[r]
  <2>1. \A c \in CallType(p) : Fields(c, [c EXCEPT !.worker[c.next] = "work", !.next = @ + 1])
    BY Zenon DEF CallType
  <2>2. Fields(call[p], call'[p])
    <3> HIDE DEF Fields
    <3> QED BY <1>0, <1>1, <2>1, Zenon
  <2> QED BY <2>2, Zenon
<1>4. SlotStep(p)
  <2>1. call[p].worker[call[p].next] = "none"
    <3>1. call[p].next >= call[p].next
      BY <1>0, LogsAssumption DEF Record
    <3> QED BY <1>0, <3>1, Zenon DEF CallInv, Goroutines
  <2>2. call[p].next \notin Streaming(p) /\ Streaming(p)' = Streaming(p) \cup {call[p].next}
    BY <1>0, <1>3, <2>1, Zenon DEF Streaming
  <2> QED BY <1>0, <2>2, Zenon DEF SlotStep, Spawn
<1>5. Local(pc, pc', p) /\ pc' = pc
  BY LocalSame, Zenon DEF LogsIInv, Spawn
<1>6. db
  BY <1>0, Zenon DEF LogsIInv, DbOpenWhileUsed, Returned
<1> QED BY <1>1, <1>2, <1>3, <1>4, <1>5, <1>6, InnerStep, Zenon DEF Spawn

\* A step of a goroutine of the group: the call is in its loop, or waits for the group.
LEMMA GroupStep ==
  \A p \in Push :
    /\ LogsIInv /\ Local(call, call', p) /\ pc[p] \in {"loop", "wait"}
    /\ UNCHANGED <<pc, attempts, rfCache, closing, db, store, result>>
    /\ CallInv(p, pc[p], call'[p], stored[p]) /\ SlotStep(p)
    => LogsIInv'
<1> SUFFICES ASSUME LogsIInv, NEW p \in Push, Local(call, call', p), pc[p] \in {"loop", "wait"},
                    UNCHANGED <<pc, attempts, rfCache, closing, db, store, result>>,
                    CallInv(p, pc[p], call'[p], stored[p]), SlotStep(p)
             PROVE  LogsIInv'
  BY Zenon
<1>1. Local(pc, pc', p) /\ pc' = pc
  BY LocalSame, Zenon DEF LogsIInv
<1>2. db
  BY Zenon DEF LogsIInv, DbOpenWhileUsed, Returned
<1>3. call[p].pending = {}
  BY Zenon DEF LogsIInv, CallInv, Complete
<1> QED BY <1>1, <1>2, <1>3, InnerStep, Zenon

\* The worker of record r of p ends its part in streaming, and gives its slot back.
LEMMA SlotGivenBack ==
  \A p \in Push : \A r \in Record(p) :
    /\ call[p].worker[r] \in {"work", "send"} /\ call'[p].worker[r] \notin {"work", "send"}
    /\ \A x \in Record(p) : x # r => call'[p].worker[x] = call[p].worker[x]
    /\ limiter' = limiter - 1
    => SlotStep(p)
<1> SUFFICES ASSUME NEW p \in Push, NEW r \in Record(p), call[p].worker[r] \in {"work", "send"},
                    call'[p].worker[r] \notin {"work", "send"},
                    \A x \in Record(p) : x # r => call'[p].worker[x] = call[p].worker[x],
                    limiter' = limiter - 1
             PROVE  SlotStep(p)
  BY Zenon
<1>1. r \in Streaming(p) /\ Streaming(p)' = Streaming(p) \ {r}
  BY Zenon DEF Streaming
<1> QED BY <1>1, Zenon DEF SlotStep

LEMMA WorkStep ==
  \A p \in Push : \A r \in Record(p) :
    LogsIInv /\ Work(p, r) => LogsIInv'
<1> SUFFICES ASSUME LogsIInv, NEW p \in Push, NEW r \in Record(p), Work(p, r)
             PROVE  LogsIInv'
  BY Zenon
<1>0. /\ call[p] \in CallType(p) /\ OnPush(call) /\ CallInv(p, pc[p], call[p], stored[p])
      /\ call[p].worker[r] = "work"
  BY Zenon DEF LogsIInv, CallInv, Typed, Work
<1>1. pc[p] \in {"loop", "wait"}
  BY <1>0, WorkerRuns, Zenon
<1>2. PICK v \in WorkerState, seen \in SUBSET Fingerprints(p) :
        /\ call[p].seen \subseteq seen
        /\ call' = [call EXCEPT ![p] = [call[p] EXCEPT !.worker[r] = v, !.seen = seen]]
        /\ \/ v \in {"done", "fail"} /\ r \notin Eligible(p) /\ limiter' = limiter - 1
           \/ v = "send" /\ r \in Eligible(p) /\ limiter' = limiter
  <2> DEFINE sees == call[p].seen \cup {Batch[p][r].res}
  <2>1. /\ call[p].seen \in SUBSET Fingerprints(p) /\ sees \in SUBSET Fingerprints(p)
        /\ call[p].seen \subseteq sees
    BY <1>0, Zenon DEF CallType, Fingerprints
  <2>2. CASE Kind(p, r) = "old" /\ call' = [call EXCEPT ![p].worker[r] = "done"] /\ limiter' = limiter - 1
    <3>1. call' = [call EXCEPT ![p] = [call[p] EXCEPT !.worker[r] = "done", !.seen = call[p].seen]]
      BY <1>0, <2>2, Zenon DEF CallType, OnPush
    <3>2. r \notin Eligible(p)
      BY <2>2, Zenon DEF Eligible
    <3> QED BY <2>1, <2>2, <3>1, <3>2, Zenon DEF WorkerState
  <2>3. CASE Kind(p, r) = "bad" /\ call' = [call EXCEPT ![p].worker[r] = "fail", ![p].seen = sees]
             /\ limiter' = limiter - 1
    <3>1. call' = [call EXCEPT ![p] = [call[p] EXCEPT !.worker[r] = "fail", !.seen = sees]]
      BY <1>0, <2>3, Zenon DEF CallType, OnPush
    <3>2. r \notin Eligible(p)
      BY <2>3, Zenon DEF Eligible
    <3> HIDE DEF sees
    <3> QED BY <2>1, <2>3, <3>1, <3>2, Zenon DEF WorkerState
  <2>4. CASE Kind(p, r) = "ok" /\ call' = [call EXCEPT ![p].worker[r] = "send", ![p].seen = sees]
             /\ limiter' = limiter
    <3>1. call' = [call EXCEPT ![p] = [call[p] EXCEPT !.worker[r] = "send", !.seen = sees]]
      BY <1>0, <2>4, Zenon DEF CallType, OnPush
    <3>2. r \in Eligible(p)
      BY <2>4, Zenon DEF Eligible
    <3> HIDE DEF sees
    <3> QED BY <2>1, <2>4, <3>1, <3>2, Zenon DEF WorkerState
  <2> QED BY <2>2, <2>3, <2>4, Zenon DEF Work
<1>d. PICK d : d = [call[p] EXCEPT !.worker[r] = v, !.seen = seen]
  BY Zenon
<1>3. Local(call, call', p) /\ call'[p] = d
  <2>1. call' = [call EXCEPT ![p] = d]
    BY <1>2, <1>d, Zenon
  <2> QED BY <1>0, <2>1, LocalExcept, Zenon
<1>4. CallInv(p, pc[p], call'[p], stored[p])
  <2>1. CallInv(p, pc[p], [call[p] EXCEPT !.worker[r] = v, !.seen = seen], stored[p])
    BY <1>0, <1>2, WorkInv, Zenon
  <2> QED BY <1>d, <1>3, <2>1, Zenon
<1>5. \A x \in Record(p) : call'[p].worker[x] = IF x = r THEN v ELSE call[p].worker[x]
  <2>1. d.worker = [call[p].worker EXCEPT ![r] = v]
    BY <1>0, <1>d, Zenon DEF CallType
  <2>2. call[p].worker \in [Record(p) -> WorkerState]
    BY <1>0, Zenon DEF CallType
  <2> QED BY <1>3, <2>1, <2>2, Zenon
<1>6. SlotStep(p)
  <2>1. CASE v = "send" /\ limiter' = limiter
    BY <1>0, <1>5, <2>1, Zenon DEF SlotStep, Streaming
  <2>2. CASE v \in {"done", "fail"} /\ limiter' = limiter - 1
    BY <1>0, <1>5, <2>2, SlotGivenBack, Zenon
  <2> QED BY <1>2, <2>1, <2>2, Zenon
<1> QED BY <1>1, <1>3, <1>4, <1>6, GroupStep, Zenon DEF Work

LEMMA WorkerFailsStep ==
  \A p \in Push : \A r \in Record(p) :
    LogsIInv /\ WorkerFails(p, r) => LogsIInv'
<1> SUFFICES ASSUME LogsIInv, NEW p \in Push, NEW r \in Record(p), WorkerFails(p, r)
             PROVE  LogsIInv'
  BY Zenon
<1>0. /\ call[p] \in CallType(p) /\ OnPush(call) /\ CallInv(p, pc[p], call[p], stored[p])
      /\ call[p].worker[r] = "fail"
  BY Zenon DEF LogsIInv, CallInv, Typed, WorkerFails
<1>1. pc[p] \in {"loop", "wait"}
  BY <1>0, WorkerRuns, Zenon
<1>d. PICK d : d = [call[p] EXCEPT !.worker[r] = "done", !.groupErr = TRUE, !.cancelled = TRUE]
  BY Zenon
<1>2. Local(call, call', p) /\ call'[p] = d
  <2>1. call' = [call EXCEPT ![p] = d]
    BY <1>0, <1>d, Zenon DEF CallType, OnPush, WorkerFails
  <2> QED BY <1>0, <2>1, LocalExcept, Zenon
<1>3. CallInv(p, pc[p], call'[p], stored[p])
  <2>1. CallInv(p, pc[p], [call[p] EXCEPT !.worker[r] = "done", !.groupErr = TRUE, !.cancelled = TRUE], stored[p])
    BY <1>0, WorkerFailsInv, Zenon
  <2> QED BY <1>d, <1>2, <2>1, Zenon
<1>4. SlotStep(p)
  <2>1. d.worker = [call[p].worker EXCEPT ![r] = "done"] /\ call[p].worker \in [Record(p) -> WorkerState]
    BY <1>0, <1>d, Zenon DEF CallType
  <2>2. Streaming(p)' = Streaming(p)
    BY <1>0, <1>2, <2>1, Zenon DEF Streaming
  <2> QED BY <2>2, Zenon DEF SlotStep, WorkerFails
<1> QED BY <1>1, <1>2, <1>3, <1>4, GroupStep, Zenon DEF WorkerFails

LEMMA StreamRecordStep ==
  \A p \in Push : \A r \in Record(p) :
    LogsIInv /\ StreamRecord(p, r) => LogsIInv'
<1> SUFFICES ASSUME LogsIInv, NEW p \in Push, NEW r \in Record(p), StreamRecord(p, r)
             PROVE  LogsIInv'
  BY Zenon
<1>0. /\ call[p] \in CallType(p) /\ OnPush(call) /\ CallInv(p, pc[p], call[p], stored[p])
      /\ call[p].worker[r] = "send" /\ Len(call[p].stream) < Limit
  BY Zenon DEF LogsIInv, CallInv, Typed, StreamRecord
<1>1. pc[p] \in {"loop", "wait"}
  BY <1>0, WorkerRuns, Zenon
<1>d. PICK d : d = [call[p] EXCEPT !.stream = Append(@, r), !.worker[r] = "done"]
  BY Zenon
<1>2. Local(call, call', p) /\ call'[p] = d
  <2>1. call' = [call EXCEPT ![p] = d]
    BY <1>0, <1>d, Zenon DEF CallType, OnPush, StreamRecord
  <2> QED BY <1>0, <2>1, LocalExcept, Zenon
<1>3. CallInv(p, pc[p], call'[p], stored[p])
  <2>1. CallInv(p, pc[p], [call[p] EXCEPT !.stream = Append(@, r), !.worker[r] = "done"], stored[p])
    BY <1>0, StreamInv, Zenon
  <2> QED BY <1>d, <1>2, <2>1, Zenon
<1>4. SlotStep(p)
  <2>1. d.worker = [call[p].worker EXCEPT ![r] = "done"] /\ call[p].worker \in [Record(p) -> WorkerState]
    BY <1>0, <1>d, Zenon DEF CallType
  <2>2. limiter' = limiter - 1
    BY Zenon DEF StreamRecord
  <2> QED BY <1>0, <1>2, <2>1, <2>2, SlotGivenBack, Zenon
<1> QED BY <1>1, <1>2, <1>3, <1>4, GroupStep, Zenon DEF StreamRecord

LEMMA CloseStreamStep ==
  \A p \in Push :
    LogsIInv /\ CloseStream(p) => LogsIInv'
<1> SUFFICES ASSUME LogsIInv, NEW p \in Push, CloseStream(p)
             PROVE  LogsIInv'
  BY Zenon
<1>0. /\ call[p] \in CallType(p) /\ OnPush(call) /\ CallInv(p, "wait", call[p], stored[p])
      /\ pc[p] = "wait" /\ \A r \in Record(p) : call[p].worker[r] \notin {"work", "send"}
  BY Zenon DEF LogsIInv, CallInv, Typed, CloseStream, Streaming
<1>d. PICK d : d = [call[p] EXCEPT !.closed = TRUE]
  BY Zenon
<1>2. Local(call, call', p) /\ call'[p] = d
  <2>1. call' = [call EXCEPT ![p] = d]
    BY <1>0, <1>d, Zenon DEF CallType, OnPush, CloseStream
  <2> QED BY <1>0, <2>1, LocalExcept, Zenon
<1>3. CallInv(p, pc[p], call'[p], stored[p])
  <2>1. CallInv(p, "wait", [call[p] EXCEPT !.closed = TRUE], stored[p])
    BY <1>0, CloseInv, Zenon
  <2> QED BY <1>0, <1>d, <1>2, <2>1, Zenon
<1>4. d.worker = call[p].worker
  BY <1>0, <1>d, Zenon DEF CallType
<1> QED BY <1>0, <1>2, <1>3, <1>4, SameWorkers, GroupStep, Zenon DEF CloseStream

LEMMA ConsumerEndsStep ==
  \A p \in Push :
    LogsIInv /\ ConsumerEnds(p) => LogsIInv'
<1> SUFFICES ASSUME LogsIInv, NEW p \in Push, ConsumerEnds(p)
             PROVE  LogsIInv'
  BY Zenon
<1>0. /\ call[p] \in CallType(p) /\ OnPush(call) /\ CallInv(p, pc[p], call[p], stored[p])
      /\ pc[p] \in {"loop", "wait"} /\ (call[p].cancelled \/ (call[p].closed /\ call[p].stream = << >>))
  BY Zenon DEF LogsIInv, CallInv, Typed, ConsumerEnds, Consuming
<1>d. PICK d : d = [call[p] EXCEPT !.consumer = FALSE]
  BY Zenon
<1>2. Local(call, call', p) /\ call'[p] = d
  <2>1. call' = [call EXCEPT ![p] = d]
    BY <1>0, <1>d, Zenon DEF CallType, OnPush, ConsumerEnds
  <2> QED BY <1>0, <2>1, LocalExcept, Zenon
<1>3. CallInv(p, pc[p], call'[p], stored[p])
  <2>1. CallInv(p, pc[p], [call[p] EXCEPT !.consumer = FALSE], stored[p])
    BY <1>0, ConsumerEndsInv, Zenon
  <2> QED BY <1>d, <1>2, <2>1, Zenon
<1>4. d.worker = call[p].worker
  BY <1>0, <1>d, Zenon DEF CallType
<1> QED BY <1>0, <1>2, <1>3, <1>4, SameWorkers, GroupStep, Zenon DEF ConsumerEnds

LEMMA ConsumeStep ==
  \A p \in Push :
    LogsIInv /\ Consume(p) => LogsIInv'
<1> SUFFICES ASSUME LogsIInv, NEW p \in Push, Consume(p)
             PROVE  LogsIInv'
  BY Zenon
<1> DEFINE Taken(c) == [c EXCEPT !.stream = Tail(@), !.appended = @ \cup {Head(c.stream)}]
           Stopped(c) == [c EXCEPT !.stream = Tail(@), !.consumer = FALSE, !.groupErr = TRUE, !.cancelled = TRUE]
<1>0. /\ call[p] \in CallType(p) /\ OnPush(call) /\ CallInv(p, pc[p], call[p], stored[p])
      /\ pc[p] \in {"loop", "wait"} /\ call[p].stream # << >>
  BY Zenon DEF LogsIInv, CallInv, Typed, Consume, Consuming
<1>1. PICK d : d \in {Taken(call[p]), Stopped(call[p])} /\ call' = [call EXCEPT ![p] = d]
  <2>1. CASE call' = [call EXCEPT ![p].stream = Tail(@), ![p].appended = @ \cup {Head(call[p].stream)}]
    <3>1. call' = [call EXCEPT ![p] = Taken(call[p])]
      BY <1>0, <2>1, Zenon DEF CallType, OnPush
    <3> HIDE DEF Taken, Stopped
    <3> QED BY <3>1, Zenon
  <2>2. CASE call' = [call EXCEPT ![p].stream = Tail(@), ![p].consumer = FALSE,
                                  ![p].groupErr = TRUE, ![p].cancelled = TRUE]
    <3>1. call' = [call EXCEPT ![p] = Stopped(call[p])]
      BY <1>0, <2>2, Zenon DEF CallType, OnPush
    <3> HIDE DEF Taken, Stopped
    <3> QED BY <3>1, Zenon
  <2> QED BY <2>1, <2>2, Zenon DEF Consume
<1>2. Local(call, call', p) /\ call'[p] = d
  <2> HIDE DEF Taken, Stopped
  <2> QED BY <1>0, <1>1, LocalExcept, Zenon
<1>3. CallInv(p, pc[p], call'[p], stored[p])
  <2>1. CallInv(p, pc[p], Taken(call[p]), stored[p]) /\ CallInv(p, pc[p], Stopped(call[p]), stored[p])
    BY <1>0, ConsumeInv, Zenon
  <2> HIDE DEF Taken, Stopped
  <2> QED BY <1>1, <1>2, <2>1, Zenon
<1>4. d.worker = call[p].worker
  BY <1>0, <1>1, Zenon DEF CallType
<1> QED BY <1>0, <1>2, <1>3, <1>4, SameWorkers, GroupStep, Zenon DEF Consume

\* What a step of the call after the group leaves alone.
LEMMA LateFrame ==
  \A p \in Push :
    LogsIInv /\ UNCHANGED <<attempts, closing, db>> /\ pc[p] \in {"resources", "send"}
      => /\ Local(attempts, attempts', p) /\ attempts'[p] \in Nat /\ attempts'[p] <= MaxAttempts[p]
         /\ closing' = closing /\ db' = db /\ db
         /\ \A r \in Record(p) : call[p].worker[r] \in {"none", "done"}
         /\ call[p].worker \in [Record(p) -> {"none", "done"}]
<1> SUFFICES ASSUME LogsIInv, NEW p \in Push, UNCHANGED <<attempts, closing, db>>,
                    pc[p] \in {"resources", "send"}
             PROVE  /\ Local(attempts, attempts', p) /\ attempts'[p] \in Nat /\ attempts'[p] <= MaxAttempts[p]
                    /\ closing' = closing /\ db' = db /\ db
                    /\ \A r \in Record(p) : call[p].worker[r] \in {"none", "done"}
                    /\ call[p].worker \in [Record(p) -> {"none", "done"}]
  BY Zenon
<1>1. Local(attempts, attempts', p) /\ attempts' = attempts
  BY LocalSame, Zenon DEF LogsIInv
<1>2. db
  BY Zenon DEF LogsIInv, DbOpenWhileUsed, Returned
<1>3. /\ call[p].worker \in [Record(p) -> WorkerState]
      /\ \A r \in Record(p) : call[p].worker[r] \in {"none", "done"}
  BY Zenon DEF LogsIInv, CallInv, Typed, CallType, Goroutines
<1>4. call[p].worker \in [Record(p) -> {"none", "done"}]
  BY <1>3, Zenon
<1> QED BY <1>1, <1>2, <1>3, <1>4, Zenon DEF LogsIInv

LEMMA ResourcesStep ==
  \A p \in Push :
    LogsIInv /\ Resources(p) => LogsIInv'
<1> SUFFICES ASSUME LogsIInv, NEW p \in Push, Resources(p)
             PROVE  LogsIInv'
  BY Zenon
<1> DEFINE new == call[p].seen \ rfCache
<1>0. /\ call[p] \in CallType(p) /\ OnPush(call) /\ CallInv(p, "resources", call[p], stored[p])
      /\ pc[p] = "resources" /\ call[p].pending = {} /\ CachedResourceStored
      /\ Outcome(p, "resources", stored[p], dropped[p], metered[p])
  BY Zenon DEF LogsIInv, CallInv, Typed, Complete, Resources
<1>1. /\ Local(attempts, attempts', p) /\ attempts'[p] \in Nat /\ attempts'[p] <= MaxAttempts[p]
      /\ closing' = closing /\ db' = db /\ db
      /\ call[p].worker \in [Record(p) -> {"none", "done"}]
  BY <1>0, LateFrame, Zenon DEF Resources
<1>2. /\ Local(stored, stored', p) /\ Local(dropped, dropped', p) /\ Local(metered, metered', p)
      /\ stored' = stored /\ dropped' = dropped /\ metered' = metered /\ storedRes' = storedRes
      /\ limiter' = limiter
  BY LocalSame, Zenon DEF LogsIInv, Resources, result
<1>3. CASE /\ Prepares(p) /\ call' = [call EXCEPT ![p].resources = new, ![p].pending = Table]
           /\ rfCache' = rfCache \cup new /\ Goto(p, "send") /\ UNCHANGED resLost
  <2>d. PICK d : d = [call[p] EXCEPT !.resources = new, !.pending = Table]
    BY Zenon
  <2>1. Local(call, call', p) /\ call'[p] = d
    <3>1. call' = [call EXCEPT ![p] = d]
      BY <1>0, <1>3, <2>d, Zenon DEF CallType, OnPush
    <3> QED BY <1>0, <3>1, LocalExcept, Zenon
  <2>2. Local(pc, pc', p) /\ pc'[p] = "send"
    BY <1>3, LocalExcept, Zenon DEF Goto, LogsIInv
  <2>3. CallInv(p, pc'[p], call'[p], stored'[p])
    <3>1. ~call[p].expired /\ new \subseteq call[p].seen
      BY <1>3, Zenon DEF Prepares
    <3>2. CallInv(p, "send", [call[p] EXCEPT !.resources = new, !.pending = Table], stored[p])
      <4> HIDE DEF new
      <4> QED BY <1>0, <3>1, ResourcesInv, Zenon
    <3> QED BY <1>2, <2>d, <2>1, <2>2, <3>2, Zenon
  <2>4. d.worker = call[p].worker /\ d.pending = Table /\ d.resources = new
    BY <1>0, <2>d, Zenon DEF CallType
  <2>5. SlotStep(p)
    BY <1>2, <2>1, <2>4, SameWorkers, Zenon
  <2>6. CachedResourceStored'
    <3>1. \A f \in rfCache' \ rfCache : "resources" \in call'[p].pending /\ f \in call'[p].resources
      BY <1>3, <2>1, <2>4, Zenon DEF Table
    <3>2. \A q \in Push : q # p => call'[q] = call[q]
      BY <2>1, Zenon DEF Local
    <3>3. storedRes \subseteq storedRes' /\ resLost \subseteq resLost'
      BY <1>2, <1>3, Zenon
    <3> HIDE DEF new
    <3> QED BY <1>0, <3>1, <3>2, <3>3, CachedStay, Zenon
  <2>7. Outcome(p, pc'[p], stored'[p], dropped'[p], metered'[p])
    BY <1>0, <1>2, <2>2, Zenon DEF Outcome
  <2> QED BY <1>1, <1>2, <2>1, <2>2, <2>3, <2>5, <2>6, <2>7, CallStep, Zenon
<1>4. ASSUME Return(p, "err"), resLost \subseteq resLost', rfCache' \ rfCache \subseteq resLost'
      PROVE  LogsIInv'
  <2>1. Local(pc, pc', p) /\ pc'[p] = "err" /\ Local(call, call', p) /\ call'[p] = Gone(p, call[p].worker)
    <3>1. OnPush(pc) /\ OnPush(call)
      BY Zenon DEF LogsIInv
    <3>2. pc' = [pc EXCEPT ![p] = "err"] /\ call' = [call EXCEPT ![p] = Gone(p, call[p].worker)]
      BY <1>4, Zenon DEF Return, Goto, Gone
    <3> QED BY <3>1, <3>2, LocalExcept, Zenon
  <2>2. CallInv(p, pc'[p], call'[p], stored'[p])
    BY <1>1, <2>1, GoneInv, Zenon
  <2>3. SlotStep(p)
    <3>1. call'[p].worker = call[p].worker
      BY <2>1, Zenon DEF Gone, NewCall
    <3> QED BY <1>2, <3>1, SameWorkers, Zenon
  <2>4. CachedResourceStored'
    <3>1. \A q \in Push : q # p => call'[q] = call[q]
      BY <2>1, Zenon DEF Local
    <3> QED BY <1>0, <1>2, <1>4, <3>1, CachedStay, Zenon
  <2>5. Outcome(p, pc'[p], stored'[p], dropped'[p], metered'[p])
    BY <1>0, <1>2, <2>1, Zenon DEF Outcome
  <2>6. pc'[p] \in Returned \cup {"begin"}
    BY <2>1, Zenon DEF Returned
  <2> QED BY <1>1, <1>2, <2>1, <2>2, <2>3, <2>4, <2>5, <2>6, CallStep, Zenon
<1>5. CASE /\ \E done \in (SUBSET new) \ {new} :
                  rfCache' = rfCache \cup done /\ resLost' = resLost \cup done
           /\ Return(p, "err")
  BY <1>4, <1>5, Zenon
<1>6. CASE Return(p, "err") /\ UNCHANGED <<rfCache, resLost>>
  BY <1>4, <1>6, Zenon
<1> QED BY <1>3, <1>5, <1>6, Zenon DEF Resources

LEMMA SendStep ==
  \A p \in Push, t \in Table :
    LogsIInv /\ Send(p, t) => LogsIInv'
<1> SUFFICES ASSUME LogsIInv, NEW p \in Push, NEW t \in Table, Send(p, t)
             PROVE  LogsIInv'
  BY Zenon
<1> DEFINE Sent(c) == [c EXCEPT !.pending = @ \ {t}]
           Refused(c, e) == [c EXCEPT !.pending = @ \ {t}, !.sendErr = @ \cup {e}]
           st == IF t = "logs" THEN stored[p] \cup call[p].appended ELSE stored[p]
<1>0. /\ call[p] \in CallType(p) /\ OnPush(call) /\ OnPush(stored) /\ CallInv(p, "send", call[p], stored[p])
      /\ pc[p] = "send" /\ CachedResourceStored
      /\ Outcome(p, "send", stored[p], dropped[p], metered[p])
  BY Zenon DEF LogsIInv, CallInv, Typed, Send
<1>1. /\ Local(attempts, attempts', p) /\ attempts'[p] \in Nat /\ attempts'[p] <= MaxAttempts[p]
      /\ closing' = closing /\ db' = db /\ db
  BY <1>0, LateFrame, Zenon DEF Send
<1>2. /\ Local(pc, pc', p) /\ Local(dropped, dropped', p) /\ Local(metered, metered', p)
      /\ pc' = pc /\ dropped' = dropped /\ metered' = metered /\ limiter' = limiter /\ rfCache' = rfCache
  BY LocalSame, Zenon DEF LogsIInv, Send, result
<1>3. ASSUME NEW d, call' = [call EXCEPT ![p] = d], d.worker = call[p].worker, d.resources = call[p].resources,
             d.pending = call[p].pending \ {t}, Local(stored, stored', p), stored'[p] \in SUBSET Record(p),
             CallInv(p, "send", d, stored'[p]), storedRes \subseteq storedRes', resLost \subseteq resLost',
             t = "resources" => call[p].resources \subseteq storedRes' \cup resLost'
      PROVE  LogsIInv'
  <2>0. OnPush(call) /\ call' = [call EXCEPT ![p] = d]
    BY <1>0, <1>3, Zenon
  <2>1. Local(call, call', p) /\ call'[p] = d
    BY <2>0, LocalExcept, Zenon
  <2>2. CallInv(p, pc'[p], call'[p], stored'[p])
    BY <1>0, <1>2, <1>3, <2>1, Zenon
  <2>3. SlotStep(p)
    BY <1>2, <1>3, <2>1, SameWorkers, Zenon
  <2>4. CachedResourceStored'
    <3>1. \A q \in Push : q # p => call'[q] = call[q]
      BY <2>1, Zenon DEF Local
    <3>2. "resources" \in call[p].pending =>
            \/ "resources" \in call'[p].pending /\ call'[p].resources = call[p].resources
            \/ call[p].resources \subseteq storedRes' \cup resLost'
      BY <1>3, <2>1, Zenon
    <3> QED BY <1>0, <1>2, <1>3, <3>1, <3>2, CachedStay, Zenon
  <2>5. Outcome(p, pc'[p], stored'[p], dropped'[p], metered'[p])
    BY <1>0, <1>2, <1>3, Zenon DEF Outcome
  <2> QED BY <1>1, <1>2, <1>3, <2>1, <2>2, <2>3, <2>4, <2>5, CallStep, Zenon
<1>4. CASE /\ call' = [call EXCEPT ![p].pending = @ \ {t}]
           /\ stored' = (IF t = "logs" THEN [stored EXCEPT ![p] = @ \cup call[p].appended] ELSE stored)
           /\ storedRes' = (IF t = "resources" THEN storedRes \cup call[p].resources ELSE storedRes)
           /\ UNCHANGED resLost
  <2>1. call' = [call EXCEPT ![p] = Sent(call[p])]
    BY <1>0, <1>4, Zenon DEF CallType, OnPush
  <2>2. /\ Sent(call[p]).worker = call[p].worker /\ Sent(call[p]).resources = call[p].resources
        /\ Sent(call[p]).pending = call[p].pending \ {t}
    BY <1>0, Zenon DEF CallType
  <2>3. Local(stored, stored', p) /\ stored'[p] = st
    <3>1. CASE t = "logs"
      <4>1. OnPush(stored) /\ stored' = [stored EXCEPT ![p] = st]
        BY <1>0, <1>4, <3>1, Zenon
      <4> QED BY <4>1, LocalExcept, Zenon
    <3>2. CASE t # "logs"
      BY <1>0, <1>4, <3>2, LocalSame, Zenon
    <3> QED BY <3>1, <3>2, Zenon
  <2>4. st \in SUBSET Record(p)
    BY <1>0, Zenon DEF CallType, Outcome
  <2>5. CallInv(p, "send", Sent(call[p]), st)
    BY <1>0, SendInv, Zenon
  <2>6. /\ storedRes \subseteq storedRes' /\ resLost \subseteq resLost'
        /\ t = "resources" => call[p].resources \subseteq storedRes' \cup resLost'
    BY <1>4, Zenon
  <2> HIDE DEF Sent, st
  <2> QED BY <1>3, <2>1, <2>2, <2>3, <2>4, <2>5, <2>6, Zenon
<1>5. ASSUME NEW e \in {"error", "code 252"},
             call' = [call EXCEPT ![p].pending = @ \ {t}, ![p].sendErr = @ \cup {e}],
             resLost' = (IF t = "resources" THEN resLost \cup call[p].resources ELSE resLost),
             UNCHANGED <<stored, storedRes>>
      PROVE  LogsIInv'
  <2>1. call' = [call EXCEPT ![p] = Refused(call[p], e)]
    BY <1>0, <1>5, Zenon DEF CallType, OnPush
  <2>2. /\ Refused(call[p], e).worker = call[p].worker /\ Refused(call[p], e).resources = call[p].resources
        /\ Refused(call[p], e).pending = call[p].pending \ {t}
    BY <1>0, Zenon DEF CallType
  <2>3. Local(stored, stored', p) /\ stored' = stored
    BY <1>0, <1>5, LocalSame, Zenon
  <2>4. stored[p] \in SUBSET Record(p)
    BY <1>0, Zenon DEF Outcome
  <2>5. CallInv(p, "send", Refused(call[p], e), stored[p])
    BY <1>0, SendInv, Zenon
  <2>6. /\ storedRes \subseteq storedRes' /\ resLost \subseteq resLost'
        /\ t = "resources" => call[p].resources \subseteq storedRes' \cup resLost'
    BY <1>5, Zenon
  <2> HIDE DEF Refused
  <2> QED BY <1>3, <2>1, <2>2, <2>3, <2>4, <2>5, <2>6, Zenon
<1> QED BY <1>4, <1>5, Zenon DEF Send

LEMMA FinishStep ==
  \A p \in Push :
    LogsIInv /\ Finish(p) => LogsIInv'
<1> SUFFICES ASSUME LogsIInv, NEW p \in Push, Finish(p)
             PROVE  LogsIInv'
  BY Zenon
<1>0. /\ CallInv(p, "send", call[p], stored[p]) /\ pc[p] = "send" /\ call[p].pending = {}
      /\ CachedResourceStored /\ Outcome(p, "send", stored[p], dropped[p], metered[p])
      /\ OnPush(pc) /\ OnPush(call) /\ OnPush(stored) /\ OnPush(dropped) /\ OnPush(metered)
  BY Zenon DEF LogsIInv, Finish
<1>1. /\ Local(attempts, attempts', p) /\ attempts'[p] \in Nat /\ attempts'[p] <= MaxAttempts[p]
      /\ closing' = closing /\ db' = db /\ db
      /\ call[p].worker \in [Record(p) -> {"none", "done"}]
  BY <1>0, LateFrame, Zenon DEF Finish
<1>2. /\ Local(stored, stored', p) /\ stored' = stored /\ storedRes' = storedRes /\ resLost' = resLost
      /\ limiter' = limiter /\ rfCache' = rfCache
  BY <1>0, LocalSame, Zenon DEF Finish, store
<1>3. ASSUME NEW l \in {"ok", "err"}, Return(p, l), Local(dropped, dropped', p), Local(metered, metered', p),
             Outcome(p, l, stored[p], dropped'[p], metered'[p])
      PROVE  LogsIInv'
  <2>1. Local(pc, pc', p) /\ pc'[p] = l /\ Local(call, call', p) /\ call'[p] = Gone(p, call[p].worker)
    <3>1. OnPush(pc) /\ OnPush(call) /\ pc' = [pc EXCEPT ![p] = l]
      BY <1>0, <1>3, Zenon DEF Return, Goto
    <3>2. call' = [call EXCEPT ![p] = Gone(p, call[p].worker)]
      BY <1>3, Zenon DEF Return, Gone
    <3>3. Local(pc, pc', p) /\ pc'[p] = l
      BY <3>1, LocalExcept, Zenon
    <3>4. Local(call, call', p) /\ call'[p] = Gone(p, call[p].worker)
      BY <3>1, <3>2, LocalExcept, Zenon
    <3> QED BY <3>3, <3>4, Zenon
  <2>2. CallInv(p, pc'[p], call'[p], stored'[p])
    BY <1>1, <2>1, GoneInv, Zenon
  <2>3. SlotStep(p)
    <3>1. call'[p].worker = call[p].worker
      BY <2>1, Zenon DEF Gone, NewCall
    <3> QED BY <1>2, <3>1, SameWorkers, Zenon
  <2>4. CachedResourceStored'
    <3>1. \A q \in Push : q # p => call'[q] = call[q]
      BY <2>1, Zenon DEF Local
    <3> QED BY <1>0, <1>2, <3>1, CachedStay, Zenon
  <2>5. Outcome(p, pc'[p], stored'[p], dropped'[p], metered'[p])
    BY <1>2, <1>3, <2>1, Zenon
  <2> QED BY <1>1, <1>2, <1>3, <2>1, <2>2, <2>3, <2>4, <2>5, CallStep, Zenon
<1>4. stored[p] \in SUBSET Record(p) /\ dropped[p] = FALSE /\ metered[p] = 0
  BY <1>0, Zenon DEF Outcome
<1>5. CASE /\ call[p].sendErr = {} /\ Return(p, "ok") /\ UNCHANGED dropped
           /\ metered' = [metered EXCEPT ![p] = @ + Cardinality(call[p].appended)]
  <2>1. call[p].appended = Eligible(p) /\ Eligible(p) \subseteq stored[p]
    BY <1>0, <1>5, Zenon DEF CallInv, Flow, Complete
  <2>2. Local(metered, metered', p) /\ metered'[p] = metered[p] + Cardinality(Eligible(p))
    <3>1. PICK n : n = metered[p] + Cardinality(Eligible(p))
      BY Zenon
    <3>2. metered' = [metered EXCEPT ![p] = n]
      BY <1>5, <2>1, <3>1, Zenon
    <3>3. Local(metered, metered', p) /\ metered'[p] = n
      BY <1>0, <3>2, LocalExcept, Zenon
    <3> QED BY <3>1, <3>3, Zenon
  <2>3. Local(dropped, dropped', p) /\ dropped' = dropped
    BY <1>0, <1>5, LocalSame, Zenon
  <2>4. metered'[p] = Cardinality(Eligible(p))
    <3>1. PICK n \in Nat : n = Cardinality(Eligible(p))
      BY EligibleFinite, Zenon
    <3>2. metered'[p] = 0 + n
      BY <1>4, <2>2, <3>1, Zenon
    <3> QED BY <3>1, <3>2
  <2>5. Outcome(p, "ok", stored[p], dropped'[p], metered'[p])
    BY <1>4, <2>1, <2>3, <2>4, Zenon DEF Outcome
  <2> QED BY <1>3, <1>5, <2>2, <2>3, <2>5, Zenon
<1>6. CASE Return(p, "ok") /\ dropped' = [dropped EXCEPT ![p] = TRUE] /\ UNCHANGED metered
  <2>1. Local(dropped, dropped', p) /\ dropped'[p] = TRUE
    BY <1>0, <1>6, LocalExcept, Zenon
  <2>2. Local(metered, metered', p) /\ metered' = metered
    BY <1>0, <1>6, LocalSame, Zenon
  <2>3. Outcome(p, "ok", stored[p], dropped'[p], metered'[p])
    BY <1>4, <2>1, <2>2, Zenon DEF Outcome
  <2> QED BY <1>3, <1>6, <2>1, <2>2, <2>3, Zenon
<1>7. CASE Return(p, "err") /\ UNCHANGED result
  <2>1. Local(dropped, dropped', p) /\ Local(metered, metered', p) /\ dropped' = dropped /\ metered' = metered
    BY <1>0, <1>7, LocalSame, Zenon DEF result
  <2>2. Outcome(p, "err", stored[p], dropped'[p], metered'[p])
    BY <1>4, <2>1, Zenon DEF Outcome
  <2> QED BY <1>3, <1>7, <2>1, <2>2, Zenon
<1> QED BY <1>5, <1>6, <1>7, Zenon DEF Finish

\* A step of Shutdown, or of nobody: the calls stay as they are.
LEMMA CallsSame ==
  /\ LogsIInv /\ UNCHANGED <<pc, attempts, call, limiter, rfCache, store, result>>
  /\ closing' \in BOOLEAN /\ db' \in BOOLEAN
  /\ ~db' => closing'
  /\ ~db' => \A p \in Push : pc[p] \in Returned \cup {"begin"}
  => LogsIInv'
<1> SUFFICES ASSUME LogsIInv, UNCHANGED <<pc, attempts, call, limiter, rfCache, store, result>>,
                    closing' \in BOOLEAN, db' \in BOOLEAN, ~db' => closing',
                    ~db' => \A p \in Push : pc[p] \in Returned \cup {"begin"}
             PROVE  LogsIInv'
  BY Zenon
<1>1. /\ stored' = stored /\ storedRes' = storedRes /\ resLost' = resLost
      /\ dropped' = dropped /\ metered' = metered
  BY Zenon DEF store, result
<1>2. Held' = Held /\ CachedResourceStored'
  <2>1. Held' = Held
    BY DEF Held, Streaming
  <2>2. CachedResourceStored
    BY Zenon DEF LogsIInv
  <2> QED BY <1>1, <2>1, <2>2, Zenon DEF CachedResourceStored
<1>3. DbOpenWhileUsed'
  BY Zenon DEF DbOpenWhileUsed
<1> QED BY <1>1, <1>2, <1>3, Zenon DEF LogsIInv

LEMMA LogsInit == Init => LogsIInv
<1> SUFFICES ASSUME Init PROVE LogsIInv
  BY Zenon
<1>1. /\ OnPush(pc) /\ OnPush(attempts) /\ OnPush(call)
      /\ OnPush(stored) /\ OnPush(dropped) /\ OnPush(metered)
  BY Zenon DEF Init, OnPush
<1>2. \A p \in Push : /\ pc[p] = "idle" /\ attempts[p] = 0 /\ call[p] = NewCall(p) /\ stored[p] = {}
                      /\ dropped[p] = FALSE /\ metered[p] = 0
  BY Zenon DEF Init
<1>3. \A p \in Push : attempts[p] \in Nat /\ attempts[p] <= MaxAttempts[p]
  BY <1>2, LogsAssumption
<1>4. \A p \in Push : CallInv(p, pc[p], call[p], stored[p])
  BY <1>2, NewCallInv, Zenon
<1>5. \A p \in Push : Outcome(p, pc[p], stored[p], dropped[p], metered[p])
  BY <1>2, Zenon DEF Outcome
<1>6. Held = {}
  <2>1. \A p \in Push : \A r \in Record(p) : call[p].worker[r] = "none"
    <3>1. \A p \in Push : NewCall(p).worker = [r \in Record(p) |-> "none"]
      BY Zenon DEF NewCall
    <3>2. \A p \in Push : call[p].worker = [r \in Record(p) |-> "none"]
      BY <1>2, <3>1, Zenon
    <3> QED BY <3>2, Zenon
  <2>2. \A p \in Push : Streaming(p) = {}
    BY <2>1, Zenon DEF Streaming
  <2> QED BY <2>2, Zenon DEF Held
<1>7. IsFiniteSet(Held) /\ limiter = Cardinality(Held) /\ limiter <= Limit
  BY <1>6, FS_EmptySet, LogsAssumption DEF Init
<1>8. DbOpenWhileUsed /\ CachedResourceStored
  BY Zenon DEF Init, DbOpenWhileUsed, CachedResourceStored
<1> QED BY <1>1, <1>3, <1>4, <1>5, <1>7, <1>8, Zenon DEF LogsIInv, Init

LEMMA LogsNext == LogsIInv /\ [Next]_vars => LogsIInv'
<1> SUFFICES ASSUME LogsIInv, [Next]_vars PROVE LogsIInv'
  BY Zenon
<1>1. ASSUME NEW p \in Push, Begin(p) \/ Expire(p) PROVE LogsIInv'
  BY <1>1, BeginStep, ExpireStep, Zenon
<1>2. ASSUME NEW p \in Push, Caller(p) PROVE LogsIInv'
  BY <1>2, CheckClosedStep, PrepareStep, SpawnStep, EndLoopStep, GroupWaitStep, ResourcesStep,
     SendStep, FinishStep, Zenon DEF Caller
<1>3. ASSUME NEW p \in Push, Worker(p) PROVE LogsIInv'
  BY <1>3, WorkStep, WorkerFailsStep, StreamRecordStep, Zenon DEF Worker
<1>4. ASSUME NEW p \in Push, CloseStream(p) \/ Consumer(p) PROVE LogsIInv'
  BY <1>4, CloseStreamStep, ConsumeStep, ConsumerEndsStep, Zenon DEF Consumer
<1>5. CASE ShutdownBegins
  BY <1>5, CallsSame, Zenon DEF ShutdownBegins, LogsIInv
<1>6. CASE ShutdownEnds
  BY <1>6, CallsSame, Zenon DEF ShutdownEnds
<1>7. CASE UNCHANGED vars
  BY <1>7, CallsSame, Zenon DEF vars, LogsIInv, DbOpenWhileUsed
<1>8. CASE Finished
  BY <1>7, <1>8, Zenon DEF Finished
<1> QED BY <1>1, <1>2, <1>3, <1>4, <1>5, <1>6, <1>7, <1>8, Zenon DEF Next

LEMMA LogsInvariant == Spec => []LogsIInv
BY LogsInit, LogsNext, PTL DEF Spec

-----------------------------------------------------------------------------
(* The theorems *)

\* In every behaviour of any number of concurrent calls of pushLogsData and one Shutdown,
\* nobody sends on a closed recordStream, every slot of e.limiter in use belongs to a
\* worker that runs, no worker outlives its call, and the connection is open while used.
THEOREM SharedStateSafe == Spec => []LogsInv
<1>1. LogsIInv => LogsInv
  <2> SUFFICES ASSUME LogsIInv PROVE LogsInv
    BY Zenon
  <2>1. \A p \in Push : Typed(p, pc[p], call[p]) /\ Goroutines(p, pc[p], call[p])
    BY Zenon DEF LogsIInv, CallInv
  <2>2. Cardinality(Held) \in Nat
    BY FS_CardinalityType, Zenon DEF LogsIInv
  <2>3. limiter \in 0 .. Limit
    BY <2>2, LogsAssumption DEF LogsIInv
  <2>4. NoSendOnClosed
    BY <2>1, Zenon DEF NoSendOnClosed, Streaming, Goroutines
  <2>5. SlotsAreOwned
    BY <2>1, Zenon DEF SlotsAreOwned, Held, LogsIInv, Running, Goroutines, Returned
  <2>6. pc \in [Push -> Returned \cup {"begin", "prepare", "loop", "wait", "resources", "send"}]
    BY <2>1, Zenon DEF LogsIInv, OnPush, Typed, Labels
  <2>7. \A p \in Push : attempts[p] \in 0 .. MaxAttempts[p]
    BY LogsAssumption DEF LogsIInv
  <2>8. ASSUME NEW p \in Push
        PROVE  /\ DOMAIN call[p] = DOMAIN NewCall(p)
               /\ call[p].next \in 1 .. Len(Batch[p]) + 1
               /\ call[p].worker \in [Record(p) -> {"none", "work", "send", "fail", "done"}]
               /\ Len(call[p].stream) <= Limit
               /\ \A i \in DOMAIN call[p].stream : call[p].stream[i] \in Record(p)
               /\ call[p].appended \subseteq Record(p)
               /\ call[p].resources \subseteq call[p].seen /\ call[p].pending \subseteq Table
               /\ call[p].sendErr \subseteq {"error", "code 252"}
               /\ {call[p].closed, call[p].consumer, call[p].expired, call[p].cancelled,
                   call[p].groupErr} \subseteq BOOLEAN
    <3>1. call[p] \in CallType(p) /\ Len(call[p].stream) <= Limit /\ call[p].resources \subseteq call[p].seen
      BY <2>1, Zenon DEF Typed
    <3>2. DOMAIN call[p] = DOMAIN NewCall(p)
      BY <3>1, Zenon DEF CallType, NewCall
    <3>3. /\ call[p].next \in 1 .. Len(Batch[p]) + 1 /\ call[p].stream \in Seq(Record(p))
          /\ call[p].worker \in [Record(p) -> {"none", "work", "send", "fail", "done"}]
      BY <3>1, Zenon DEF CallType, WorkerState
    <3>4. /\ call[p].appended \subseteq Record(p) /\ call[p].pending \subseteq Table
          /\ call[p].sendErr \subseteq {"error", "code 252"}
      BY <3>1, Zenon DEF CallType
    <3>5. {call[p].closed, call[p].consumer, call[p].expired, call[p].cancelled,
           call[p].groupErr} \subseteq BOOLEAN
      BY <3>1, Zenon DEF CallType
    <3>6. \A i \in DOMAIN call[p].stream : call[p].stream[i] \in Record(p)
      BY <3>3
    <3> QED BY <3>1, <3>2, <3>3, <3>4, <3>5, <3>6, Zenon
  <2>9. \A p \in Push : stored[p] \subseteq Record(p) /\ metered[p] \in Nat /\ dropped[p] \in BOOLEAN
    <3>1. SUFFICES ASSUME NEW p \in Push
                   PROVE  stored[p] \subseteq Record(p) /\ metered[p] \in Nat /\ dropped[p] \in BOOLEAN
      BY Zenon
    <3>2. Outcome(p, pc[p], stored[p], dropped[p], metered[p])
      BY Zenon DEF LogsIInv
    <3> QED BY <3>2, EligibleFinite DEF Outcome
  <2>10. TypeOK
    BY <2>3, <2>6, <2>7, <2>8, <2>9, Zenon DEF TypeOK, LogsIInv
  <2> QED BY <2>4, <2>5, <2>10, Zenon DEF LogsInv, LogsIInv
<1> QED BY <1>1, LogsInvariant, PTL

\* A call of pushLogsData that returns nil has inserted every record of its batch that is
\* young enough, unless the datastore refused it with code 252.
THEOREM AckedLogsAreStored == Spec => []AckedLogsStored
<1>1. LogsIInv => AckedLogsStored
  BY Zenon DEF LogsIInv, Outcome, AckedLogsStored
<1> QED BY <1>1, LogsInvariant, PTL

\* The usage counters hold exactly the records of the acknowledged batches, however often
\* a batch was retried.
THEOREM LogsMeteredOnce == Spec => []MeteredOnce
<1>1. LogsIInv => MeteredOnce
  BY Zenon DEF LogsIInv, Outcome, MeteredOnce
<1> QED BY <1>1, LogsInvariant, PTL

\* A fingerprint in rfCache is in the resources table, or in the batch of a call that has
\* yet to send it, or was lost by an append or a send that failed.
THEOREM CachedResourcesKept == Spec => []CachedResourceStored
<1>1. LogsIInv => CachedResourceStored
  BY Zenon DEF LogsIInv
<1> QED BY <1>1, LogsInvariant, PTL
=============================================================================
