---------------------------- MODULE MCLogsExporter ----------------------------
(* Instances of LogsExporter for TLC. *)
EXTENDS LogsExporter, TLC

CONSTANTS p1, p2

Rec(k, r) == [kind |-> k, res |-> r]

\* Two batches that share a resource.
Shared == p1 :> <<Rec("ok", "a"), Rec("ok", "b")>> @@ p2 :> <<Rec("ok", "a")>>

\* Two batches, with a record whose body is refused and records that are too old, as
\* many as there are slots to lose.
Mixed == p1 :> <<Rec("ok", "a"), Rec("bad", "b")>> @@ p2 :> <<Rec("old", "a"), Rec("old", "a")>>

\* One batch of more records than the limiter has slots.
Large == p1 :> <<Rec("ok", "a"), Rec("ok", "a"), Rec("ok", "a")>>

RetryFirst == p1 :> 2 @@ p2 :> 1
Once == p1 :> 1
OnceEach == p1 :> 1 @@ p2 :> 1
=============================================================================
