--------------------------- MODULE SchemaOperations ---------------------------
(***************************************************************************)
(* The kinds of schema operations, by what the migration commands ask of   *)
(* them: whether an operation is a mutation, idempotent, lightweight, or   *)
(* forced to run synchronously.  Its SQL is left out.                      *)
(***************************************************************************)
EXTENDS Naturals, Sequences

Operation == [mutation : BOOLEAN, idempotent : BOOLEAN, lightweight : BOOLEAN,
              force : BOOLEAN]

Metadata == [mutation |-> FALSE, idempotent |-> TRUE, lightweight |-> TRUE,
             force |-> FALSE]

CreateTable == Metadata
DropTable == [Metadata EXCEPT !.mutation = TRUE]
CreateMaterializedView == Metadata
ModifyQueryMaterializedView == Metadata
TruncateTable == [Metadata EXCEPT !.mutation = TRUE, !.lightweight = FALSE]
ModifyTTL(materialize) ==
  [Metadata EXCEPT !.mutation = materialize, !.lightweight = ~materialize]
DropTTL == Metadata
ModifySettings == Metadata
AddColumn == Metadata
DropColumn == [Metadata EXCEPT !.mutation = TRUE]
ModifyColumn(rewrites) ==       \* its type or its TTL is changed
  [Metadata EXCEPT !.mutation = rewrites, !.lightweight = rewrites]
ModifyColumnRemove == [Metadata EXCEPT !.idempotent = FALSE]
ModifyColumnModifySettings == Metadata
ModifyColumnResetSettings == Metadata
MaterializeColumn == [Metadata EXCEPT !.mutation = TRUE, !.lightweight = FALSE]
AddIndex == Metadata
DropIndex == [Metadata EXCEPT !.mutation = TRUE]
MaterializeIndex == [Metadata EXCEPT !.mutation = TRUE, !.lightweight = FALSE]
ClearIndex == [Metadata EXCEPT !.mutation = TRUE, !.lightweight = FALSE]
CreateProjection == Metadata
DropProjection == Metadata
InsertIntoTable(light, synchronous) ==
  [Metadata EXCEPT !.idempotent = FALSE, !.lightweight = light, !.force = synchronous]

IsSyncOperation(op) ==
  op.force \/ (~op.mutation /\ op.idempotent /\ op.lightweight)

IsAsyncOperation(op) ==
  ~op.force /\ ~(~op.mutation /\ op.idempotent /\ op.lightweight)

\* A migration is the sequence of the operations that apply it.
IsSync(items) == \E i \in DOMAIN items : IsSyncOperation(items[i])
IsAsync(items) == \E i \in DOMAIN items : IsAsyncOperation(items[i])
=============================================================================
