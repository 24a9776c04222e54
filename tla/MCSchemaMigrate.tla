---------------------------- MODULE MCSchemaMigrate ----------------------------
(* Instances of SchemaMigrate and SchemaRollout for TLC. *)
EXTENDS SchemaMigrate, SchemaRollout, TLC

Modes == [x \in Up \cup Checker |-> IF x \in {"async", "checkAsync"} THEN "async" ELSE "sync"]

\* The shape of the lists in the code: one database has squashed migrations and
\* migrations of both modes, the other sync migrations only.
Operations == "base" :> <<CreateTable>>
           @@ "columns" :> <<AddColumn, AddIndex>>
           @@ "drop" :> <<DropColumn>>
           @@ "view" :> <<CreateMaterializedView>>
           @@ "meta" :> <<InsertIntoTable(TRUE, TRUE)>>
MainLists == "traces" :> <<"columns", "drop">> @@ "metadata" :> <<"meta", "view">>
SquashedLists == "traces" :> <<"base">>
Visit == <<"traces", "metadata">>

-----------------------------------------------------------------------------
\* The commands, and the rollout of the tables, each on its own: one of them,
\* chosen in the initial state, runs.
VARIABLE part

migrateVars == <<vars, rollout, part>>

\* No rollout: no tables, and nothing left to do.
NoRollout ==
  /\ start = "metadata" /\ schema = Empty /\ status = << >>
  /\ at = 0 /\ mode = "sync" /\ upItem = 1 /\ down = 1 /\ way = "sync" /\ undone = 0

MigrateInit ==
  /\ Init /\ part \in {"commands", "rollout"}
  /\ IF part = "rollout" THEN RolloutInit ELSE NoRollout

MigrateNext ==
  /\ UNCHANGED part
  /\ \/ part = "commands" /\ Next /\ UNCHANGED rollout
     \/ part = "rollout" /\ RolloutNext /\ UNCHANGED vars

\* The fairness of FairSpec; no behaviour of a rollout alone has it.
MigrateSpec ==
  /\ MigrateInit /\ [][MigrateNext]_migrateVars
  /\ (\A u \in Up : WF_vars(Step(u))) /\ WF_vars(MutationDone)

AllInstallations == DOMAIN Lists
=============================================================================
