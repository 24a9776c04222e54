----------------------------- MODULE SchemaMigrate -----------------------------
(***************************************************************************)
(* The commands "migrate sync up", "migrate async up", "migrate sync check"*)
(* and "migrate async check" of the collector, run by any number of        *)
(* processes at the same time, killed and started again at any moment,     *)
(* against one datastore.  A command applies the migrations of its mode, in*)
(* the order of the lists, operation by operation, and records each        *)
(* migration as Finished or Failed in the table schema_migrations_v2; a    *)
(* check looks at the last migration of its mode in every database.        *)
(***************************************************************************)
EXTENDS SchemaOperations, FiniteSets

CONSTANTS Up,         \* processes that run "up"
          Checker,    \* processes that run "check"
          Mode,       \* Mode[x]: "sync" or "async", for each process
          DB,         \* databases with migrations
          Order,      \* the sequence of DB in which the commands visit them
          Migration,  \* migrations of all databases
          Items,      \* Items[m]: UpItems
          Main,       \* Main[d]: sequence of the migrations of d
          Squashed,   \* Squashed[d]: sequence of the squashed ones, for some d
          Legacy,     \* databases with a table of the legacy migrations
          LastAsync,  \* databases after which an async check ends (see CheckDB)
          Shard,      \* shards of schema_migrations_v2
          MaxFailures   \* bound: failures of the datastore, timeouts and crashes

Selected(mode, m) == IF mode = "sync" THEN IsSync(Items[m]) ELSE IsAsync(Items[m])

\* Every migration has operations, all of them sync or all of them async, and is
\* once in the lists; a database the async check ends at, because it has async
\* migrations, is the last that has.  All true of the lists in the code.
ASSUME ListsAssumption ==
  /\ Order \in Seq(DB) /\ Len(Order) > 0
  /\ \A d \in DB : \E k \in DOMAIN Order : Order[k] = d
  /\ Main \in [DB -> Seq(Migration)]
  /\ DOMAIN Squashed \subseteq DB /\ Squashed \in [DOMAIN Squashed -> Seq(Migration)]
  /\ Mode \in [Up \cup Checker -> {"sync", "async"}] /\ MaxFailures \in Nat

ASSUME ItemsAssumption ==
  /\ Items \in [Migration -> Seq(Operation)]
  /\ \A m \in Migration : Len(Items[m]) > 0 /\ IsSync(Items[m]) # IsAsync(Items[m])

ASSUME OnceAssumption ==
  /\ \A d, e \in DB : \A i \in DOMAIN Main[d], j \in DOMAIN Main[e] :
       Main[d][i] = Main[e][j] => d = e /\ i = j
  /\ \A d, e \in DOMAIN Squashed : \A i \in DOMAIN Squashed[d], j \in DOMAIN Squashed[e] :
       Squashed[d][i] = Squashed[e][j] => d = e /\ i = j
  /\ \A d \in DB, e \in DOMAIN Squashed :
       \A i \in DOMAIN Main[d], j \in DOMAIN Squashed[e] : Main[d][i] # Squashed[e][j]

ASSUME LastAsyncAssumption ==
  \A j, k \in DOMAIN Order : j < k /\ Order[j] \in LastAsync =>
    \/ \A h \in DOMAIN Main[Order[j]] : ~IsAsync(Items[Main[Order[j]][h]])
    \/ \A i \in DOMAIN Main[Order[k]] : ~IsAsync(Items[Main[Order[k]][i]])

VARIABLES
  pc,      \* pc[u]: where the up command is
  squash,  \* squash[u]: databases whose squashed migrations are still to be looked at
  cur,     \* cur[u]: the database of the squashed migrations being run
  phase,   \* phase[u]: 0 for squashed migrations, k for those of Order[k]
  pos,     \* pos[u]: the migration of the list the command is at
  item,    \* item[u]: the operation of the migration the command is at
  cpc,     \* cpc[c]: where the check command is
  cpos,    \* cpos[c]: the database the check command is at
  rows,    \* rows[m][s]: status of m on shard s, "none" without a row
  done,    \* operations executed, as <<migration, number>>
  busy,    \* a mutation is running
  failures \* failures so far

local == <<pc, squash, cur, phase, pos, item>>
check == <<cpc, cpos>>
vars == <<local, check, rows, done, busy, failures>>

SquashedDB == DOMAIN Squashed
Current(u) == IF phase[u] = 0 THEN Squashed[cur[u]] ELSE Main[Order[phase[u]]]
At(u) == Current(u)[pos[u]]
Failure == failures < MaxFailures /\ failures' = failures + 1
Works == UNCHANGED failures
Goto(u, l) == pc' = [pc EXCEPT ![u] = l]

\* The command, or one attempt of it, ends; its variables are gone.
End(u, l) ==
  /\ Goto(u, l)
  /\ squash' = [squash EXCEPT ![u] = {}] /\ cur' = [cur EXCEPT ![u] = Order[1]]
  /\ phase' = [phase EXCEPT ![u] = 0]
  /\ pos' = [pos EXCEPT ![u] = 1] /\ item' = [item EXCEPT ![u] = 1]

Init ==
  /\ pc = [u \in Up |-> "down"] /\ squash = [u \in Up |-> {}]
  /\ cur = [u \in Up |-> Order[1]]
  /\ phase = [u \in Up |-> 0] /\ pos = [u \in Up |-> 1] /\ item = [u \in Up |-> 1]
  /\ cpc = [c \in Checker |-> "down"] /\ cpos = [c \in Checker |-> 1]
  /\ rows = [m \in Migration |-> [s \in Shard |-> "none"]]
  /\ done = {} /\ busy = FALSE /\ failures = 0

-----------------------------------------------------------------------------
(* The table of migrations *)

\* InsertMigrationEntry: the row goes to some shard (the table is sharded by
\* rand()) and replaces the migration's row there.
InsertMigrationEntry(m, status) ==
  \E s \in Shard : rows' = [rows EXCEPT ![m][s] = status]

\* CheckMigrationStatus reads one of the rows: "final" merges rows of a shard only.
Statuses(m) ==
  LET found == {rows[m][s] : s \in Shard} \ {"none"}
  IN  IF found = {} THEN {"none"} ELSE found

-----------------------------------------------------------------------------
(* sync up and async up *)

\* A command is started, or started again, and begins with the squashed migrations.
Start(u) ==
  /\ pc[u] \in {"down", "ok", "error", "backoff"}
  /\ Goto(u, "squash")
  /\ squash' = [squash EXCEPT ![u] = SquashedDB]
  /\ Works /\ UNCHANGED <<cur, phase, pos, item, check, rows, done, busy>>

\* Run gives up retrying when its timeout has passed.
TimesOut(u) ==
  /\ pc[u] = "backoff" /\ Goto(u, "error")
  /\ Works /\ UNCHANGED <<squash, cur, phase, pos, item, check, rows, done, busy>>

BeginList(u, k) ==
  /\ Goto(u, "check")
  /\ phase' = [phase EXCEPT ![u] = k] /\ pos' = [pos EXCEPT ![u] = 1]

NextSquashed_Skips(u) ==
  /\ pc[u] = "squash"
  /\ BeginList(u, 1) /\ Works
  /\ UNCHANGED <<squash, cur, item, check, rows, done, busy>>

\* runSquashedMigrations: the databases are visited in no particular order (a
\* Go map), and the first that has a legacy table ends it.
NextSquashed(u) ==
  /\ pc[u] = "squash"
  /\ \/ /\ squash[u] \cap Legacy # {} \/ squash[u] = {}
        /\ BeginList(u, 1) /\ Works /\ UNCHANGED <<squash, cur, item>>
     \/ \E d \in squash[u] \ Legacy :
          /\ BeginList(u, 0) /\ Works
          /\ cur' = [cur EXCEPT ![u] = d]
          /\ squash' = [squash EXCEPT ![u] = @ \ {d}]
          /\ UNCHANGED item
     \/ squash[u] # {} /\ Failure /\ End(u, "backoff")
  /\ UNCHANGED <<check, rows, done, busy>>

Advance(u) ==
  /\ Goto(u, "check")
  /\ pos' = [pos EXCEPT ![u] = @ + 1] /\ item' = [item EXCEPT ![u] = 1]
  /\ UNCHANGED <<squash, cur, phase>>

CheckStatus_PassesFailed(u) ==
  LET passed == "Finished" \in Statuses(At(u)) \/ (phase[u] # 0 /\ "Failed" \in Statuses(At(u)))
  IN  /\ pc[u] = "check" /\ pos[u] \in DOMAIN Current(u)
      /\ \/ (~Selected(Mode[u], At(u)) \/ passed) /\ Advance(u) /\ Works
         \/ /\ Selected(Mode[u], At(u)) /\ ~passed /\ Goto(u, "item")
            /\ Works /\ UNCHANGED <<squash, cur, phase, pos, item>>
      /\ UNCHANGED <<check, rows, done, busy>>

\* The loop of run: a migration of the other mode, or Finished, is passed over.
CheckStatus(u) ==
  /\ pc[u] = "check" /\ pos[u] \in DOMAIN Current(u)
  /\ \/ /\ ~Selected(Mode[u], At(u)) \/ "Finished" \in Statuses(At(u))
        /\ Advance(u) /\ Works
     \/ /\ Selected(Mode[u], At(u)) /\ Statuses(At(u)) # {"Finished"}
        /\ Goto(u, "item")
        /\ Works /\ UNCHANGED <<squash, cur, phase, pos, item>>
     \/ /\ Selected(Mode[u], At(u)) /\ Failure
        /\ End(u, "backoff")
  /\ UNCHANGED <<check, rows, done, busy>>

EndOfList_Stops(u) ==
  /\ pc[u] = "check" /\ pos[u] \notin DOMAIN Current(u)
  /\ \/ phase[u] = 0 /\ Goto(u, "squash") /\ UNCHANGED <<squash, cur, phase, pos, item>>
     \/ phase[u] # 0 /\ End(u, "ok")
  /\ Works /\ UNCHANGED <<check, rows, done, busy>>

\* run returns nil: the next squashed list, the next database, or success.
EndOfList(u) ==
  /\ pc[u] = "check" /\ pos[u] \notin DOMAIN Current(u)
  /\ \/ phase[u] = 0 /\ Goto(u, "squash") /\ UNCHANGED <<squash, cur, phase, pos, item>>
     \/ /\ phase[u] \in 1 .. Len(Order) - 1
        /\ BeginList(u, phase[u] + 1) /\ UNCHANGED <<squash, cur, item>>
     \/ phase[u] = Len(Order) /\ End(u, "ok")
  /\ Works /\ UNCHANGED <<check, rows, done, busy>>

\* RunOperationWithoutUpdate waits until no mutation is running on any host, no
\* DDL is queued, and the distribution queue of the table has drained.  A query
\* may fail, and so does a wait that takes too long.
WaitForMutations(u) ==
  /\ pc[u] = "item" /\ item[u] \in DOMAIN Items[At(u)]
  /\ \/ ~busy /\ Goto(u, "exec") /\ Works
     \/ Failure /\ Goto(u, "fail")
  /\ UNCHANGED <<squash, cur, phase, pos, item, check, rows, done, busy>>

\* RunOperationWithoutUpdate executes the operation.  One that fails may have
\* taken effect; a mutation goes on in the background.
Execute(u) ==
  LET op == <<At(u), item[u]>> IN
  /\ pc[u] = "exec"
  /\ \/ /\ Works /\ done' = done \cup {op}
        /\ Goto(u, "item") /\ item' = [item EXCEPT ![u] = @ + 1]
     \/ /\ Failure /\ done' \in {done, done \cup {op}}
        /\ Goto(u, "fail") /\ UNCHANGED item
  /\ busy' \in {busy, busy \/ Items[At(u)][item[u]].mutation}
  /\ UNCHANGED <<squash, cur, phase, pos, check, rows>>

\* External: the datastore completes the mutation.
MutationDone ==
  /\ busy /\ busy' = FALSE
  /\ UNCHANGED <<local, check, rows, done, failures>>

MarkFailed_Finished(u) ==
  /\ pc[u] = "fail" /\ InsertMigrationEntry(At(u), "Finished")
  /\ End(u, "error")
  /\ Works /\ UNCHANGED <<check, done, busy>>

\* A failed operation: the migration is marked and the command ends in an error
\* it does not retry, whether or not the insert succeeds.
MarkFailed(u) ==
  /\ pc[u] = "fail"
  /\ \/ Works /\ InsertMigrationEntry(At(u), "Failed")
     \/ Failure /\ (UNCHANGED rows \/ InsertMigrationEntry(At(u), "Failed"))
  /\ End(u, "error")
  /\ UNCHANGED <<check, done, busy>>

\* Every operation succeeded: the migration is marked.  An insert that fails may
\* have been made; sync up retries, async up ends.
MarkFinished(u) ==
  /\ pc[u] = "item" /\ item[u] \notin DOMAIN Items[At(u)]
  /\ \/ Works /\ InsertMigrationEntry(At(u), "Finished") /\ Advance(u)
     \/ /\ Failure /\ (UNCHANGED rows \/ InsertMigrationEntry(At(u), "Finished"))
        /\ End(u, IF Mode[u] = "sync" THEN "backoff" ELSE "error")
  /\ UNCHANGED <<check, done, busy>>

\* The process is killed.
Crash(u) ==
  /\ pc[u] \notin {"down", "ok", "error"} /\ Failure /\ End(u, "down")
  /\ UNCHANGED <<check, rows, done, busy>>

-----------------------------------------------------------------------------
(* sync check and async check *)

LastMigration_First(mode, list) ==
  {i \in DOMAIN list : /\ Selected(mode, list[i])
                       /\ \A j \in 1 .. i - 1 : ~Selected(mode, list[j])}

\* getLastSyncMigration, getLastAsyncMigration: its index, if there is one.
LastMigration(mode, list) ==
  {i \in DOMAIN list : /\ Selected(mode, list[i])
                       /\ \A j \in i + 1 .. Len(list) : ~Selected(mode, list[j])}

StartCheck(c) ==
  /\ cpc[c] \in {"down", "failed"}
  /\ cpc' = [cpc EXCEPT ![c] = "check"]
  /\ UNCHANGED <<cpos, local, rows, done, busy, failures>>

\* The database is in order, and the check goes on to the next one.  The async
\* check returns nil after the metadata, the analytics or the meter database if
\* that database has an async migration.
NextDB(c) ==
  LET ends == /\ Mode[c] = "async" /\ Order[cpos[c]] \in LastAsync
              /\ LastMigration(Mode[c], Main[Order[cpos[c]]]) # {}
  IN  /\ cpc' = [cpc EXCEPT ![c] =
                   IF ends \/ cpos[c] = Len(Order) THEN "passed" ELSE "check"]
      /\ cpos' = [cpos EXCEPT ![c] = IF cpos[c] = Len(Order) THEN @ ELSE @ + 1]

\* Check looks at the status of the last migration of its mode in the next
\* database.  When it is not Finished, or cannot be read, the check is retried
\* from the first database until its timeout.
CheckDB(c) ==
  LET list == Main[Order[cpos[c]]] IN
  /\ cpc[c] = "check"
  /\ \/ LastMigration(Mode[c], list) = {} /\ NextDB(c) /\ Works
     \/ \E i \in LastMigration(Mode[c], list) :
          \/ "Finished" \in Statuses(list[i]) /\ NextDB(c) /\ Works
          \/ /\ \/ Statuses(list[i]) # {"Finished"} /\ Works
                \/ Failure
             /\ \/ cpos' = [cpos EXCEPT ![c] = 1] /\ UNCHANGED cpc
                \/ cpc' = [cpc EXCEPT ![c] = "failed"] /\ cpos' = [cpos EXCEPT ![c] = 1]
  /\ UNCHANGED <<local, rows, done, busy>>

-----------------------------------------------------------------------------

Step(u) ==
  \/ Start(u) \/ TimesOut(u) \/ NextSquashed(u) \/ CheckStatus(u) \/ EndOfList(u)
  \/ WaitForMutations(u) \/ Execute(u) \/ MarkFailed(u) \/ MarkFinished(u)

Next ==
  \/ \E u \in Up : Step(u) \/ Crash(u)
  \/ \E c \in Checker : StartCheck(c) \/ CheckDB(c)
  \/ MutationDone

Spec == Init /\ [][Next]_vars

\* A process that can run does, mutations complete, and a command that was
\* killed or failed is started again by whatever deployed it.
FairSpec == Spec /\ (\A u \in Up : WF_vars(Step(u))) /\ WF_vars(MutationDone)

-----------------------------------------------------------------------------
(* Properties *)

Applied(m) == \A i \in DOMAIN Items[m] : <<m, i>> \in done
Begun(m) == \E i \in DOMAIN Items[m] : <<m, i>> \in done

\* Every variable stays in its type; a command that runs operations is at a
\* migration of the list it walks and of its own mode.
TypeOK ==
  /\ pc \in [Up -> {"down", "squash", "check", "item", "exec", "fail", "backoff",
                    "ok", "error"}]
  /\ squash \in [Up -> SUBSET SquashedDB] /\ cur \in [Up -> DB]
  /\ phase \in [Up -> 0 .. Len(Order)]
  /\ pos \in [Up -> Nat \ {0}] /\ item \in [Up -> Nat \ {0}]
  /\ \A u \in Up : pc[u] \in {"check", "item", "exec", "fail"} /\ phase[u] = 0
                   => cur[u] \in SquashedDB
  /\ \A u \in Up : pc[u] \in {"item", "exec", "fail"}
                   => pos[u] \in DOMAIN Current(u) /\ Selected(Mode[u], At(u))
  /\ cpc \in [Checker -> {"down", "check", "passed", "failed"}]
  /\ cpos \in [Checker -> DOMAIN Order]
  /\ rows \in [Migration -> [Shard -> {"none", "Failed", "Finished"}]]
  /\ done \subseteq Migration \X (Nat \ {0})
  /\ busy \in BOOLEAN /\ failures \in 0 .. MaxFailures

\* A migration recorded as Finished, on any shard, has had every one of its
\* operations executed, whoever ran them and whatever was killed in between: run
\* records it after the last operation and never after a failure.
FinishedIsApplied ==
  \A m \in Migration : \A s \in Shard : rows[m][s] = "Finished" => Applied(m)

\* Migrations of a mode are applied in the order of their list: no operation of
\* one is executed before all those of the earlier ones, although several
\* processes run the list and fail anywhere in it.
AppliedInOrder ==
  \A mode \in {"sync", "async"} :
    \A list \in {Main[d] : d \in DB} \cup {Squashed[d] : d \in SquashedDB} :
      \A j, k \in DOMAIN list :
        /\ j < k /\ Selected(mode, list[j]) /\ Selected(mode, list[k])
        /\ Begun(list[k])
        => Applied(list[j])

\* The squashed migrations of a mode come first, when no database has a legacy
\* table.
SquashedFirst ==
  Legacy = {} =>
    \A mode \in {"sync", "async"} : \A d \in DB, e \in SquashedDB :
      (\E k \in DOMAIN Main[d] : Selected(mode, Main[d][k]) /\ Begun(Main[d][k]))
      => \A j \in DOMAIN Squashed[e] : Selected(mode, Squashed[e][j]) => Applied(Squashed[e][j])

\* A check that passes shows that all the migrations of its mode have been
\* applied, although it looks at one per database ("These migrations need to be
\* successfully applied before bringing up the application").
CheckedIsApplied ==
  \A c \in Checker : cpc[c] = "passed" =>
    \A d \in DB : \A i \in DOMAIN Main[d] : Selected(Mode[c], Main[d][i]) => Applied(Main[d][i])

\* Started again often enough, the commands apply all migrations of their modes.
EventuallyApplied ==
  <>[](\A u \in Up : \A d \in DB : \A i \in DOMAIN Main[d] :
         Selected(Mode[u], Main[d][i]) => Applied(Main[d][i]))
=============================================================================
