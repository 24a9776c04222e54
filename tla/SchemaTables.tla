----------------------------- MODULE SchemaTables -----------------------------
(***************************************************************************)
(* What the operations of a migration do to the tables of one database.   *)
(* A table is its columns, the columns its keys and its expressions use,   *)
(* its indexes, and its TTL; a distributed table names the table it is     *)
(* over; a materialized view reads columns of one table and writes columns *)
(* of another.  Types, codecs, engines and settings are left out.  What    *)
(* the datastore accepts is modelled from the SQL the operations produce.  *)
(***************************************************************************)
EXTENDS SchemaOperations, FiniteSets, TLC

Nothing == [columns |-> {}, uses |-> {}, defaults |-> {}, indexes |-> {}, ttl |-> {},
            of |-> "", from |-> "", reads |-> {}, to |-> ""]

\* The operations of the lists.  indexes: pairs of an index and a column of its
\* expression; uses: columns that keys, defaults and aliases are computed from.
Local(table, columns, uses, indexes) ==
  [is |-> CreateTable, do |-> "create", on |-> table,
   as |-> [Nothing EXCEPT !.columns = columns, !.uses = uses, !.indexes = indexes]]

Distributed(table, of, columns, uses) ==
  [is |-> CreateTable, do |-> "create", on |-> table,
   as |-> [Nothing EXCEPT !.columns = columns, !.uses = uses, !.of = of]]

View(view, from, reads, to, writes) ==
  [is |-> CreateMaterializedView, do |-> "create", on |-> view,
   as |-> [Nothing EXCEPT !.columns = writes, !.from = from, !.reads = reads, !.to = to]]

Query(view, from, reads, writes) ==
  [is |-> ModifyQueryMaterializedView, do |-> "query", on |-> view,
   as |-> [Nothing EXCEPT !.columns = writes, !.from = from, !.reads = reads]]

Dropped(table) == [is |-> DropTable, do |-> "drop", on |-> table]

Column(table, column, uses) ==
  [is |-> AddColumn, do |-> "column", on |-> table, column |-> column, uses |-> uses]

WithoutColumn(table, column) ==
  [is |-> DropColumn, do |-> "dropColumn", on |-> table, column |-> column]

ColumnType(table, column) ==
  [is |-> ModifyColumn(TRUE), do |-> "type", on |-> table, column |-> column]

Materialized(table, column) ==
  [is |-> MaterializeColumn, do |-> "materialize", on |-> table, column |-> column]

Index(table, index, uses) ==
  [is |-> AddIndex, do |-> "index", on |-> table, index |-> index, uses |-> uses]

WithoutIndex(table, index) ==
  [is |-> DropIndex, do |-> "dropIndex", on |-> table, index |-> index]

TTL(table, uses) == [is |-> ModifyTTL(FALSE), do |-> "ttl", on |-> table, uses |-> uses]

WithoutTTL(table) == [is |-> DropTTL, do |-> "noTTL", on |-> table]

Settings(table) == [is |-> ModifySettings, do |-> "settings", on |-> table]

Inserted(table, columns) ==
  [is |-> InsertIntoTable(TRUE, TRUE), do |-> "insert", on |-> table, uses |-> columns]

\* SchemaMigrationRecord.
Record(id, up, down) == [id |-> id, up |-> up, down |-> down]

-----------------------------------------------------------------------------
(* What an operation does.  A schema is a function from names to tables. *)

\* Columns a table cannot be without.
Bound(t) == t.uses \cup t.ttl \cup {x[2] : x \in t.indexes \cup t.defaults}

\* The query of a view can run: an insert into the table it reads succeeds.
Runs(v, s) ==
  /\ v.from \in DOMAIN s /\ v.reads \subseteq s[v.from].columns
  /\ v.to \in DOMAIN s /\ v.columns \subseteq s[v.to].columns

\* The datastore accepts the statement.
Accepts(o, s) ==
  CASE o.do = "create" ->
         \/ o.on \in DOMAIN s                        \* IF NOT EXISTS
         \/ IF o.as.from # "" THEN Runs(o.as, s) ELSE Bound(o.as) \subseteq o.as.columns
    [] o.do = "drop" -> TRUE                         \* IF EXISTS
    [] o.do = "query" ->
         /\ o.on \in DOMAIN s
         /\ Runs([o.as EXCEPT !.to = s[o.on].to], s)
    [] o.do \in {"column", "index", "ttl", "insert"} ->
         o.on \in DOMAIN s /\ o.uses \subseteq s[o.on].columns
    [] o.do = "dropColumn" -> o.on \in DOMAIN s /\ o.column \notin Bound(s[o.on])
    [] o.do = "materialize" -> o.on \in DOMAIN s /\ o.column \in s[o.on].columns
    [] OTHER -> o.on \in DOMAIN s

\* The schema after a statement the datastore accepts.
Apply(o, s) ==
  CASE o.do = "create" -> s @@ (o.on :> o.as)
    [] o.do = "drop" -> [t \in DOMAIN s \ {o.on} |-> s[t]]
    [] o.do = "query" -> [s EXCEPT ![o.on] = [o.as EXCEPT !.to = s[o.on].to]]
    [] o.do = "column" -> [s EXCEPT ![o.on].columns = @ \cup {o.column},
                                    ![o.on].defaults = @ \cup {<<o.column, c>> : c \in o.uses}]
    [] o.do = "dropColumn" -> [s EXCEPT ![o.on].columns = @ \ {o.column},
                                        ![o.on].defaults = {d \in @ : d[1] # o.column}]
    [] o.do = "index" ->
         [s EXCEPT ![o.on].indexes = @ \cup {<<o.index, c>> : c \in o.uses}]
    [] o.do = "dropIndex" ->
         [s EXCEPT ![o.on].indexes = {i \in @ : i[1] # o.index}]
    [] o.do = "ttl" -> [s EXCEPT ![o.on].ttl = o.uses]
    [] o.do = "noTTL" -> [s EXCEPT ![o.on].ttl = {}]
    [] OTHER -> s
-----------------------------------------------------------------------------
(* Tables that several databases have *)

Columns_schema_migrations_v2 ==
  {"migration_id", "status", "error", "created_at", "updated_at"}

Columns_tag_attributes_v2 ==
  {"unix_milli", "tag_key", "tag_type", "tag_data_type", "string_value", "number_value"}

Columns_usage ==
  {"tenant", "collector_id", "exporter_id", "timestamp", "data"}
=============================================================================
