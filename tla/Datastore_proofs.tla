-------------------------- MODULE Datastore_proofs --------------------------
(***************************************************************************)
(* What the commands that migrate the schema and the exporters that write  *)
(* into it promise.  For any processes, databases, migrations, shards and  *)
(* failures: what is recorded as finished is applied, in order, and a check *)
(* that passes is right.  For any payloads, pushers and faults: what the   *)
(* exporters of spans, metrics and meter samples accept is stored or       *)
(* accounted for, and the connection is open while a push uses it.         *)
(***************************************************************************)
EXTENDS SchemaMigrate, TracesExporter, O11yMetricsExporter, WellFoundedInduction, TLAPS

\* A leaf goes to the SMT solver unless it cites another prover.
USE SMTT(30)

-----------------------------------------------------------------------------
(* The inductive invariant *)

ModeApplied(mode, list) ==
  \A j \in DOMAIN list : Selected(mode, list[j]) => Applied(list[j])

InList(u) == pc[u] \in {"check", "item", "exec", "fail"}

\* A process in a list has seen all the migrations of its mode before its
\* position applied ...
Looped(u) ==
  InList(u) => \A j \in DOMAIN Current(u) :
    j < pos[u] /\ Selected(Mode[u], Current(u)[j]) => Applied(Current(u)[j])

\* ... and, in a migration, all the operations before its own; it starts with the first.
Itemized(u) ==
  /\ pc[u] \in {"item", "exec", "fail"} =>
       \A i \in DOMAIN Items[At(u)] : i < item[u] => <<At(u), i>> \in done
  /\ pc[u] = "exec" => item[u] \in DOMAIN Items[At(u)]
  /\ pc[u] \notin {"item", "exec", "fail"} => item[u] = 1

\* Without legacy tables, a process has seen the squashed migrations applied of
\* all databases it is done with.
Seen(u) ==
  IF pc[u] = "squash" THEN SquashedDB \ squash[u]
  ELSE IF phase[u] = 0 THEN SquashedDB \ (squash[u] \cup {cur[u]})
  ELSE SquashedDB

SquashedSeen(u) ==
  Legacy = {} /\ (pc[u] = "squash" \/ InList(u)) =>
    \A d \in Seen(u) : ModeApplied(Mode[u], Squashed[d])

LoopInv == \A u \in Up : Looped(u)
ItemInv == \A u \in Up : Itemized(u)
SquashInv == \A u \in Up : SquashedSeen(u)

\* A check starts with the first database, and has seen all the migrations
\* applied of the databases before its own.
Checked(c) ==
  /\ cpc[c] \in {"down", "failed"} => cpos[c] = 1
  /\ cpc[c] = "check" => \A k \in DOMAIN Order :
                           k < cpos[c] => ModeApplied(Mode[c], Main[Order[k]])
  /\ cpc[c] = "passed" => \A d \in DB : ModeApplied(Mode[c], Main[d])

CheckInv == \A c \in Checker : Checked(c)

Inv == /\ TypeOK /\ FinishedIsApplied /\ LoopInv /\ ItemInv /\ SquashInv
       /\ AppliedInOrder /\ SquashedFirst /\ CheckInv

-----------------------------------------------------------------------------
(* Facts about the constants *)

\* A non-empty set of naturals has a least element.
LEMMA NatMin ==
  \A T \in SUBSET Nat :
    T # {} => \E x \in T : \A y \in T : x <= y
<1> SUFFICES ASSUME NEW T \in SUBSET Nat, T # {}
             PROVE  \E x \in T : \A y \in T : x <= y
  BY Zenon
<1> DEFINE R == {ss \in Nat \X Nat : ss[1] < ss[2]}
<1>1. IsWellFoundedOn(R, Nat)
  BY NatLessThanWellFounded, Zenon DEF OpToRel
<1>2. \E x \in T : \A y \in T : ~(<<y, x>> \in R)
  <2> HIDE DEF R
  <2> QED BY <1>1, WFMin, Zenon
<1>3. PICK x \in T : \A y \in T : ~(<<y, x>> \in R)
  BY <1>2, Zenon
<1>4. \A y \in T : ~(y < x)
  BY <1>3, Zenon
<1> QED BY <1>4

\* A list with a migration of a mode has a last one: getLastSyncMigration and
\* getLastAsyncMigration find none only when there is none.
LEMMA LastExists ==
  \A mode : \A list \in Seq(Migration) :
    LastMigration(mode, list) = {} => \A j \in DOMAIN list : ~Selected(mode, list[j])
<1> SUFFICES ASSUME NEW mode, NEW list \in Seq(Migration), LastMigration(mode, list) = {}
             PROVE  \A j \in DOMAIN list : ~Selected(mode, list[j])
  BY Zenon
<1> SUFFICES ASSUME NEW j0 \in DOMAIN list, Selected(mode, list[j0])
             PROVE  FALSE
  BY Zenon
<1> DEFINE J == {j \in DOMAIN list : Selected(mode, list[j])}
           T == {n \in Nat : \E j \in J : n = Len(list) - j}
<1>1. Len(list) - j0 \in T
  OBVIOUS
<1>2. PICK x \in T : \A y \in T : x <= y
  BY <1>1, NatMin, Zenon
<1>3. PICK i \in J : x = Len(list) - i
  BY Zenon
<1>4. \A j \in i + 1 .. Len(list) : ~Selected(mode, list[j])
  <2> SUFFICES ASSUME NEW j \in i + 1 .. Len(list), Selected(mode, list[j])
               PROVE  FALSE
    BY Zenon
  <2>1. j \in J
    OBVIOUS
  <2>2. Len(list) - j \in T
    BY <2>1
  <2> QED BY <1>2, <1>3, <2>2
<1>5. i \in LastMigration(mode, list)
  BY <1>4, Zenon DEF LastMigration
<1> QED BY <1>5, Zenon

LEMMA PastEnd ==
  \A S : \A list \in Seq(S), n \in Nat \ {0} :
    n \notin DOMAIN list => \A j \in DOMAIN list : j < n
OBVIOUS

LEMMA Before ==
  \A S : \A list \in Seq(S), n \in Nat : \A j \in DOMAIN list :
    j < n + 1 => j = n \/ j < n
OBVIOUS

\* The databases are visited from the first to the last.
LEMMA OrderDomain ==
  /\ DOMAIN Order = 1 .. Len(Order) /\ Len(Order) \in Nat \ {0}
  /\ \A k \in 1 .. Len(Order) : Order[k] \in DB
BY ListsAssumption

\* The lists hold migrations.
LEMMA Lists ==
  /\ \A d \in DB : Main[d] \in Seq(Migration)
  /\ \A d \in SquashedDB : d \in DB /\ Squashed[d] \in Seq(Migration)
BY ListsAssumption, Zenon DEF SquashedDB

AllLists == {Main[d] : d \in DB} \cup {Squashed[d] : d \in SquashedDB}

\* A migration has one place in one list.
LEMMA Once ==
  \A a \in AllLists, b \in AllLists : \A i \in DOMAIN a, j \in DOMAIN b :
    a[i] = b[j] => a = b /\ i = j
<1> SUFFICES ASSUME NEW a \in AllLists, NEW b \in AllLists, NEW i \in DOMAIN a, NEW j \in DOMAIN b,
                    a[i] = b[j]
             PROVE  a = b /\ i = j
  BY Zenon
<1>1. (\E d \in DB : a = Main[d]) \/ (\E d \in SquashedDB : a = Squashed[d])
  BY Zenon DEF AllLists
<1>2. (\E d \in DB : b = Main[d]) \/ (\E d \in SquashedDB : b = Squashed[d])
  BY Zenon DEF AllLists
<1>3. ASSUME NEW d \in DB, a = Main[d], NEW e \in DB, b = Main[e] PROVE a = b /\ i = j
  BY <1>3, OnceAssumption
<1>4. ASSUME NEW d \in DB, a = Main[d], NEW e \in SquashedDB, b = Squashed[e]
      PROVE  FALSE
  BY <1>4, OnceAssumption DEF SquashedDB
<1>5. ASSUME NEW d \in SquashedDB, a = Squashed[d], NEW e \in DB, b = Main[e]
      PROVE  FALSE
  BY <1>5, OnceAssumption DEF SquashedDB
<1>6. ASSUME NEW d \in SquashedDB, a = Squashed[d], NEW e \in SquashedDB, b = Squashed[e]
      PROVE  a = b /\ i = j
  BY <1>6, OnceAssumption DEF SquashedDB
<1> QED BY <1>1, <1>2, <1>3, <1>4, <1>5, <1>6, Zenon

LEMMA Modes ==
  /\ \A u \in Up : Mode[u] \in {"sync", "async"}
  /\ \A c \in Checker : Mode[c] \in {"sync", "async"}
BY ListsAssumption, Zenon

\* What a process is at is a migration.
LEMMA AtMigration ==
  \A u \in Up :
    TypeOK /\ InList(u)
      => /\ Current(u) \in Seq(Migration)
         /\ pc[u] # "check" => At(u) \in Migration /\ Items[At(u)] \in Seq(Operation)
<1> SUFFICES ASSUME TypeOK, NEW u \in Up, InList(u)
             PROVE  /\ Current(u) \in Seq(Migration)
                    /\ pc[u] # "check" => At(u) \in Migration /\ Items[At(u)] \in Seq(Operation)
  BY Zenon
<1>1. Current(u) \in Seq(Migration)
  BY Lists, OrderDomain DEF TypeOK, InList, Current
<1>2. pc[u] # "check" => At(u) \in Migration
  BY <1>1 DEF TypeOK, InList, At
<1> QED BY <1>1, <1>2, ItemsAssumption, Zenon

\* A migration is of one mode.
LEMMA OneMode ==
  \A m \in Migration, a \in {"sync", "async"}, b \in {"sync", "async"} :
    Selected(a, m) /\ Selected(b, m) => a = b
BY ItemsAssumption, Zenon DEF Selected, IsSync, IsAsync

-----------------------------------------------------------------------------
(* Types *)

LocalType ==
  /\ pc \in [Up -> {"down", "squash", "check", "item", "exec", "fail", "backoff",
                    "ok", "error"}]
  /\ squash \in [Up -> SUBSET SquashedDB] /\ cur \in [Up -> DB]
  /\ phase \in [Up -> 0 .. Len(Order)]
  /\ pos \in [Up -> Nat \ {0}] /\ item \in [Up -> Nat \ {0}]

PlaceType ==
  /\ \A u \in Up : InList(u) /\ phase[u] = 0 => cur[u] \in SquashedDB
  /\ \A u \in Up : pc[u] \in {"item", "exec", "fail"}
                   => pos[u] \in DOMAIN Current(u) /\ Selected(Mode[u], At(u))

CheckType ==
  /\ cpc \in [Checker -> {"down", "check", "passed", "failed"}]
  /\ cpos \in [Checker -> DOMAIN Order]

SharedType ==
  /\ rows \in [Migration -> [Shard -> {"none", "Failed", "Finished"}]]
  /\ done \subseteq Migration \X (Nat \ {0})

LEMMA TypeParts ==
  TypeOK <=> /\ LocalType /\ PlaceType /\ CheckType /\ SharedType
             /\ failures \in 0 .. MaxFailures /\ busy \in BOOLEAN
BY Zenon DEF TypeOK, LocalType, PlaceType, CheckType, SharedType, InList

LEMMA InitType == Init => TypeOK
<1> SUFFICES ASSUME Init PROVE TypeOK
  BY Zenon
<1>1. LocalType /\ CheckType /\ SharedType /\ failures \in 0 .. MaxFailures
  BY OrderDomain, ListsAssumption DEF Init, LocalType, CheckType, SharedType
<1>2. PlaceType
  BY Zenon DEF Init, PlaceType, InList
<1>3. busy \in BOOLEAN
  BY Zenon DEF Init
<1> QED BY <1>1, <1>2, <1>3, TypeParts, Zenon

LEMMA EndType ==
  \A u \in Up, l \in {"down", "backoff", "ok", "error"} :
    LocalType /\ PlaceType /\ End(u, l) => LocalType' /\ PlaceType'
<1> SUFFICES ASSUME LocalType, PlaceType, NEW u \in Up, NEW l \in {"down", "backoff", "ok", "error"},
                    End(u, l)
             PROVE  LocalType' /\ PlaceType'
  BY Zenon
<1>1. LocalType'
  BY OrderDomain DEF LocalType, End, Goto
<1>2. PlaceType'
  BY Zenon DEF LocalType, PlaceType, InList, End, Goto, Current, At
<1> QED BY <1>1, <1>2, Zenon

LEMMA BeginListType ==
  \A u \in Up, k \in 1 .. Len(Order) :
    LocalType /\ PlaceType /\ BeginList(u, k) /\ UNCHANGED <<squash, cur, item>>
      => LocalType' /\ PlaceType'
<1> SUFFICES ASSUME LocalType, PlaceType, NEW u \in Up, NEW k \in 1 .. Len(Order),
                    BeginList(u, k), UNCHANGED <<squash, cur, item>>
             PROVE  LocalType' /\ PlaceType'
  BY Zenon
<1>1. LocalType'
  BY DEF LocalType, BeginList, Goto
<1>2. PlaceType'
  BY DEF LocalType, PlaceType, InList, BeginList, Goto, Current, At
<1> QED BY <1>1, <1>2, Zenon

LEMMA AdvanceType ==
  \A u \in Up :
    LocalType /\ PlaceType /\ InList(u) /\ Advance(u) => LocalType' /\ PlaceType'
<1> SUFFICES ASSUME LocalType, PlaceType, NEW u \in Up, InList(u), Advance(u)
             PROVE  LocalType' /\ PlaceType'
  BY Zenon
<1>1. LocalType'
  BY DEF LocalType, Advance, Goto
<1>2. PlaceType'
  BY Zenon DEF LocalType, PlaceType, InList, Advance, Goto, Current, At
<1> QED BY <1>1, <1>2, Zenon

LEMMA GotoType ==
  \A u \in Up, l \in {"squash", "item", "exec", "fail", "error"} :
    /\ LocalType /\ PlaceType /\ Goto(u, l) /\ UNCHANGED <<cur, phase, pos>>
    /\ squash' \in [Up -> SUBSET SquashedDB] /\ item' \in [Up -> Nat \ {0}]
    /\ l \in {"squash", "error"} \/ pc[u] \in {"item", "exec", "fail"}
       \/ (pc[u] = "check" /\ pos[u] \in DOMAIN Current(u) /\ Selected(Mode[u], At(u)))
    => LocalType' /\ PlaceType'
<1> SUFFICES ASSUME LocalType, PlaceType, NEW u \in Up, NEW l \in {"squash", "item", "exec", "fail", "error"},
                    Goto(u, l), UNCHANGED <<cur, phase, pos>>,
                    squash' \in [Up -> SUBSET SquashedDB], item' \in [Up -> Nat \ {0}],
                    l \in {"squash", "error"} \/ pc[u] \in {"item", "exec", "fail"}
                    \/ (pc[u] = "check" /\ pos[u] \in DOMAIN Current(u) /\ Selected(Mode[u], At(u)))
             PROVE  LocalType' /\ PlaceType'
  BY Zenon
<1>1. LocalType'
  BY Zenon DEF LocalType, Goto
<1>2. PlaceType'
  BY Zenon DEF LocalType, PlaceType, InList, Goto, Current, At
<1> QED BY <1>1, <1>2, Zenon

LEMMA InsertType ==
  \A m \in Migration, status \in {"Failed", "Finished"} :
    SharedType /\ InsertMigrationEntry(m, status) /\ UNCHANGED done => SharedType'
BY DEF SharedType, InsertMigrationEntry

LEMMA FailureType == failures \in 0 .. MaxFailures /\ (Failure \/ Works) => failures' \in 0 .. MaxFailures
BY ListsAssumption DEF Failure, Works

LEMMA StepType == TypeOK /\ [Next]_vars => TypeOK'
<1> SUFFICES ASSUME TypeOK, [Next]_vars PROVE TypeOK'
  BY Zenon
<1>0. /\ LocalType /\ PlaceType /\ CheckType /\ SharedType
      /\ failures \in 0 .. MaxFailures /\ busy \in BOOLEAN
  BY TypeParts, Zenon
<1>1. ASSUME NEW u \in Up, Start(u) PROVE TypeOK'
  <2>1. LocalType' /\ PlaceType'
    BY <1>0, <1>1, GotoType, Zenon DEF LocalType, Start
  <2>2. SharedType'
    BY <1>0, <1>1, Zenon DEF SharedType, Start
  <2>3. CheckType' /\ failures' \in 0 .. MaxFailures
    BY <1>0, <1>1, FailureType, Zenon DEF CheckType, check, Start
  <2>4. busy' \in BOOLEAN
    BY <1>0, <1>1, Zenon DEF Start
  <2> QED
    BY <2>1, <2>2, <2>3, <2>4, Zenon DEF TypeOK, LocalType, PlaceType, CheckType, SharedType, InList
<1>2. ASSUME NEW u \in Up, TimesOut(u) PROVE TypeOK'
  <2>1. LocalType' /\ PlaceType'
    BY <1>0, <1>2, GotoType, Zenon DEF LocalType, TimesOut
  <2>2. SharedType'
    BY <1>0, <1>2, Zenon DEF SharedType, TimesOut
  <2>3. CheckType' /\ failures' \in 0 .. MaxFailures
    BY <1>0, <1>2, FailureType, Zenon DEF CheckType, check, TimesOut
  <2>4. busy' \in BOOLEAN
    BY <1>0, <1>2, Zenon DEF TimesOut
  <2> QED
    BY <2>1, <2>2, <2>3, <2>4, Zenon DEF TypeOK, LocalType, PlaceType, CheckType, SharedType, InList
<1>3. ASSUME NEW u \in Up, NextSquashed(u) PROVE TypeOK'
  <2>1. LocalType' /\ PlaceType'
    <3>1. CASE BeginList(u, 1) /\ UNCHANGED <<squash, cur, item>>
      BY <1>0, <3>1, BeginListType, OrderDomain
    <3>2. ASSUME NEW d \in squash[u], BeginList(u, 0), cur' = [cur EXCEPT ![u] = d],
                 squash' = [squash EXCEPT ![u] = @ \ {d}], UNCHANGED item
          PROVE  LocalType' /\ PlaceType'
      <4>1. d \in SquashedDB /\ d \in DB
        BY <1>0, Lists, Zenon DEF LocalType
      <4>2. LocalType'
        BY <1>0, <3>2, <4>1 DEF LocalType, BeginList, Goto
      <4>3. PlaceType'
        BY <1>0, <3>2, <4>1, Zenon DEF LocalType, PlaceType, InList, BeginList, Goto, Current, At
      <4> QED BY <4>2, <4>3, Zenon
    <3>3. CASE End(u, "backoff")
      BY <1>0, <3>3, EndType, Zenon
    <3> QED BY <1>3, <3>1, <3>2, <3>3, Zenon DEF NextSquashed
  <2>2. SharedType'
    BY <1>0, <1>3, Zenon DEF SharedType, NextSquashed
  <2>3. CheckType' /\ failures' \in 0 .. MaxFailures
    BY <1>0, <1>3, FailureType, Zenon DEF CheckType, check, NextSquashed
  <2>4. busy' \in BOOLEAN
    BY <1>0, <1>3, Zenon DEF NextSquashed
  <2> QED
    BY <2>1, <2>2, <2>3, <2>4, Zenon DEF TypeOK, LocalType, PlaceType, CheckType, SharedType, InList
<1>4. ASSUME NEW u \in Up, CheckStatus(u) PROVE TypeOK'
  <2>1. LocalType' /\ PlaceType'
    <3>1. CASE Advance(u)
      BY <1>0, <1>4, <3>1, AdvanceType, Zenon DEF CheckStatus, InList
    <3>2. CASE /\ Selected(Mode[u], At(u)) /\ Goto(u, "item")
               /\ UNCHANGED <<squash, cur, phase, pos, item>>
      BY <1>0, <1>4, <3>2, GotoType, Zenon DEF LocalType, CheckStatus
    <3>3. CASE End(u, "backoff")
      BY <1>0, <3>3, EndType, Zenon
    <3> QED BY <1>4, <3>1, <3>2, <3>3, Zenon DEF CheckStatus
  <2>2. SharedType'
    BY <1>0, <1>4, Zenon DEF SharedType, CheckStatus
  <2>3. CheckType' /\ failures' \in 0 .. MaxFailures
    BY <1>0, <1>4, FailureType, Zenon DEF CheckType, check, CheckStatus
  <2>4. busy' \in BOOLEAN
    BY <1>0, <1>4, Zenon DEF CheckStatus
  <2> QED
    BY <2>1, <2>2, <2>3, <2>4, Zenon DEF TypeOK, LocalType, PlaceType, CheckType, SharedType, InList
<1>5. ASSUME NEW u \in Up, EndOfList(u) PROVE TypeOK'
  <2>1. LocalType' /\ PlaceType'
    <3>1. CASE Goto(u, "squash") /\ UNCHANGED <<squash, cur, phase, pos, item>>
      BY <1>0, <3>1, GotoType, Zenon DEF LocalType
    <3>2. CASE /\ phase[u] \in 1 .. Len(Order) - 1
               /\ BeginList(u, phase[u] + 1) /\ UNCHANGED <<squash, cur, item>>
      <4>1. phase[u] + 1 \in 1 .. Len(Order)
        BY <3>2, OrderDomain
      <4> QED BY <1>0, <3>2, <4>1, BeginListType, Zenon
    <3>3. CASE End(u, "ok")
      BY <1>0, <3>3, EndType, Zenon
    <3> QED BY <1>5, <3>1, <3>2, <3>3, Zenon DEF EndOfList
  <2>2. SharedType'
    BY <1>0, <1>5, Zenon DEF SharedType, EndOfList
  <2>3. CheckType' /\ failures' \in 0 .. MaxFailures
    BY <1>0, <1>5, FailureType, Zenon DEF CheckType, check, EndOfList
  <2>4. busy' \in BOOLEAN
    BY <1>0, <1>5, Zenon DEF EndOfList
  <2> QED
    BY <2>1, <2>2, <2>3, <2>4, Zenon DEF TypeOK, LocalType, PlaceType, CheckType, SharedType, InList
<1>6. ASSUME NEW u \in Up, WaitForMutations(u) PROVE TypeOK'
  <2>1. LocalType' /\ PlaceType'
    BY <1>0, <1>6, GotoType, Zenon DEF LocalType, WaitForMutations
  <2>2. SharedType'
    BY <1>0, <1>6, Zenon DEF SharedType, WaitForMutations
  <2>3. CheckType' /\ failures' \in 0 .. MaxFailures
    BY <1>0, <1>6, FailureType, Zenon DEF CheckType, check, WaitForMutations
  <2>4. busy' \in BOOLEAN
    BY <1>0, <1>6, Zenon DEF WaitForMutations
  <2> QED
    BY <2>1, <2>2, <2>3, <2>4, Zenon DEF TypeOK, LocalType, PlaceType, CheckType, SharedType, InList
<1>7. ASSUME NEW u \in Up, Execute(u) PROVE TypeOK'
  <2>1. LocalType' /\ PlaceType'
    <3>1. item' \in [Up -> Nat \ {0}]
      BY <1>0, <1>7 DEF LocalType, Execute
    <3> QED BY <1>0, <1>7, <3>1, GotoType, Zenon DEF LocalType, Execute
  <2>2. SharedType'
    <3>1. At(u) \in Migration /\ item[u] \in Nat \ {0}
      BY <1>0, <1>7, AtMigration, Zenon DEF LocalType, Execute, InList
    <3>2. done' \in {done, done \cup {<<At(u), item[u]>>}}
      BY <1>7, Zenon DEF Execute
    <3> QED BY <1>0, <1>7, <3>1, <3>2 DEF SharedType, Execute
  <2>3. CheckType' /\ failures' \in 0 .. MaxFailures
    BY <1>0, <1>7, FailureType, Zenon DEF CheckType, check, Execute
  <2>4. busy' \in BOOLEAN
    <3>1. busy' = busy \/ busy' = (busy \/ Items[At(u)][item[u]].mutation)
      BY <1>7, Zenon DEF Execute
    <3> QED BY <1>0, <3>1, Zenon
  <2> QED
    BY <2>1, <2>2, <2>3, <2>4, Zenon DEF TypeOK, LocalType, PlaceType, CheckType, SharedType, InList
<1>8. ASSUME NEW u \in Up, MarkFailed(u) PROVE TypeOK'
  <2>1. LocalType' /\ PlaceType'
    BY <1>0, <1>8, EndType, Zenon DEF MarkFailed
  <2>2. SharedType'
    <3>1. At(u) \in Migration
      BY <1>8, AtMigration, Zenon DEF MarkFailed, InList
    <3>2. CASE InsertMigrationEntry(At(u), "Failed")
      BY <1>0, <1>8, <3>1, <3>2, InsertType, Zenon DEF MarkFailed
    <3>3. CASE UNCHANGED rows
      BY <1>0, <1>8, <3>3, Zenon DEF SharedType, MarkFailed
    <3> QED BY <1>8, <3>2, <3>3, Zenon DEF MarkFailed
  <2>3. CheckType' /\ failures' \in 0 .. MaxFailures
    BY <1>0, <1>8, FailureType, Zenon DEF CheckType, check, MarkFailed
  <2>4. busy' \in BOOLEAN
    BY <1>0, <1>8, Zenon DEF MarkFailed
  <2> QED
    BY <2>1, <2>2, <2>3, <2>4, Zenon DEF TypeOK, LocalType, PlaceType, CheckType, SharedType, InList
<1>9. ASSUME NEW u \in Up, MarkFinished(u) PROVE TypeOK'
  <2>1. LocalType' /\ PlaceType'
    <3>1. CASE Advance(u)
      BY <1>0, <1>9, <3>1, AdvanceType, Zenon DEF MarkFinished, InList
    <3>2. CASE End(u, IF Mode[u] = "sync" THEN "backoff" ELSE "error")
      BY <1>0, <3>2, EndType, Zenon
    <3> QED BY <1>9, <3>1, <3>2, Zenon DEF MarkFinished
  <2>2. SharedType'
    <3>1. At(u) \in Migration
      BY <1>9, AtMigration, Zenon DEF MarkFinished, InList
    <3>2. CASE InsertMigrationEntry(At(u), "Finished")
      BY <1>0, <1>9, <3>1, <3>2, InsertType, Zenon DEF MarkFinished
    <3>3. CASE UNCHANGED rows
      BY <1>0, <1>9, <3>3, Zenon DEF SharedType, MarkFinished
    <3> QED BY <1>9, <3>2, <3>3, Zenon DEF MarkFinished
  <2>3. CheckType' /\ failures' \in 0 .. MaxFailures
    BY <1>0, <1>9, FailureType, Zenon DEF CheckType, check, MarkFinished
  <2>4. busy' \in BOOLEAN
    BY <1>0, <1>9, Zenon DEF MarkFinished
  <2> QED
    BY <2>1, <2>2, <2>3, <2>4, Zenon DEF TypeOK, LocalType, PlaceType, CheckType, SharedType, InList
<1>10. ASSUME NEW u \in Up, Crash(u) PROVE TypeOK'
  <2>1. LocalType' /\ PlaceType'
    BY <1>0, <1>10, EndType, Zenon DEF Crash
  <2>2. SharedType'
    BY <1>0, <1>10, Zenon DEF SharedType, Crash
  <2>3. CheckType' /\ failures' \in 0 .. MaxFailures
    BY <1>0, <1>10, FailureType, Zenon DEF CheckType, check, Crash
  <2>4. busy' \in BOOLEAN
    BY <1>0, <1>10, Zenon DEF Crash
  <2> QED
    BY <2>1, <2>2, <2>3, <2>4, Zenon DEF TypeOK, LocalType, PlaceType, CheckType, SharedType, InList
<1>11. ASSUME NEW c \in Checker, StartCheck(c) \/ CheckDB(c) PROVE TypeOK'
  <2>1. LocalType' /\ PlaceType' /\ SharedType'
    BY <1>0, <1>11, Zenon
    DEF LocalType, PlaceType, InList, SharedType, StartCheck, CheckDB, local, Current, At
  <2>2. failures' \in 0 .. MaxFailures
    BY <1>0, <1>11, FailureType, Zenon DEF StartCheck, CheckDB, Works
  <2>3. CheckType'
    <3>1. CASE NextDB(c)
      <4>1. cpos[c] \in 1 .. Len(Order) /\ (cpos[c] # Len(Order) => cpos[c] + 1 \in DOMAIN Order)
        BY <1>0, OrderDomain DEF CheckType
      <4> QED BY <1>0, <3>1, <4>1, Zenon DEF CheckType, NextDB
    <3>2. CASE ~NextDB(c)
      BY <1>0, <1>11, <3>2, OrderDomain DEF CheckType, StartCheck, CheckDB
    <3> QED BY <3>1, <3>2, Zenon
  <2>4. busy' \in BOOLEAN
    BY <1>0, <1>11, Zenon DEF StartCheck, CheckDB
  <2> QED
    BY <2>1, <2>2, <2>3, <2>4, Zenon DEF TypeOK, LocalType, PlaceType, CheckType, SharedType, InList
<1>12. CASE MutationDone \/ UNCHANGED vars
  <2>1. LocalType' /\ PlaceType' /\ CheckType' /\ SharedType' /\ failures' \in 0 .. MaxFailures
    BY <1>0, <1>12, Zenon
    DEF LocalType, PlaceType, InList, CheckType, SharedType, MutationDone, vars, local, check,
        Current, At
  <2>2. busy' \in BOOLEAN
    BY <1>0, <1>12, Zenon DEF MutationDone, vars
  <2> QED
    BY <2>1, <2>2, Zenon DEF TypeOK, LocalType, PlaceType, CheckType, SharedType, InList
<1> QED
  BY <1>1, <1>2, <1>3, <1>4, <1>5, <1>6, <1>7, <1>8, <1>9, <1>10, <1>11, <1>12, Zenon DEF Next, Step

-----------------------------------------------------------------------------
(* What a step does to the operations executed and to the table *)

LEMMA StepDone ==
  [Next]_vars
    => \/ UNCHANGED done
       \/ \E u \in Up : pc[u] = "exec" /\ done' = done \cup {<<At(u), item[u]>>}
BY Zenon DEF Next, Step, vars, Start, TimesOut, NextSquashed, CheckStatus, EndOfList,
       WaitForMutations, Execute, MarkFailed, MarkFinished, Crash, StartCheck, CheckDB,
       MutationDone

LEMMA AppliedGrows ==
  \A m :
    [Next]_vars /\ Applied(m) => Applied(m)'
BY StepDone, Zenon DEF Applied

\* What is Finished was, or has just been recorded by a process past its last operation.
LEMMA StepRows ==
  \A m \in Migration, s \in Shard :
    TypeOK /\ [Next]_vars /\ rows'[m][s] = "Finished"
      => \/ rows[m][s] = "Finished"
         \/ \E u \in Up : m = At(u) /\ pc[u] = "item" /\ item[u] \notin DOMAIN Items[At(u)]
<1> SUFFICES ASSUME TypeOK, [Next]_vars, NEW m \in Migration, NEW s \in Shard, rows'[m][s] = "Finished"
             PROVE  \/ rows[m][s] = "Finished"
                    \/ \E u \in Up : m = At(u) /\ pc[u] = "item" /\ item[u] \notin DOMAIN Items[At(u)]
  BY Zenon
<1>1. rows \in [Migration -> [Shard -> {"none", "Failed", "Finished"}]]
  BY Zenon DEF TypeOK
<1>2. ASSUME NEW u \in Up, MarkFailed(u) PROVE rows[m][s] = "Finished"
  <2>1. At(u) \in Migration
    BY <1>2, AtMigration, Zenon DEF MarkFailed, InList
  <2> QED BY <1>1, <1>2, <2>1 DEF MarkFailed, InsertMigrationEntry
<1>3. ASSUME NEW u \in Up, MarkFinished(u)
      PROVE  \/ rows[m][s] = "Finished"
             \/ m = At(u) /\ pc[u] = "item" /\ item[u] \notin DOMAIN Items[At(u)]
  <2>1. At(u) \in Migration
    BY <1>3, AtMigration, Zenon DEF MarkFinished, InList
  <2> QED BY <1>1, <1>3, <2>1, Zenon DEF MarkFinished, InsertMigrationEntry
<1>4. CASE UNCHANGED rows
  BY <1>4, Zenon
<1>5. UNCHANGED rows \/ \E u \in Up : MarkFailed(u) \/ MarkFinished(u)
  BY Zenon DEF Next, Step, vars, Start, TimesOut, NextSquashed, CheckStatus, EndOfList,
         WaitForMutations, Execute, Crash, StartCheck, CheckDB, MutationDone
<1> QED BY <1>2, <1>3, <1>4, <1>5, Zenon

\* A process past its last operation has the migration applied.
LEMMA PastIsApplied ==
  \A u \in Up :
    TypeOK /\ ItemInv /\ pc[u] = "item" /\ item[u] \notin DOMAIN Items[At(u)] => Applied(At(u))
<1> SUFFICES ASSUME TypeOK, ItemInv, NEW u \in Up, pc[u] = "item", item[u] \notin DOMAIN Items[At(u)]
             PROVE  Applied(At(u))
  BY Zenon
<1>1. Items[At(u)] \in Seq(Operation) /\ item[u] \in Nat \ {0}
  BY AtMigration, Zenon DEF InList, TypeOK
<1>2. \A i \in DOMAIN Items[At(u)] : i < item[u]
  BY <1>1
<1> QED BY <1>2, Zenon DEF ItemInv, Itemized, Applied

LEMMA StepFinished ==
  TypeOK /\ ItemInv /\ FinishedIsApplied /\ [Next]_vars => FinishedIsApplied'
<1> SUFFICES ASSUME TypeOK, ItemInv, FinishedIsApplied, [Next]_vars,
                    NEW m \in Migration, NEW s \in Shard, rows'[m][s] = "Finished"
             PROVE  Applied(m)'
  BY Zenon DEF FinishedIsApplied
<1> QED BY StepRows, PastIsApplied, AppliedGrows, Zenon DEF FinishedIsApplied

\* What a process reads as Finished is applied.
LEMMA ReadIsApplied ==
  \A m \in Migration :
    FinishedIsApplied /\ "Finished" \in Statuses(m) => Applied(m)
BY Zenon DEF FinishedIsApplied, Statuses

-----------------------------------------------------------------------------
(* The invariants of a process *)

Unmoved(u) ==
  /\ pc'[u] = pc[u] /\ squash'[u] = squash[u] /\ cur'[u] = cur[u]
  /\ phase'[u] = phase[u] /\ pos'[u] = pos[u] /\ item'[u] = item[u]

\* A step moves one process at most.
LEMMA OneMoves ==
  \A v \in Up :
    TypeOK /\ [Next]_vars => Unmoved(v) \/ Step(v) \/ Crash(v)
<1> SUFFICES ASSUME TypeOK, [Next]_vars, NEW v \in Up
             PROVE  Unmoved(v) \/ Step(v) \/ Crash(v)
  BY Zenon
<1>1. CASE \E u \in Up : Step(u) \/ Crash(u)
  <2>1. PICK u \in Up : Step(u) \/ Crash(u)
    BY <1>1, Zenon
  <2>2. CASE u # v
    <3>1. CASE \E l \in {"down", "backoff", "ok", "error"} : End(u, l)
      BY <2>2, <3>1, Zenon DEF TypeOK, Unmoved, End, Goto
    <3>2. CASE ~\E l \in {"down", "backoff", "ok", "error"} : End(u, l)
      BY <2>1, <2>2, <3>2, Zenon
      DEF TypeOK, Unmoved, Step, Start, TimesOut, NextSquashed, CheckStatus, EndOfList,
          WaitForMutations, Execute, MarkFailed, MarkFinished, Crash, BeginList, Advance, Goto
    <3> QED BY <3>1, <3>2, Zenon
  <2> QED BY <2>1, <2>2, Zenon
<1>2. CASE UNCHANGED local
  BY <1>2, Zenon DEF Unmoved, local
<1> QED
  BY <1>1, <1>2, Zenon DEF Next, vars, StartCheck, CheckDB, MutationDone

LEMMA UnmovedInv ==
  \A u \in Up :
    [Next]_vars /\ Looped(u) /\ Itemized(u) /\ SquashedSeen(u) /\ Unmoved(u)
      => Looped(u)' /\ Itemized(u)' /\ SquashedSeen(u)'
<1> SUFFICES ASSUME [Next]_vars, NEW u \in Up, Looped(u), Itemized(u), SquashedSeen(u), Unmoved(u)
             PROVE  Looped(u)' /\ Itemized(u)' /\ SquashedSeen(u)'
  BY Zenon
<1>1. Current(u)' = Current(u) /\ At(u)' = At(u) /\ InList(u)' = InList(u) /\ Seen(u)' = Seen(u)
  BY Zenon DEF Unmoved, Current, At, InList, Seen
<1>2. Looped(u)'
  BY <1>1, AppliedGrows, Zenon DEF Looped, Unmoved
<1>3. Itemized(u)'
  BY <1>1, StepDone, Zenon DEF Itemized, Unmoved
<1>4. SquashedSeen(u)'
  BY <1>1, AppliedGrows, Zenon DEF SquashedSeen, ModeApplied, Unmoved
<1> QED BY <1>2, <1>3, <1>4, Zenon

\* A command that ends, or has not begun a list, has nothing to keep.
LEMMA EndInv ==
  \A u \in Up, l \in {"down", "backoff", "ok", "error"} :
    TypeOK /\ End(u, l) => Looped(u)' /\ Itemized(u)' /\ SquashedSeen(u)'
BY DEF TypeOK, End, Goto, Looped, Itemized, SquashedSeen, InList

\* The process goes on to the next migration of the list.
LEMMA AdvanceInv ==
  \A u \in Up :
    /\ TypeOK /\ [Next]_vars /\ Looped(u) /\ SquashedSeen(u) /\ InList(u) /\ Advance(u)
    /\ Selected(Mode[u], At(u)) => Applied(At(u))
    => Looped(u)' /\ Itemized(u)' /\ SquashedSeen(u)'
<1> SUFFICES ASSUME TypeOK, [Next]_vars, NEW u \in Up, Looped(u), SquashedSeen(u), InList(u), Advance(u),
                    Selected(Mode[u], At(u)) => Applied(At(u))
             PROVE  Looped(u)' /\ Itemized(u)' /\ SquashedSeen(u)'
  BY Zenon
<1>1. /\ pc'[u] = "check" /\ pos'[u] = pos[u] + 1 /\ item'[u] = 1 /\ InList(u)'
      /\ Current(u)' = Current(u) /\ pos[u] \in Nat /\ Seen(u)' = Seen(u)
  BY Zenon DEF TypeOK, Advance, Goto, InList, Current, Seen
<1>2. Looped(u)'
  <2> SUFFICES ASSUME NEW j \in DOMAIN Current(u), j < pos[u] + 1,
                      Selected(Mode[u], Current(u)[j])
               PROVE  Applied(Current(u)[j])'
    BY <1>1, Zenon DEF Looped
  <2>1. Current(u) \in Seq(Migration)
    BY AtMigration, Zenon
  <2>2. CASE j = pos[u]
    BY <1>1, <2>2, AppliedGrows, Zenon DEF At
  <2>3. CASE j < pos[u]
    BY <1>1, <2>3, AppliedGrows, Zenon DEF Looped
  <2> QED BY <1>1, <2>1, <2>2, <2>3, Before, Zenon
<1>3. Itemized(u)'
  BY <1>1, Zenon DEF Itemized
<1>4. SquashedSeen(u)'
  BY <1>1, AppliedGrows, Zenon DEF SquashedSeen, ModeApplied
<1> QED BY <1>2, <1>3, <1>4, Zenon

\* The process begins a list.
LEMMA BeginListInv ==
  \A u \in Up, k \in 0 .. Len(Order) :
    /\ TypeOK /\ [Next]_vars /\ SquashedSeen(u) /\ Itemized(u) /\ pc[u] \in {"squash", "check"}
    /\ BeginList(u, k) /\ UNCHANGED item
    /\ Legacy = {} => Seen(u)' \subseteq Seen(u)
    => Looped(u)' /\ Itemized(u)' /\ SquashedSeen(u)'
<1> SUFFICES ASSUME TypeOK, [Next]_vars, NEW u \in Up, NEW k \in 0 .. Len(Order), SquashedSeen(u),
                    Itemized(u), pc[u] \in {"squash", "check"}, BeginList(u, k), UNCHANGED item,
                    Legacy = {} => Seen(u)' \subseteq Seen(u)
             PROVE  Looped(u)' /\ Itemized(u)' /\ SquashedSeen(u)'
  BY Zenon
<1>1. /\ pc'[u] = "check" /\ pos'[u] = 1 /\ phase'[u] = k /\ item'[u] = 1
      /\ pc[u] = "squash" \/ InList(u)
  BY Zenon DEF TypeOK, BeginList, Goto, Itemized, InList
<1>2. Looped(u)'
  <2>1. TypeOK'
    BY StepType, Zenon
  <2>2. phase'[u] = 0 => cur'[u] \in SquashedDB
    BY <1>1, <2>1, Zenon DEF TypeOK
  <2>3. Current(u)' \in Seq(Migration)
    <3>1. CASE k = 0
      BY <1>1, <2>2, <3>1, Lists, Zenon DEF Current
    <3>2. CASE k # 0
      <4>1. Order[k] \in DB
        BY <3>2, OrderDomain
      <4> QED BY <1>1, <3>2, <4>1, Lists, Zenon DEF Current
    <3> QED BY <3>1, <3>2, Zenon
  <2>4. \A j \in DOMAIN Current(u)' : ~(j < 1)
    BY <2>3
  <2> QED BY <1>1, <2>4, Zenon DEF Looped
<1>3. Itemized(u)'
  BY <1>1, Zenon DEF Itemized
<1>4. SquashedSeen(u)'
  BY <1>1, AppliedGrows, Zenon DEF SquashedSeen, ModeApplied
<1> QED BY <1>2, <1>3, <1>4, Zenon

\* The process stays at its migration.
LEMMA StayInv ==
  \A u \in Up :
    /\ TypeOK /\ [Next]_vars /\ Looped(u) /\ SquashedSeen(u) /\ InList(u) /\ InList(u)'
    /\ UNCHANGED <<squash, cur, phase, pos>>
    => Looped(u)' /\ SquashedSeen(u)' /\ At(u)' = At(u)
<1> SUFFICES ASSUME TypeOK, [Next]_vars, NEW u \in Up, Looped(u), SquashedSeen(u), InList(u),
                    InList(u)', UNCHANGED <<squash, cur, phase, pos>>
             PROVE  Looped(u)' /\ SquashedSeen(u)' /\ At(u)' = At(u)
  BY Zenon
<1>1. /\ Current(u)' = Current(u) /\ At(u)' = At(u) /\ pos'[u] = pos[u] /\ Seen(u)' = Seen(u)
  BY Zenon DEF InList, Current, At, Seen
<1>2. Looped(u)'
  BY <1>1, AppliedGrows, Zenon DEF Looped
<1>3. SquashedSeen(u)'
  BY <1>1, AppliedGrows, Zenon DEF SquashedSeen, ModeApplied
<1> QED BY <1>1, <1>2, <1>3, Zenon

LEMMA MovedInv ==
  \A u \in Up :
    /\ TypeOK /\ FinishedIsApplied /\ ItemInv /\ [Next]_vars /\ Looped(u) /\ Itemized(u)
    /\ SquashedSeen(u)
    /\ Step(u) \/ Crash(u)
    => Looped(u)' /\ Itemized(u)' /\ SquashedSeen(u)'
<1> SUFFICES ASSUME TypeOK, FinishedIsApplied, ItemInv, [Next]_vars, NEW u \in Up,
                    Looped(u), Itemized(u), SquashedSeen(u), Step(u) \/ Crash(u)
             PROVE  Looped(u)' /\ Itemized(u)' /\ SquashedSeen(u)'
  BY Zenon
<1> DEFINE Goal == Looped(u)' /\ Itemized(u)' /\ SquashedSeen(u)'
<1>1. CASE Start(u)
  BY <1>1, Zenon DEF TypeOK, Start, Goto, Looped, Itemized, SquashedSeen, Seen, InList
<1>2. CASE TimesOut(u)
  BY <1>2, Zenon DEF TypeOK, TimesOut, Goto, Looped, Itemized, SquashedSeen, InList
<1>3. CASE NextSquashed(u)
  <2>1. CASE /\ squash[u] \cap Legacy # {} \/ squash[u] = {}
             /\ BeginList(u, 1) /\ UNCHANGED <<squash, cur, item>>
    <3>1. Legacy = {} => Seen(u)' \subseteq Seen(u)
      BY <1>3, <2>1, Zenon DEF NextSquashed, BeginList, Goto, Seen
    <3> QED BY <1>3, <2>1, <3>1, BeginListInv, OrderDomain DEF NextSquashed
  <2>2. ASSUME NEW d \in squash[u], BeginList(u, 0), cur' = [cur EXCEPT ![u] = d],
               squash' = [squash EXCEPT ![u] = @ \ {d}], UNCHANGED item
        PROVE  Goal
    <3>1. Seen(u)' \subseteq Seen(u)
      BY <1>3, <2>2, Zenon DEF TypeOK, NextSquashed, BeginList, Goto, Seen
    <3> QED BY <1>3, <2>2, <3>1, BeginListInv, OrderDomain DEF NextSquashed
  <2>3. CASE End(u, "backoff")
    BY <2>3, EndInv, Zenon
  <2> QED BY <1>3, <2>1, <2>2, <2>3, Zenon DEF NextSquashed
<1>4. CASE CheckStatus(u)
  <2>0. InList(u) /\ Current(u) \in Seq(Migration) /\ At(u) \in Migration /\ pc[u] = "check"
    <3>1. InList(u) /\ pc[u] = "check" /\ pos[u] \in DOMAIN Current(u)
      BY <1>4, Zenon DEF CheckStatus, InList
    <3>2. Current(u) \in Seq(Migration)
      BY <3>1, AtMigration, Zenon
    <3> QED BY <3>1, <3>2 DEF At
  <2>1. CASE /\ ~Selected(Mode[u], At(u)) \/ "Finished" \in Statuses(At(u))
             /\ Advance(u)
    BY <2>0, <2>1, ReadIsApplied, AdvanceInv, Zenon
  <2>2. CASE Goto(u, "item") /\ UNCHANGED <<squash, cur, phase, pos, item>>
    <3>1. pc'[u] = "item" /\ item'[u] = 1
      BY <2>0, <2>2, Zenon DEF TypeOK, Goto, Itemized
    <3>2. Looped(u)' /\ SquashedSeen(u)' /\ At(u)' = At(u)
      BY <2>0, <2>2, <3>1, StayInv, Zenon DEF InList
    <3>3. Itemized(u)'
      <4>1. Items[At(u)] \in Seq(Operation)
        BY <2>0, ItemsAssumption, Zenon
      <4>2. \A i \in DOMAIN Items[At(u)] : ~(i < 1)
        BY <4>1
      <4> QED BY <3>1, <3>2, <4>2, Zenon DEF Itemized
    <3> QED BY <3>2, <3>3, Zenon
  <2>3. CASE End(u, "backoff")
    BY <2>3, EndInv, Zenon
  <2> QED BY <1>4, <2>1, <2>2, <2>3, Zenon DEF CheckStatus
<1>5. CASE EndOfList(u)
  <2>0. InList(u) /\ pc[u] = "check"
    BY <1>5, Zenon DEF EndOfList, InList
  <2>1. CASE phase[u] = 0 /\ Goto(u, "squash") /\ UNCHANGED <<squash, cur, phase, pos, item>>
    <3>1. pc'[u] = "squash" /\ ~InList(u)'
      BY <2>1, Zenon DEF TypeOK, Goto, InList
    <3>2. Current(u) = Squashed[cur[u]] /\ Current(u) \in Seq(Migration) /\ pos[u] \in Nat \ {0}
      BY <2>0, <2>1, AtMigration, Zenon DEF Current, TypeOK
    <3>3. \A j \in DOMAIN Current(u) : j < pos[u]
      BY <1>5, <3>2, PastEnd, Zenon DEF EndOfList
    <3>4. ModeApplied(Mode[u], Squashed[cur[u]])
      BY <2>0, <3>2, <3>3, Zenon DEF Looped, ModeApplied
    <3>5. Seen(u)' \subseteq Seen(u) \cup {cur[u]}
      BY <2>0, <2>1, <3>1, Zenon DEF Seen
    <3>6. SquashedSeen(u)'
      BY <2>0, <3>4, <3>5, AppliedGrows, Zenon DEF SquashedSeen, ModeApplied
    <3> QED BY <2>0, <2>1, <3>1, <3>6, Zenon DEF Looped, Itemized
  <2>2. CASE /\ phase[u] \in 1 .. Len(Order) - 1
             /\ BeginList(u, phase[u] + 1) /\ UNCHANGED <<squash, cur, item>>
    <3>1. phase[u] + 1 \in 0 .. Len(Order) /\ phase[u] # 0
      BY <2>2, OrderDomain
    <3>2. Seen(u) = SquashedDB
      BY <2>0, <3>1, Zenon DEF Seen
    <3>3. Seen(u)' \subseteq SquashedDB
      BY Zenon DEF Seen
    <3> QED BY <2>0, <2>2, <3>1, <3>2, <3>3, BeginListInv, Zenon
  <2>3. CASE End(u, "ok")
    BY <2>3, EndInv, Zenon
  <2> QED BY <1>5, <2>1, <2>2, <2>3, Zenon DEF EndOfList
<1>6. CASE WaitForMutations(u)
  <2>1. /\ InList(u) /\ InList(u)' /\ pc[u] = "item" /\ item'[u] = item[u]
        /\ pc'[u] \in {"exec", "fail"} /\ UNCHANGED <<squash, cur, phase, pos, done>>
        /\ item[u] \in DOMAIN Items[At(u)]
    BY <1>6, Zenon DEF TypeOK, WaitForMutations, Goto, InList
  <2>2. Looped(u)' /\ SquashedSeen(u)' /\ At(u)' = At(u)
    BY <2>1, StayInv, Zenon
  <2>3. Itemized(u)'
    BY <2>1, <2>2, Zenon DEF Itemized
  <2> QED BY <2>2, <2>3, Zenon
<1>7. CASE Execute(u)
  <2>1. /\ InList(u) /\ InList(u)' /\ pc[u] = "exec" /\ UNCHANGED <<squash, cur, phase, pos>>
        /\ \/ pc'[u] = "item" /\ item'[u] = item[u] + 1 /\ <<At(u), item[u]>> \in done'
           \/ pc'[u] = "fail" /\ item'[u] = item[u]
        /\ done \subseteq done' /\ item[u] \in Nat
    BY <1>7, Zenon DEF TypeOK, Execute, Goto, InList
  <2>2. Looped(u)' /\ SquashedSeen(u)' /\ At(u)' = At(u)
    BY <2>1, StayInv, Zenon
  <2>3. Items[At(u)] \in Seq(Operation)
    BY <2>1, AtMigration, Zenon
  <2>4. Itemized(u)'
    <3>1. CASE pc'[u] = "item" /\ item'[u] = item[u] + 1 /\ <<At(u), item[u]>> \in done'
      <4>1. \A i \in DOMAIN Items[At(u)] : i < item[u] + 1 => <<At(u), i>> \in done'
        BY <2>1, <2>3, <3>1, Before, Zenon DEF Itemized
      <4> QED BY <2>2, <3>1, <4>1, Zenon DEF Itemized
    <3>2. CASE pc'[u] = "fail" /\ item'[u] = item[u]
      BY <2>1, <2>2, <3>2, Zenon DEF Itemized
    <3> QED BY <2>1, <3>1, <3>2, Zenon
  <2> QED BY <2>2, <2>4, Zenon
<1>8. CASE MarkFailed(u)
  BY <1>8, EndInv, Zenon DEF MarkFailed
<1>9. CASE MarkFinished(u)
  <2>1. CASE Advance(u)
    BY <1>9, <2>1, PastIsApplied, AdvanceInv, Zenon DEF MarkFinished, InList
  <2>2. CASE End(u, IF Mode[u] = "sync" THEN "backoff" ELSE "error")
    BY <2>2, EndInv, Zenon
  <2> QED BY <1>9, <2>1, <2>2, Zenon DEF MarkFinished
<1>10. CASE Crash(u)
  BY <1>10, EndInv, Zenon DEF Crash
<1> QED
  BY <1>1, <1>2, <1>3, <1>4, <1>5, <1>6, <1>7, <1>8, <1>9, <1>10, Zenon DEF Step

LEMMA StepLocal ==
  TypeOK /\ FinishedIsApplied /\ LoopInv /\ ItemInv /\ SquashInv /\ [Next]_vars
  => LoopInv' /\ ItemInv' /\ SquashInv'
<1> SUFFICES ASSUME TypeOK, FinishedIsApplied, LoopInv, ItemInv, SquashInv, [Next]_vars,
                    NEW u \in Up
             PROVE  Looped(u)' /\ Itemized(u)' /\ SquashedSeen(u)'
  BY Zenon DEF LoopInv, ItemInv, SquashInv
<1>1. Looped(u) /\ Itemized(u) /\ SquashedSeen(u)
  BY Zenon DEF LoopInv, ItemInv, SquashInv
<1> QED BY <1>1, OneMoves, UnmovedInv, MovedInv, Zenon

-----------------------------------------------------------------------------
(* The order of the migrations *)

\* A migration is begun by a process that is at it.
LEMMA NewlyBegun ==
  \A m \in Migration :
    TypeOK /\ [Next]_vars /\ Begun(m)' /\ ~Begun(m) => \E u \in Up : pc[u] = "exec" /\ m = At(u)
<1> SUFFICES ASSUME TypeOK, [Next]_vars, NEW m \in Migration, Begun(m)', ~Begun(m)
             PROVE  \E u \in Up : pc[u] = "exec" /\ m = At(u)
  BY Zenon
<1>1. PICK i \in DOMAIN Items[m] : <<m, i>> \in done'
  BY Zenon DEF Begun
<1>2. <<m, i>> \notin done
  BY <1>1, Zenon DEF Begun
<1> QED BY <1>1, <1>2, StepDone

LEMMA StepOrder ==
  TypeOK /\ LoopInv /\ AppliedInOrder /\ [Next]_vars => AppliedInOrder'
<1> SUFFICES ASSUME TypeOK, LoopInv, AppliedInOrder, [Next]_vars,
                    NEW mode \in {"sync", "async"}, NEW list \in AllLists,
                    NEW j \in DOMAIN list, NEW k \in DOMAIN list,
                    j < k, Selected(mode, list[j]), Selected(mode, list[k]), Begun(list[k])'
             PROVE  Applied(list[j])'
  BY Zenon DEF AppliedInOrder, AllLists
<1>1. CASE Begun(list[k])
  BY <1>1, AppliedGrows, Zenon DEF AppliedInOrder, AllLists
<1>2. CASE ~Begun(list[k])
  <2>1. list \in Seq(Migration)
    BY Lists, Zenon DEF AllLists
  <2>2. PICK u \in Up : pc[u] = "exec" /\ list[k] = At(u)
    BY <1>2, <2>1, NewlyBegun
  <2>3. Selected(Mode[u], At(u)) /\ pos[u] \in DOMAIN Current(u) /\ InList(u)
    BY <2>2, Zenon DEF TypeOK, InList
  <2>4. Mode[u] = mode
    <3>1. At(u) \in Migration
      BY <2>1, <2>2
    <3> QED BY <2>2, <2>3, <3>1, OneMode, Modes, Zenon
  <2>5. Current(u) = list /\ pos[u] = k
    <3>1. \/ phase[u] = 0 /\ cur[u] \in SquashedDB /\ Current(u) = Squashed[cur[u]]
          \/ Order[phase[u]] \in DB /\ Current(u) = Main[Order[phase[u]]]
      <4>1. (phase[u] = 0 /\ cur[u] \in SquashedDB) \/ phase[u] \in 1 .. Len(Order)
        BY <2>2, OrderDomain, TypeParts DEF LocalType, PlaceType, InList
      <4> QED BY <4>1, OrderDomain DEF Current
    <3>2. Current(u)[pos[u]] = list[k]
      BY <2>2, Zenon DEF At
    <3>3. Current(u) \in AllLists
      BY <3>1, Zenon DEF AllLists
    <3> QED BY <2>3, <3>2, <3>3, Once
  <2>6. Applied(list[j])
    BY <2>3, <2>4, <2>5, Zenon DEF LoopInv, Looped
  <2> QED BY <2>6, AppliedGrows, Zenon
<1> QED BY <1>1, <1>2, Zenon

LEMMA StepSquashedFirst ==
  TypeOK /\ SquashInv /\ SquashedFirst /\ [Next]_vars => SquashedFirst'
<1> SUFFICES ASSUME TypeOK, SquashInv, SquashedFirst, [Next]_vars, Legacy = {},
                    NEW mode \in {"sync", "async"}, NEW d \in DB, NEW e \in SquashedDB,
                    NEW k \in DOMAIN Main[d], Selected(mode, Main[d][k]), Begun(Main[d][k])',
                    NEW j \in DOMAIN Squashed[e], Selected(mode, Squashed[e][j])
             PROVE  Applied(Squashed[e][j])'
  BY Zenon DEF SquashedFirst
<1>1. CASE Begun(Main[d][k])
  BY <1>1, AppliedGrows, Zenon DEF SquashedFirst
<1>2. CASE ~Begun(Main[d][k])
  <2>1. Main[d][k] \in Migration
    BY ListsAssumption
  <2>2. PICK u \in Up : pc[u] = "exec" /\ Main[d][k] = At(u)
    BY <1>2, <2>1, NewlyBegun, Zenon
  <2>3. Selected(Mode[u], At(u)) /\ pos[u] \in DOMAIN Current(u) /\ InList(u)
    BY <2>2, Zenon DEF TypeOK, InList
  <2>4. Mode[u] = mode
    BY <2>1, <2>2, <2>3, OneMode, Modes, Zenon
  <2>5. phase[u] # 0
    <3> SUFFICES ASSUME phase[u] = 0 PROVE FALSE
      BY Zenon
    <3>1. cur[u] \in SquashedDB /\ Current(u) = Squashed[cur[u]]
      BY <2>2, Zenon DEF TypeOK, Current
    <3>2. /\ cur[u] \in DOMAIN Squashed /\ pos[u] \in DOMAIN Squashed[cur[u]]
          /\ Main[d][k] = Squashed[cur[u]][pos[u]]
      BY <2>2, <2>3, <3>1, Zenon DEF At, SquashedDB
    <3> QED BY <3>2, OnceAssumption
  <2>6. Seen(u) = SquashedDB
    BY <2>2, <2>5, Zenon DEF Seen
  <2>7. Applied(Squashed[e][j])
    BY <2>3, <2>4, <2>6, Zenon DEF SquashInv, SquashedSeen, ModeApplied
  <2> QED BY <2>7, AppliedGrows, Zenon
<1> QED BY <1>1, <1>2, Zenon

-----------------------------------------------------------------------------
(* Checks *)

\* The last migration of a mode is Finished: all those of the mode are applied.
LEMMA LastIsAll ==
  \A mode \in {"sync", "async"}, d \in DB : \A i \in LastMigration(mode, Main[d]) :
    FinishedIsApplied /\ AppliedInOrder /\ "Finished" \in Statuses(Main[d][i])
      => ModeApplied(mode, Main[d])
<1> SUFFICES ASSUME FinishedIsApplied, AppliedInOrder, NEW mode \in {"sync", "async"}, NEW d \in DB,
                    NEW i \in LastMigration(mode, Main[d]), "Finished" \in Statuses(Main[d][i])
             PROVE  ModeApplied(mode, Main[d])
  BY Zenon
<1>1. Main[d] \in Seq(Migration) /\ i \in DOMAIN Main[d] /\ Selected(mode, Main[d][i])
  BY ListsAssumption, Zenon DEF LastMigration
<1>2. Applied(Main[d][i])
  BY <1>1, ReadIsApplied
<1>3. Begun(Main[d][i])
  <2>1. Items[Main[d][i]] \in Seq(Operation) /\ Len(Items[Main[d][i]]) > 0
    BY <1>1, ItemsAssumption
  <2>2. 1 \in DOMAIN Items[Main[d][i]]
    BY <2>1
  <2> QED BY <1>2, <2>2, Zenon DEF Applied, Begun
<1> SUFFICES ASSUME NEW j \in DOMAIN Main[d], Selected(mode, Main[d][j])
             PROVE  Applied(Main[d][j])
  BY Zenon DEF ModeApplied
<1>4. CASE j < i
  BY <1>1, <1>3, <1>4, Zenon DEF AppliedInOrder
<1>5. CASE j > i
  BY <1>1, <1>5 DEF LastMigration
<1> QED BY <1>1, <1>2, <1>4, <1>5

LEMMA ModeGrows ==
  \A mode, list :
    [Next]_vars /\ ModeApplied(mode, list) => ModeApplied(mode, list)'
BY AppliedGrows, Zenon DEF ModeApplied

\* The check goes on to the next database, or passes.
LEMMA NextDBInv ==
  \A c \in Checker :
    /\ TypeOK /\ [Next]_vars /\ Checked(c) /\ cpc[c] = "check" /\ NextDB(c)
    /\ ModeApplied(Mode[c], Main[Order[cpos[c]]])
    => Checked(c)'
<1> SUFFICES ASSUME TypeOK, [Next]_vars, NEW c \in Checker, Checked(c), cpc[c] = "check", NextDB(c),
                    ModeApplied(Mode[c], Main[Order[cpos[c]]])
             PROVE  Checked(c)'
  BY Zenon
<1> DEFINE q == cpos[c]
<1>0. q \in 1 .. Len(Order) /\ Len(Order) \in Nat
  BY OrderDomain, Zenon DEF TypeOK
<1>1. /\ cpc'[c] \in {"check", "passed"}
      /\ cpc'[c] = "check" => cpos'[c] = q + 1
      /\ cpc'[c] = "passed" =>
           \/ q = Len(Order)
           \/ /\ Mode[c] = "async" /\ Order[q] \in LastAsync
              /\ LastMigration(Mode[c], Main[Order[q]]) # {}
  BY OrderDomain, Zenon DEF TypeOK, NextDB
<1>2. \A k \in 1 .. Len(Order) : k < q + 1 => ModeApplied(Mode[c], Main[Order[k]])
  <2> SUFFICES ASSUME NEW k \in 1 .. Len(Order), k < q + 1
               PROVE  ModeApplied(Mode[c], Main[Order[k]])
    BY Zenon
  <2>1. CASE k = q
    BY <2>1, Zenon
  <2>2. CASE k < q
    BY <2>2, OrderDomain, Zenon DEF Checked
  <2>3. k = q \/ k < q
    BY <1>0
  <2> QED BY <2>1, <2>2, <2>3, Zenon
<1>3. ASSUME cpc'[c] = "passed", NEW k \in 1 .. Len(Order), k > q
      PROVE  ModeApplied(Mode[c], Main[Order[k]])
  <2>1. /\ Mode[c] = "async" /\ Order[q] \in LastAsync
        /\ LastMigration(Mode[c], Main[Order[q]]) # {}
    <3>1. q # Len(Order)
      BY <1>0, <1>3
    <3> QED BY <1>1, <1>3, <3>1, Zenon
  <2>2. ~\A h \in DOMAIN Main[Order[q]] : ~IsAsync(Items[Main[Order[q]][h]])
    BY <2>1, Zenon DEF LastMigration, Selected
  <2>3. \A i \in DOMAIN Main[Order[k]] : ~IsAsync(Items[Main[Order[k]][i]])
    BY <1>0, <1>3, <2>1, <2>2, LastAsyncAssumption, OrderDomain, Zenon
  <2> QED BY <2>1, <2>3, Zenon DEF ModeApplied, Selected
<1>4. cpc'[c] = "passed" => \A k \in 1 .. Len(Order) : ModeApplied(Mode[c], Main[Order[k]])
  <2> SUFFICES ASSUME cpc'[c] = "passed", NEW k \in 1 .. Len(Order)
               PROVE  ModeApplied(Mode[c], Main[Order[k]])
    BY Zenon
  <2>1. k > q \/ k < q + 1
    BY <1>0
  <2> QED BY <1>2, <1>3, <2>1, Zenon
<1>5. cpc'[c] = "passed" => \A d \in DB : ModeApplied(Mode[c], Main[d])
  BY <1>4, OrderDomain, ListsAssumption, Zenon
<1>6. cpc'[c] = "passed" => \A d \in DB : ModeApplied(Mode[c], Main[d])'
  BY <1>5, ModeGrows, Zenon
<1>7. cpc'[c] = "check" => \A k \in DOMAIN Order :
                            k < cpos'[c] => ModeApplied(Mode[c], Main[Order[k]])'
  BY <1>1, <1>2, ModeGrows, OrderDomain, Zenon
<1> QED BY <1>1, <1>6, <1>7, Zenon DEF Checked

LEMMA StepCheck ==
  TypeOK /\ FinishedIsApplied /\ AppliedInOrder /\ CheckInv /\ [Next]_vars => CheckInv'
<1> SUFFICES ASSUME TypeOK, FinishedIsApplied, AppliedInOrder, CheckInv, [Next]_vars,
                    NEW c \in Checker
             PROVE  Checked(c)'
  BY Zenon DEF CheckInv
<1>0. Checked(c) /\ CheckType
  BY TypeParts, Zenon DEF CheckInv
<1>1. CASE cpc'[c] = cpc[c] /\ cpos'[c] = cpos[c]
  BY <1>0, <1>1, ModeGrows, Zenon DEF Checked
<1>2. CASE StartCheck(c)
  <2>1. cpc'[c] = "check" /\ cpos'[c] = 1
    BY <1>0, <1>2, Zenon DEF CheckType, Checked, StartCheck
  <2> QED BY <2>1, OrderDomain DEF Checked
<1>3. CASE CheckDB(c)
  <2>1. Mode[c] \in {"sync", "async"} /\ cpc[c] = "check"
    BY <1>3, Modes, Zenon DEF CheckDB
  <2>2. Order[cpos[c]] \in DB
    BY <1>0, OrderDomain, Zenon DEF CheckType
  <2>3. CASE LastMigration(Mode[c], Main[Order[cpos[c]]]) = {} /\ NextDB(c)
    <3>1. ModeApplied(Mode[c], Main[Order[cpos[c]]])
      BY <2>2, <2>3, LastExists, Lists, Zenon DEF ModeApplied
    <3> QED BY <1>0, <2>1, <2>3, <3>1, NextDBInv, Zenon
  <2>4. ASSUME NEW i \in LastMigration(Mode[c], Main[Order[cpos[c]]]),
               "Finished" \in Statuses(Main[Order[cpos[c]]][i]), NextDB(c)
        PROVE  Checked(c)'
    <3>1. ModeApplied(Mode[c], Main[Order[cpos[c]]])
      BY <2>1, <2>2, <2>4, LastIsAll, Zenon
    <3> QED BY <1>0, <2>1, <2>4, <3>1, NextDBInv, Zenon
  <2>5. CASE /\ cpos' = [cpos EXCEPT ![c] = 1]
             /\ UNCHANGED cpc \/ cpc' = [cpc EXCEPT ![c] = "failed"]
    <3>1. cpos'[c] = 1 /\ cpc'[c] \in {"check", "failed"}
      BY <1>0, <2>1, <2>5, Zenon DEF CheckType
    <3> QED BY <3>1, OrderDomain DEF Checked
  <2> QED BY <1>3, <2>3, <2>4, <2>5, Zenon DEF CheckDB
<1>4. ASSUME NEW b \in Checker \ {c}, StartCheck(b) \/ CheckDB(b)
      PROVE  cpc'[c] = cpc[c] /\ cpos'[c] = cpos[c]
  BY <1>0, <1>4, Zenon DEF CheckType, StartCheck, CheckDB, NextDB
<1>5. CASE UNCHANGED check
  BY <1>1, <1>5, Zenon DEF check
<1> QED
  BY <1>1, <1>2, <1>3, <1>4, <1>5, Zenon
  DEF Next, Step, vars, Start, TimesOut, NextSquashed, CheckStatus, EndOfList,
      WaitForMutations, Execute, MarkFailed, MarkFinished, Crash, MutationDone

-----------------------------------------------------------------------------
(* The theorems *)

LEMMA InitInv == Init => Inv
<1> SUFFICES ASSUME Init PROVE Inv
  BY Zenon
<1>1. TypeOK
  BY InitType, Zenon
<1>2. LoopInv /\ ItemInv /\ SquashInv /\ CheckInv
  BY Zenon DEF Init, LoopInv, Looped, ItemInv, Itemized, SquashInv, SquashedSeen, CheckInv, Checked, InList
<1>3. FinishedIsApplied
  BY Zenon DEF Init, FinishedIsApplied
<1>4. AppliedInOrder /\ SquashedFirst
  BY Zenon DEF Init, AppliedInOrder, SquashedFirst, Begun
<1> QED BY <1>1, <1>2, <1>3, <1>4, Zenon DEF Inv

LEMMA StepInv == Inv /\ [Next]_vars => Inv'
BY StepType, StepFinished, StepLocal, StepOrder, StepSquashedFirst, StepCheck, Zenon DEF Inv

THEOREM Invariance == Spec => []Inv
BY InitInv, StepInv, PTL DEF Spec

\* The variables of the commands and of the table keep their types: a command is
\* at a migration of its list and of its mode while it runs its operations.
THEOREM TypeCorrect == Spec => []TypeOK
<1>1. Inv => TypeOK
  BY Zenon DEF Inv
<1> QED BY <1>1, Invariance, PTL

\* A migration recorded as Finished has all its operations executed, with any
\* number of commands running, failing and being killed, and of shards.
THEOREM FinishedTheorem == Spec => []FinishedIsApplied
<1>1. Inv => FinishedIsApplied
  BY Zenon DEF Inv
<1> QED BY <1>1, Invariance, PTL

\* Migrations of a mode are applied in the order of their list, whatever the
\* lists are, by any number of commands.
THEOREM OrderTheorem == Spec => []AppliedInOrder
<1>1. Inv => AppliedInOrder
  BY Zenon DEF Inv
<1> QED BY <1>1, Invariance, PTL

\* Without legacy tables, squashed migrations come before all others.
THEOREM SquashedTheorem == Spec => []SquashedFirst
<1>1. Inv => SquashedFirst
  BY Zenon DEF Inv
<1> QED BY <1>1, Invariance, PTL

\* A check that passes, having looked at one migration per database, implies
\* that all the migrations of its mode are applied in all databases.
THEOREM CheckTheorem == Spec => []CheckedIsApplied
<1>1. Inv => CheckedIsApplied
  BY Zenon DEF Inv, CheckInv, Checked, ModeApplied, CheckedIsApplied
<1> QED BY <1>1, Invariance, PTL

-----------------------------------------------------------------------------
(* What a step of a push changes *)

\* A step of the push p touches the places of no other push, and what is stored or
\* lost stays so.
Frame(p) ==
  /\ DOMAIN ppc' = Pusher /\ DOMAIN pbatch' = Pusher /\ DOMAIN pstat' = Pusher /\ DOMAIN stmt' = Pusher
  /\ \A q \in Pusher : q # p =>
       ppc'[q] = ppc[q] /\ pbatch'[q] = pbatch[q] /\ pstat'[q] = pstat[q] /\ stmt'[q] = stmt[q]
  /\ DOMAIN table' = Table /\ \A t \in Table : table[t] \subseteq table'[t]
  /\ lost \subseteq lost'

Domains ==
  /\ DOMAIN ppc = Pusher /\ DOMAIN pbatch = Pusher /\ DOMAIN pstat = Pusher /\ DOMAIN stmt = Pusher
  /\ DOMAIN table = Table

\* The push p returned.
Returned(p, ok) ==
  /\ DOMAIN ppc' = Pusher /\ DOMAIN pbatch' = Pusher /\ DOMAIN pstat' = Pusher /\ DOMAIN stmt' = Pusher
  /\ ppc'[p] = "idle" /\ pbatch'[p] = NoBatch /\ stmt'[p] = NoRows
  /\ \A q \in Pusher : q # p =>
       ppc'[q] = ppc[q] /\ pbatch'[q] = pbatch[q] /\ pstat'[q] = pstat[q] /\ stmt'[q] = stmt[q]
  /\ acked' = IF ok THEN acked \cup {pbatch[p]} ELSE acked

LEMMA ReturnEffect ==
  \A p \in Pusher : \A ok :
    Domains /\ Return(p, ok) => Returned(p, ok)
BY Zenon DEF Domains, Return, Returned

LEMMA InsertEffect ==
  \A t \in Table : \A rs, billable, out :
    Domains /\ Insert(t, rs, billable, out)
      => /\ DOMAIN table' = Table /\ \A u \in Table : table[u] \subseteq table'[u]
         /\ \A u \in Table : u # t => table'[u] = table[u]
         /\ out # "refused" => table'[t] = table[t] \cup rs
<1> SUFFICES ASSUME Domains, NEW t \in Table, NEW rs, NEW billable, NEW out, Insert(t, rs, billable, out)
             PROVE  /\ DOMAIN table' = Table /\ \A u \in Table : table[u] \subseteq table'[u]
                    /\ \A u \in Table : u # t => table'[u] = table[u]
                    /\ out # "refused" => table'[t] = table[t] \cup rs
  OBVIOUS
<1>1. CASE out = "refused" BY <1>1, Zenon DEF Insert, Domains
<1>2. CASE out # "refused"
  <2>1. table' = [table EXCEPT ![t] = @ \cup rs] BY <1>2, Zenon DEF Insert
  <2> QED BY <1>2, <2>1, Zenon DEF Domains
<1> QED BY <1>1, <1>2, Zenon

\* The step of a writer that sends one statement.
Wrote(p, w, t, rs) ==
  /\ Frame(p) /\ UNCHANGED <<ppc, pbatch, stmt, acked, lost, cache>>
  /\ DOMAIN pstat'[p] = DOMAIN pstat[p] /\ \A v \in DOMAIN pstat[p] : v # w => pstat'[p][v] = pstat[p][v]
  /\ w \in DOMAIN pstat[p] => /\ pstat'[p][w] \in {"ok", "failed"}
                              /\ pstat'[p][w] = "ok" => rs \subseteq table'[t]
  /\ \A u \in Table : u # t => table'[u] = table[u]

LEMMA WriteRowsEffect ==
  \A p \in Pusher : \A w : \A t \in Table : \A rs, billable :
    Domains /\ WriteRows(p, w, t, rs, billable) => Wrote(p, w, t, rs)
<1> SUFFICES ASSUME Domains, NEW p \in Pusher, NEW w, NEW t \in Table, NEW rs, NEW billable,
                    WriteRows(p, w, t, rs, billable)
             PROVE  Wrote(p, w, t, rs)
  BY Zenon
<1>1. PICK out \in Outcomes :
        /\ Insert(t, rs, billable, out)
        /\ pstat' = [pstat EXCEPT ![p][w] = IF out = "sent" THEN "ok" ELSE "failed"]
  BY Zenon DEF WriteRows
<1>2. UNCHANGED <<ppc, pbatch, stmt, acked, lost, cache>> BY Zenon DEF WriteRows
<1>3. /\ DOMAIN table' = Table /\ \A u \in Table : table[u] \subseteq table'[u]
      /\ \A u \in Table : u # t => table'[u] = table[u]
      /\ out # "refused" => table'[t] = table[t] \cup rs
  BY <1>1, InsertEffect
<1>4. /\ DOMAIN pstat' = Pusher /\ DOMAIN pstat'[p] = DOMAIN pstat[p]
      /\ \A q \in Pusher : q # p => pstat'[q] = pstat[q]
      /\ \A v \in DOMAIN pstat[p] : v # w => pstat'[p][v] = pstat[p][v]
      /\ w \in DOMAIN pstat[p] => pstat'[p][w] = IF out = "sent" THEN "ok" ELSE "failed"
  BY <1>1, Zenon DEF Domains
<1>5. Frame(p) BY <1>2, <1>3, <1>4, Zenon DEF Frame, Domains
<1> QED BY <1>2, <1>3, <1>4, <1>5, Zenon DEF Wrote

-----------------------------------------------------------------------------
(* The exporter of spans *)

Ids(b) == {s.id : s \in batchOfSpans(b)}
Errors(b) == UNION {errorEvents(s) : s \in batchOfSpans(b)}

\* Resources that are stored, in a statement, or were in one that failed.
Accounted == table["resource"] \cup Unsent("resource") \cup Lost("resource")

\* A writer that ended without an error has stored its rows, a push that writes its
\* resources has stored the others, and only that one has resources in its statement.
TracesLocal(p) ==
  /\ ppc[p] \in {"idle", "entered", "write", "resources", "sendResources"}
  /\ ppc[p] # "idle" => pbatch[p] \in DOMAIN Spans
  /\ DOMAIN stmt[p] = Table
  /\ ppc[p] = "write" => DOMAIN pstat[p] = tracesWriters
  /\ ppc[p] = "write" /\ pstat[p]["index"] = "ok" => Ids(pbatch[p]) \subseteq table["index"]
  /\ ppc[p] = "write" /\ pstat[p]["error"] = "ok" => Errors(pbatch[p]) \subseteq table["error"]
  /\ ppc[p] \in {"resources", "sendResources"} =>
       Ids(pbatch[p]) \subseteq table["index"] /\ Errors(pbatch[p]) \subseteq table["error"]
  /\ ppc[p] # "sendResources" => stmt[p]["resource"] = {}
  /\ ppc[p] = "sendResources" => resourcesSeen(pbatch[p]) \subseteq Accounted

\* What an accepted payload has, and what a cached row has: rows are cached with the
\* statement they are in, and that is sent before its push ends.
TracesAcked(b) ==
  /\ b \in DOMAIN Spans /\ Ids(b) \subseteq table["index"] /\ Errors(b) \subseteq table["error"]
  /\ resourcesSeen(b) \subseteq Accounted
TracesCached == \A r : <<"resource", r>> \in cache => r \in Accounted

TracesInv ==
  /\ Domains /\ TracesCached
  /\ (\A p \in Pusher : TracesLocal(p)) /\ \A b \in acked : TracesAcked(b)

\* Resources are accounted for as long as those in the statement of the push that
\* makes a step are.
LEMMA AccountedKept ==
  \A p \in Pusher :
    Domains /\ Frame(p) /\ stmt[p]["resource"] \subseteq Accounted'
      => Accounted \subseteq Accounted'
<1> SUFFICES ASSUME Domains, NEW p \in Pusher, Frame(p), stmt[p]["resource"] \subseteq Accounted'
             PROVE  Accounted \subseteq Accounted'
  BY Zenon
<1>1. table["resource"] \subseteq table'["resource"] BY TracesAssumption, Zenon DEF Frame
<1>2. Lost("resource") \subseteq Lost("resource")' BY Zenon DEF Frame, Lost
<1>3. ASSUME NEW r \in Unsent("resource") PROVE r \in Accounted'
  <2>1. PICK q \in Pusher : r \in stmt[q]["resource"] BY <1>3, Zenon DEF Unsent
  <2>2. CASE q = p BY <2>1, <2>2, Zenon
  <2>3. CASE q # p
    <3>1. r \in stmt'[q]["resource"] BY <2>1, <2>3, Zenon DEF Frame
    <3> QED BY <3>1, Zenon DEF Accounted, Unsent
  <2> QED BY <2>2, <2>3, Zenon
<1> QED BY <1>1, <1>2, <1>3, Zenon DEF Accounted

LEMMA TracesStep ==
  \A p \in Pusher :
    /\ TracesInv /\ Frame(p) /\ TracesLocal(p)' /\ Accounted \subseteq Accounted'
    /\ \A r : <<"resource", r>> \in cache' => <<"resource", r>> \in cache \/ r \in Accounted'
    /\ \A b \in acked' : b \in acked \/ TracesAcked(b)'
    => TracesInv'
<1> SUFFICES ASSUME TracesInv, NEW p \in Pusher, Frame(p), TracesLocal(p)', Accounted \subseteq Accounted',
                    \A r : <<"resource", r>> \in cache' => <<"resource", r>> \in cache \/ r \in Accounted',
                    \A b \in acked' : b \in acked \/ TracesAcked(b)'
             PROVE  TracesInv'
  BY Zenon
<1>0. {"index", "error", "resource"} \subseteq Table BY TracesAssumption, Zenon
<1>1. table["index"] \subseteq table'["index"] /\ table["error"] \subseteq table'["error"]
  BY <1>0, Zenon DEF Frame
<1>2. Domains' BY Zenon DEF Frame, Domains
<1>3. TracesCached' BY Zenon DEF TracesInv, TracesCached
<1>4. ASSUME NEW q \in Pusher PROVE TracesLocal(q)'
  <2>1. CASE q = p BY <2>1, Zenon
  <2>2. CASE q # p
    <3>1. ppc'[q] = ppc[q] /\ pbatch'[q] = pbatch[q] /\ pstat'[q] = pstat[q] /\ stmt'[q] = stmt[q]
      BY <2>2, Zenon DEF Frame
    <3>2. TracesLocal(q) BY Zenon DEF TracesInv
    <3> QED BY <1>1, <3>1, <3>2, Zenon DEF TracesLocal
  <2> QED BY <2>1, <2>2, Zenon
<1>5. ASSUME NEW b \in acked' PROVE TracesAcked(b)'
  <2>1. CASE b \in acked BY <1>1, <2>1, Zenon DEF TracesInv, TracesAcked
  <2> QED BY <2>1, Zenon
<1> QED BY <1>2, <1>3, <1>4, <1>5, Zenon DEF TracesInv

LEMMA TracesPushNext ==
  \A p \in Pusher :
    TracesInv /\ TracesPush(p) => TracesInv'
<1> SUFFICES ASSUME TracesInv, NEW p \in Pusher, TracesPush(p) PROVE TracesInv'
  BY Zenon
<1>0. /\ Domains /\ TracesLocal(p) /\ {"index", "error", "tags", "keys", "resource"} \subseteq Table
      /\ tracesWriters = {"index", "error", "tag"} /\ DOMAIN NoRows = Table /\ NoRows["resource"] = {}
  BY TracesAssumption, Zenon DEF TracesInv, tracesWriters, NoRows
\* The push returns an error without having resources in its statement.
<1>1. ASSUME Return(p, FALSE), UNCHANGED <<table, lost, cache>>, ppc[p] # "sendResources" PROVE TracesInv'
  <2>1. /\ Frame(p) /\ ppc'[p] = "idle" /\ stmt'[p] = NoRows /\ acked' = acked
    <3>1. Returned(p, FALSE) BY <1>0, <1>1, ReturnEffect, Zenon
    <3> QED BY <1>0, <1>1, <3>1, Zenon DEF Returned, Frame, Domains
  <2>2. TracesLocal(p)' BY <1>0, <2>1, Zenon DEF TracesLocal
  <2>3. Accounted \subseteq Accounted' BY <1>0, <1>1, <2>1, AccountedKept, Zenon DEF TracesLocal
  <2> QED BY <1>1, <2>1, <2>2, <2>3, TracesStep, Zenon
<1>2. CASE pushTraceDataV3(p)
  <2>1. ppc[p] = "entered" /\ UNCHANGED <<table, lost, cache>>
    BY <1>2, Zenon DEF pushTraceDataV3, Select, datastore
  <2>2. CASE closeChan BY <1>1, <1>2, <2>1, <2>2, Zenon DEF pushTraceDataV3, Select
  <2>3. CASE ~closeChan
    <3>1. /\ ppc' = [ppc EXCEPT ![p] = "write"] /\ pstat' = [pstat EXCEPT ![p] = [w \in tracesWriters |-> "run"]]
          /\ UNCHANGED <<pbatch, stmt, acked>>
      BY <1>2, <2>3, Zenon DEF pushTraceDataV3, Select
    <3>2. Frame(p) /\ ppc'[p] = "write" /\ pstat'[p] = [w \in tracesWriters |-> "run"]
      BY <1>0, <2>1, <3>1, Zenon DEF Frame, Domains
    <3>3. TracesLocal(p)' BY <1>0, <2>1, <3>1, <3>2 DEF TracesLocal
    <3>4. Accounted \subseteq Accounted' BY <2>1, <3>1, Zenon DEF Accounted, Unsent, Lost
    <3> QED BY <2>1, <3>1, <3>2, <3>3, <3>4, TracesStep, Zenon
  <2> QED BY <2>2, <2>3, Zenon
<1>3. ASSUME NEW w, NEW t \in {"index", "error", "keys"}, NEW rs, NEW billable, w \in tracesWriters,
             ppc[p] = "write", WriteRows(p, w, t, rs, billable),
             w = "index" => t = "index" /\ rs = Ids(pbatch[p]),
             w = "error" => t = "error" /\ rs = Errors(pbatch[p])
      PROVE  TracesInv'
  <2>1. /\ Frame(p) /\ UNCHANGED <<ppc, pbatch, stmt, acked, lost, cache>>
        /\ DOMAIN pstat'[p] = DOMAIN pstat[p] /\ \A v \in DOMAIN pstat[p] : v # w => pstat'[p][v] = pstat[p][v]
        /\ pstat'[p][w] = "ok" => rs \subseteq table'[t]
        /\ \A u \in Table : u # t => table'[u] = table[u]
    <3>1. t \in Table /\ w \in DOMAIN pstat[p] BY <1>0, <1>3, Zenon DEF TracesLocal
    <3>2. WriteRows(p, w, t, rs, billable) BY <1>3, Zenon
    <3>3. Wrote(p, w, t, rs) BY <1>0, <3>1, <3>2, WriteRowsEffect, Zenon
    <3> QED BY <3>1, <3>3, Zenon DEF Wrote
  <2>2. table["index"] \subseteq table'["index"] /\ table["error"] \subseteq table'["error"]
    BY <1>0, <2>1, Zenon DEF Frame
  <2>3. DOMAIN pstat[p] = tracesWriters BY <1>0, <1>3, Zenon DEF TracesLocal
  <2>4. pstat'[p]["index"] = "ok" => Ids(pbatch[p]) \subseteq table'["index"]
    BY <1>0, <1>3, <2>1, <2>2, <2>3, Zenon DEF TracesLocal
  <2>5. pstat'[p]["error"] = "ok" => Errors(pbatch[p]) \subseteq table'["error"]
    BY <1>0, <1>3, <2>1, <2>2, <2>3, Zenon DEF TracesLocal
  <2>6. TracesLocal(p)' BY <1>0, <1>3, <2>1, <2>3, <2>4, <2>5, Zenon DEF TracesLocal
  <2>7. Accounted \subseteq Accounted' BY <1>0, <1>3, <2>1, AccountedKept, Zenon DEF TracesLocal
  <2> QED BY <2>1, <2>6, <2>7, TracesStep, Zenon
<1>4. CASE writeIndexBatchV3(p)
  BY <1>0, <1>3, <1>4, Zenon DEF writeIndexBatchV3, Running, Ids
<1>5. CASE writeErrorBatchV3(p)
  BY <1>0, <1>3, <1>5, Zenon DEF writeErrorBatchV3, Running, Errors
<1>6. CASE TagSendKeys(p)
  BY <1>0, <1>3, <1>6, Zenon DEF TagSendKeys
\* Only the tag writer's state, its statements and other tables and caches change.
<1>7. ASSUME ppc[p] = "write", Frame(p), UNCHANGED <<ppc, pbatch, acked>>,
             DOMAIN pstat'[p] = DOMAIN pstat[p], pstat'[p]["index"] = pstat[p]["index"],
             pstat'[p]["error"] = pstat[p]["error"], DOMAIN stmt'[p] = Table, 
             stmt'[p]["resource"] = stmt[p]["resource"],
             \A r : <<"resource", r>> \in cache' => <<"resource", r>> \in cache
      PROVE  TracesInv'
  <2>1. table["index"] \subseteq table'["index"] /\ table["error"] \subseteq table'["error"]
    BY <1>0, <1>7, Zenon DEF Frame
  <2>2. TracesLocal(p)' BY <1>0, <1>7, <2>1, Zenon DEF TracesLocal
  <2>3. Accounted \subseteq Accounted' BY <1>0, <1>7, AccountedKept, Zenon DEF TracesLocal
  <2> QED BY <1>7, <2>2, <2>3, TracesStep, Zenon
<1>8. CASE TagAppend(p)
  <2>1. ppc[p] = "write" /\ UNCHANGED <<ppc, pbatch, acked, table, lost>>
    BY <1>8, Zenon DEF TagAppend, Running
  <2>2. DOMAIN pstat[p] = tracesWriters /\ DOMAIN stmt[p] = Table BY <1>0, <2>1, Zenon DEF TracesLocal
  <2>3. \E v : pstat' = [pstat EXCEPT ![p]["tag"] = v] BY <1>8, Zenon DEF TagAppend
  <2>4. /\ DOMAIN pstat' = Pusher /\ DOMAIN pstat'[p] = DOMAIN pstat[p]
        /\ pstat'[p]["index"] = pstat[p]["index"] /\ pstat'[p]["error"] = pstat[p]["error"]
        /\ \A q \in Pusher : q # p => pstat'[q] = pstat[q]
    BY <1>0, <2>2, <2>3 DEF Domains
  <2>5. /\ DOMAIN stmt' = Pusher /\ DOMAIN stmt'[p] = Table /\ stmt'[p]["resource"] = stmt[p]["resource"]
        /\ \A q \in Pusher : q # p => stmt'[q] = stmt[q]
    <3>1. \/ stmt' = stmt
          \/ \E v, k : stmt' = [stmt EXCEPT ![p]["tags"] = v, ![p]["keys"] = k]
      BY <1>8, Zenon DEF TagAppend
    <3> QED BY <1>0, <2>2, <3>1, Zenon DEF Domains
  <2>6. \A r : <<"resource", r>> \in cache' => <<"resource", r>> \in cache
    BY <1>8 DEF TagAppend
  <2>7. Frame(p) BY <1>0, <2>1, <2>4, <2>5, Zenon DEF Frame, Domains
  <2> QED BY <1>7, <2>1, <2>4, <2>5, <2>6, <2>7, Zenon
<1>9. CASE TagSendValues(p)
  <2>1. ppc[p] = "write" /\ UNCHANGED <<ppc, pbatch, acked, stmt, lost, cache>>
    BY <1>9, Zenon DEF TagSendValues
  <2>2. DOMAIN pstat[p] = tracesWriters /\ DOMAIN stmt[p] = Table BY <1>0, <2>1, Zenon DEF TracesLocal
  <2>3. PICK out \in Outcomes :
          /\ Insert("tags", stmt[p]["tags"], 0, out)
          /\ pstat' = [pstat EXCEPT ![p]["tag"] = IF out = "sent" THEN "keys" ELSE "failed"]
    BY <1>9, Zenon DEF TagSendValues
  <2>4. /\ DOMAIN pstat' = Pusher /\ DOMAIN pstat'[p] = DOMAIN pstat[p]
        /\ pstat'[p]["index"] = pstat[p]["index"] /\ pstat'[p]["error"] = pstat[p]["error"]
        /\ \A q \in Pusher : q # p => pstat'[q] = pstat[q]
    BY <1>0, <2>2, <2>3, Zenon DEF Domains
  <2>5. DOMAIN table' = Table /\ \A u \in Table : table[u] \subseteq table'[u]
    BY <1>0, <2>3, InsertEffect, Zenon
  <2>6. Frame(p) BY <1>0, <2>1, <2>4, <2>5, Zenon DEF Frame, Domains
  <2> QED BY <1>7, <2>1, <2>2, <2>4, <2>6, Zenon
<1>10. CASE WriteBatchOfSpansV3(p)
  <2>1. ppc[p] = "write" /\ Ended(p) /\ UNCHANGED <<table, lost, cache>>
    BY <1>10, Zenon DEF WriteBatchOfSpansV3, datastore
  <2>2. CASE Failed(p) BY <1>1, <1>10, <2>1, <2>2, Zenon DEF WriteBatchOfSpansV3
  <2>3. CASE ~Failed(p)
    <3>1. ppc' = [ppc EXCEPT ![p] = "resources"] /\ UNCHANGED <<pbatch, pstat, stmt, acked>>
      BY <1>10, <2>3, Zenon DEF WriteBatchOfSpansV3
    <3>2. Frame(p) /\ ppc'[p] = "resources" BY <1>0, <2>1, <3>1, Zenon DEF Frame, Domains
    <3>3. DOMAIN pstat[p] = {"index", "error", "tag"} BY <1>0, <2>1, Zenon DEF TracesLocal
    <3>4. pstat[p]["index"] = "ok" /\ pstat[p]["error"] = "ok"
      BY <2>1, <2>3, <3>3, Zenon DEF Failed, Ended
    <3>5. TracesLocal(p)' BY <1>0, <2>1, <3>1, <3>2, <3>4, Zenon DEF TracesLocal
    <3>6. Accounted \subseteq Accounted' BY <2>1, <3>1, Zenon DEF Accounted, Unsent, Lost
    <3> QED BY <2>1, <3>1, <3>2, <3>5, <3>6, TracesStep, Zenon
  <2> QED BY <2>2, <2>3, Zenon
<1>11. CASE ResourcesAppend(p)
  <2>1. ppc[p] = "resources" /\ UNCHANGED <<table, lost>> BY <1>11, Zenon DEF ResourcesAppend
  <2>2. CASE Return(p, FALSE) /\ UNCHANGED cache BY <1>1, <2>1, <2>2, Zenon
  <2>3. CASE ~(Return(p, FALSE) /\ UNCHANGED cache)
    <3>1. /\ stmt' = [stmt EXCEPT ![p]["resource"] = rfCacheMisses(resourcesSeen(pbatch[p]))]
          /\ cache' = cache \cup ({"resource"} \X resourcesSeen(pbatch[p]))
          /\ ppc' = [ppc EXCEPT ![p] = "sendResources"] /\ UNCHANGED <<pbatch, pstat, acked>>
      BY <1>11, <2>3, Zenon DEF ResourcesAppend
    <3>2. /\ Frame(p) /\ ppc'[p] = "sendResources" /\ DOMAIN stmt'[p] = Table
          /\ stmt'[p]["resource"] = rfCacheMisses(resourcesSeen(pbatch[p]))
      BY <1>0, <2>1, <3>1, Zenon DEF Frame, Domains, TracesLocal
    <3>3. stmt[p]["resource"] = {} BY <1>0, <2>1, Zenon DEF TracesLocal
    <3>4. Accounted \subseteq Accounted' BY <1>0, <3>2, <3>3, AccountedKept, Zenon
    <3>5. resourcesSeen(pbatch[p]) \subseteq Accounted'
      <4> SUFFICES ASSUME NEW r \in resourcesSeen(pbatch[p]) PROVE r \in Accounted'
        BY Zenon
      <4>1. CASE <<"resource", r>> \in cache BY <3>4, <4>1, Zenon DEF TracesInv, TracesCached
      <4>2. CASE <<"resource", r>> \notin cache
        <5>1. r \in stmt'[p]["resource"] BY <3>2, <4>2, Zenon DEF rfCacheMisses, Uncached
        <5> QED BY <5>1, Zenon DEF Accounted, Unsent
      <4> QED BY <4>1, <4>2, Zenon
    <3>6. TracesLocal(p)' BY <1>0, <2>1, <3>1, <3>2, <3>5, Zenon DEF TracesLocal
    <3>7. \A r : <<"resource", r>> \in cache' => <<"resource", r>> \in cache \/ r \in Accounted'
      BY <3>1, <3>5, Zenon
    <3> QED BY <3>1, <3>2, <3>4, <3>6, <3>7, TracesStep, Zenon
  <2> QED BY <2>2, <2>3, Zenon
<1>12. CASE ResourcesSend(p)
  <2>1. ppc[p] = "sendResources" /\ UNCHANGED cache BY <1>12, Zenon DEF ResourcesSend
  <2>2. PICK out \in Outcomes : InsertCached("resource", stmt[p]["resource"], out) /\ Return(p, out = "sent")
    BY <1>12, Zenon DEF ResourcesSend
  <2>3. /\ DOMAIN table' = Table /\ \A u \in Table : table[u] \subseteq table'[u]
        /\ out # "refused" => table'["resource"] = table["resource"] \cup stmt[p]["resource"]
    BY <1>0, <2>2, InsertEffect DEF InsertCached
  <2>4. lost' = IF out = "refused" THEN lost \cup ({"resource"} \X stmt[p]["resource"]) ELSE lost
    BY <2>2, Zenon DEF InsertCached
  <2>5. /\ Frame(p) /\ ppc'[p] = "idle" /\ stmt'[p] = NoRows
        /\ acked' = IF out = "sent" THEN acked \cup {pbatch[p]} ELSE acked
    <3>1. Returned(p, out = "sent") BY <1>0, <2>2, ReturnEffect, Zenon
    <3> QED BY <2>3, <2>4, <3>1, Zenon DEF Returned, Frame
  <2>6. stmt[p]["resource"] \subseteq Accounted'
    <3> SUFFICES ASSUME NEW r \in stmt[p]["resource"] PROVE r \in Accounted'
      BY Zenon
    <3>1. CASE out = "refused"
      <4>1. <<"resource", r>> \in lost' BY <2>4, <3>1, Zenon
      <4>2. r \in Lost("resource")'
        <5>1. <<"resource", r>>[1] = "resource" /\ <<"resource", r>>[2] = r BY Zenon
        <5> QED BY <4>1, <5>1, Zenon DEF Lost
      <4> QED BY <4>2, Zenon DEF Accounted
    <3>2. CASE out # "refused" BY <2>3, <3>2, Zenon DEF Accounted
    <3> QED BY <3>1, <3>2, Zenon
  <2>7. Accounted \subseteq Accounted' BY <1>0, <2>5, <2>6, AccountedKept, Zenon
  <2>8. TracesLocal(p)' BY <1>0, <2>5, Zenon DEF TracesLocal
  <2>9. table["index"] \subseteq table'["index"] /\ table["error"] \subseteq table'["error"]
    BY <1>0, <2>3, Zenon
  <2>10. ASSUME NEW b, b = pbatch[p] PROVE TracesAcked(b)'
    BY <1>0, <2>1, <2>7, <2>9, <2>10, Zenon DEF TracesLocal, TracesAcked
  <2>11. \A b \in acked' : b \in acked \/ TracesAcked(b)' BY <2>5, <2>10, Zenon
  <2> QED BY <2>1, <2>5, <2>7, <2>8, <2>11, TracesStep, Zenon
<1> QED
  BY <1>2, <1>4, <1>5, <1>6, <1>8, <1>9, <1>10, <1>11, <1>12, Zenon DEF TracesPush

\* Steps that are no push's.
LEMMA TracesIdleStep ==
  TracesInv /\ UNCHANGED push /\ UNCHANGED <<table, lost>> /\ cache' \subseteq cache => TracesInv'
<1> SUFFICES ASSUME TracesInv, UNCHANGED push, UNCHANGED <<table, lost>>, cache' \subseteq cache PROVE TracesInv'
  BY Zenon
<1>1. UNCHANGED <<ppc, pbatch, pstat, stmt, acked>> BY Zenon DEF push
<1>2. Accounted' = Accounted BY <1>1, Zenon DEF Accounted, Unsent, Lost
<1>3. Domains' BY <1>1, Zenon DEF TracesInv, Domains
<1>4. TracesCached' BY <1>2, Zenon DEF TracesInv, TracesCached
<1>5. \A p \in Pusher : TracesLocal(p)' BY <1>1, <1>2, Zenon DEF TracesInv, TracesLocal
<1>6. \A b \in acked' : TracesAcked(b)' BY <1>1, <1>2, Zenon DEF TracesInv, TracesAcked
<1> QED BY <1>3, <1>4, <1>5, <1>6, Zenon DEF TracesInv

LEMMA TracesInvNext == TracesInv /\ [TracesNext]_tracesVars => TracesInv'
<1> SUFFICES ASSUME TracesInv, [TracesNext]_tracesVars PROVE TracesInv'
  BY Zenon
<1>1. ASSUME NEW p \in Pusher, TracesPush(p) PROVE TracesInv'
  BY <1>1, TracesPushNext, Zenon
<1>2. ASSUME NEW p \in Pusher, NEW b \in DOMAIN Spans, Enter(p, b) PROVE TracesInv'
  <2>1. /\ ppc[p] = "idle" /\ ppc' = [ppc EXCEPT ![p] = "entered"] /\ pbatch' = [pbatch EXCEPT ![p] = b]
        /\ UNCHANGED <<pstat, stmt, acked, table, lost, cache>>
    BY <1>2, Zenon DEF Enter, datastore
  <2>2. Domains /\ TracesLocal(p) BY Zenon DEF TracesInv
  <2>3. Frame(p) /\ ppc'[p] = "entered" /\ pbatch'[p] = b
    BY <2>1, <2>2, Zenon DEF Frame, Domains
  <2>4. TracesLocal(p)' BY <2>1, <2>2, <2>3, Zenon DEF TracesLocal
  <2>5. Accounted \subseteq Accounted' BY <2>1, Zenon DEF Accounted, Unsent, Lost
  <2> QED BY <2>1, <2>3, <2>4, <2>5, TracesStep, Zenon
<1>3. CASE Expire
  BY <1>3, TracesIdleStep, Zenon DEF Expire
<1>4. CASE doFetchShouldSkipKeys \/ Report \/ TracesShutdown \/ UNCHANGED tracesVars
  <2>1. UNCHANGED <<push, table, lost, cache>>
    BY <1>4, Zenon DEF doFetchShouldSkipKeys, Report, TracesShutdown, StopUsage, CloseChannel, Wait, CloseConn,
         tracesVars, exporterVars, datastore
  <2> QED BY <2>1, TracesIdleStep, Zenon
<1> QED BY <1>1, <1>2, <1>3, <1>4, Zenon DEF TracesNext

LEMMA TracesInvInit == ExporterInit => TracesInv
<1> SUFFICES ASSUME ExporterInit PROVE TracesInv
  BY Zenon
<1>1. Domains BY Zenon DEF ExporterInit, Domains, NoRows
<1>2. TracesCached BY Zenon DEF ExporterInit, TracesCached
<1>3. ASSUME NEW p \in Pusher PROVE TracesLocal(p)
  <2>1. ppc[p] = "idle" /\ stmt[p] = NoRows BY Zenon DEF ExporterInit
  <2> QED BY <2>1, TracesAssumption, Zenon DEF TracesLocal, NoRows
<1>4. acked = {} BY Zenon DEF ExporterInit
<1> QED BY <1>1, <1>2, <1>3, <1>4, Zenon DEF TracesInv

\* A payload of spans that was accepted is in the index and error tables, and its
\* resources are stored, in a statement under way or were in one that failed, for any
\* number of pushes that fail, are repeated and share the cache of resources.
THEOREM AcceptedSpansAreStored == TracesSpec => []SpansAccounted
<1>1. TracesInv => SpansAccounted
  <2> SUFFICES ASSUME TracesInv PROVE SpansAccounted
    BY Zenon
  <2>1. AckedSpansStored
    <3> SUFFICES ASSUME NEW b \in acked, NEW s \in batchOfSpans(b)
                 PROVE  s.id \in table["index"] /\ errorEvents(s) \subseteq table["error"]
      BY Zenon DEF AckedSpansStored
    <3>1. Ids(b) \subseteq table["index"] /\ Errors(b) \subseteq table["error"]
      BY Zenon DEF TracesInv, TracesAcked
    <3>2. s.id \in Ids(b) /\ errorEvents(s) \subseteq Errors(b) BY Zenon DEF Ids, Errors
    <3> QED BY <3>1, <3>2, Zenon
  <2>2. AckedResourceAccounted
    BY Zenon DEF AckedResourceAccounted, TracesInv, TracesAcked, Accounted
  <2> QED BY <2>1, <2>2, Zenon DEF SpansAccounted
<1> QED BY <1>1, TracesInvInit, TracesInvNext, PTL DEF TracesSpec, tracesVars

-----------------------------------------------------------------------------
(* The exporter of metrics *)

\* Series that are stored, in a statement, or were in one that failed.
SeriesLost == {r[2] : r \in {l \in lost : l[1] = "ts"}}
SeriesUnsent == UNION {stmt[p]["ts"] : p \in Pusher}
SeriesAccounted == table["ts"] \cup SeriesLost \cup SeriesUnsent

\* The same facts as for the spans; the writers of a push end in any order, and only
\* the one of the series has a statement that is built before it is sent.
MetricsLocal(p) ==
  /\ ppc[p] \in {"idle", "entered", "write"}
  /\ ppc[p] # "idle" => pbatch[p] \in DOMAIN Metrics
  /\ DOMAIN stmt[p] = Table
  /\ ppc[p] = "write" => DOMAIN pstat[p] = metricsWriters
  /\ ppc[p] = "write" /\ pstat[p]["samples"] = "ok" => prepareBatch[pbatch[p]].samples \subseteq table["samples"]
  /\ ppc[p] = "write" /\ pstat[p]["expHist"] = "ok" => prepareBatch[pbatch[p]].expHist \subseteq table["expHist"]
  /\ ppc[p] = "write" /\ pstat[p]["ts"] \in {"send", "ok"} => prepareBatch[pbatch[p]].ts \subseteq SeriesAccounted
  /\ ~(ppc[p] = "write" /\ pstat[p]["ts"] = "send") => stmt[p]["ts"] = {}

MetricsAcked(b) ==
  /\ b \in DOMAIN Metrics /\ prepareBatch[b].samples \subseteq table["samples"]
  /\ prepareBatch[b].expHist \subseteq table["expHist"] /\ prepareBatch[b].ts \subseteq SeriesAccounted
MetricsCached == \A r : <<"ts", r>> \in cache => r \in SeriesAccounted

MetricsInv ==
  /\ Domains /\ MetricsCached
  /\ (\A p \in Pusher : MetricsLocal(p)) /\ \A b \in acked : MetricsAcked(b)

LEMMA SeriesKept ==
  \A p \in Pusher :
    Domains /\ Frame(p) /\ stmt[p]["ts"] \subseteq SeriesAccounted'
      => SeriesAccounted \subseteq SeriesAccounted'
<1> SUFFICES ASSUME Domains, NEW p \in Pusher, Frame(p), stmt[p]["ts"] \subseteq SeriesAccounted'
             PROVE  SeriesAccounted \subseteq SeriesAccounted'
  BY Zenon
<1>1. table["ts"] \subseteq table'["ts"] BY MetricsAssumption, Zenon DEF Frame
<1>2. SeriesLost \subseteq SeriesLost' BY Zenon DEF Frame, SeriesLost
<1>3. ASSUME NEW r \in SeriesUnsent PROVE r \in SeriesAccounted'
  <2>1. PICK q \in Pusher : r \in stmt[q]["ts"] BY <1>3, Zenon DEF SeriesUnsent
  <2>2. CASE q = p BY <2>1, <2>2, Zenon
  <2>3. CASE q # p
    <3>1. r \in stmt'[q]["ts"] BY <2>1, <2>3, Zenon DEF Frame
    <3> QED BY <3>1, Zenon DEF SeriesAccounted, SeriesUnsent
  <2> QED BY <2>2, <2>3, Zenon
<1> QED BY <1>1, <1>2, <1>3, Zenon DEF SeriesAccounted

LEMMA MetricsStep ==
  \A p \in Pusher :
    /\ MetricsInv /\ Frame(p) /\ MetricsLocal(p)' /\ SeriesAccounted \subseteq SeriesAccounted'
    /\ \A r : <<"ts", r>> \in cache' => <<"ts", r>> \in cache \/ r \in SeriesAccounted'
    /\ \A b \in acked' : b \in acked \/ MetricsAcked(b)'
    => MetricsInv'
<1> SUFFICES ASSUME MetricsInv, NEW p \in Pusher, Frame(p), MetricsLocal(p)', SeriesAccounted \subseteq SeriesAccounted',
                    \A r : <<"ts", r>> \in cache' => <<"ts", r>> \in cache \/ r \in SeriesAccounted',
                    \A b \in acked' : b \in acked \/ MetricsAcked(b)'
             PROVE  MetricsInv'
  BY Zenon
<1>1. table["samples"] \subseteq table'["samples"] /\ table["expHist"] \subseteq table'["expHist"]
  BY MetricsAssumption, Zenon DEF Frame
<1>2. Domains' BY Zenon DEF Frame, Domains
<1>3. MetricsCached' BY Zenon DEF MetricsInv, MetricsCached
<1>4. ASSUME NEW q \in Pusher PROVE MetricsLocal(q)'
  <2>1. CASE q = p BY <2>1, Zenon
  <2>2. CASE q # p
    <3>1. ppc'[q] = ppc[q] /\ pbatch'[q] = pbatch[q] /\ pstat'[q] = pstat[q] /\ stmt'[q] = stmt[q]
      BY <2>2, Zenon DEF Frame
    <3>2. MetricsLocal(q) BY Zenon DEF MetricsInv
    <3> QED BY <1>1, <3>1, <3>2, Zenon DEF MetricsLocal
  <2> QED BY <2>1, <2>2, Zenon
<1>5. ASSUME NEW b \in acked' PROVE MetricsAcked(b)'
  <2>1. CASE b \in acked BY <1>1, <2>1, Zenon DEF MetricsInv, MetricsAcked
  <2> QED BY <2>1, Zenon
<1> QED BY <1>2, <1>3, <1>4, <1>5, Zenon DEF MetricsInv

MetricsPush(p) ==
  \/ PushMetrics(p) \/ SeriesAppend(p) \/ SeriesSend(p)
  \/ SamplesAppend(p) \/ SamplesSend(p) \/ writeExpHist(p) \/ writeBatch(p)

LEMMA MetricsPushNext ==
  \A p \in Pusher :
    MetricsInv /\ MetricsPush(p) => MetricsInv'
<1> SUFFICES ASSUME MetricsInv, NEW p \in Pusher, MetricsPush(p) PROVE MetricsInv'
  BY Zenon
<1>0. /\ Domains /\ MetricsLocal(p) /\ {"ts", "samples", "expHist", "metadata"} \subseteq Table
      /\ metricsWriters = {"ts", "samples", "expHist"} /\ DOMAIN NoRows = Table /\ NoRows["ts"] = {}
  BY MetricsAssumption, Zenon DEF MetricsInv, metricsWriters, NoRows
<1>1. CASE PushMetrics(p)
  <2>1. ppc[p] = "entered" /\ UNCHANGED <<table, lost, cache>>
    BY <1>1, Zenon DEF PushMetrics, Select, datastore
  <2>2. CASE closeChan
    <3>1. Return(p, FALSE) BY <1>1, <2>2, Zenon DEF PushMetrics, Select
    <3>2. Frame(p) /\ ppc'[p] = "idle" /\ stmt'[p] = NoRows /\ acked' = acked
      <4>1. Returned(p, FALSE) BY <1>0, <3>1, ReturnEffect, Zenon
      <4> QED BY <1>0, <2>1, <4>1, Zenon DEF Returned, Frame, Domains
    <3>3. MetricsLocal(p)' BY <1>0, <3>2, Zenon DEF MetricsLocal
    <3>4. SeriesAccounted \subseteq SeriesAccounted' BY <1>0, <2>1, <3>2, SeriesKept, Zenon DEF MetricsLocal
    <3> QED BY <2>1, <3>2, <3>3, <3>4, MetricsStep, Zenon
  <2>3. CASE ~closeChan
    <3>1. PICK st : /\ st = [w \in metricsWriters |-> IF Batched(p)[w] = {} THEN "ok" ELSE "run"]
                    /\ ppc' = [ppc EXCEPT ![p] = "write"] /\ pstat' = [pstat EXCEPT ![p] = st]
                    /\ UNCHANGED <<pbatch, stmt, acked>>
      BY <1>1, <2>3, Zenon DEF PushMetrics, Select
    <3>2. Frame(p) /\ ppc'[p] = "write" /\ pstat'[p] = st
      BY <1>0, <2>1, <3>1, Zenon DEF Frame, Domains
    <3>3. /\ DOMAIN st = metricsWriters /\ st["ts"] # "send"
          /\ st["samples"] = "ok" => Batched(p).samples = {}
          /\ st["expHist"] = "ok" => Batched(p).expHist = {}
          /\ st["ts"] = "ok" => Batched(p).ts = {}
      BY <1>0, <3>1, Zenon
    <3>4. MetricsLocal(p)' BY <1>0, <2>1, <3>1, <3>2, <3>3, Zenon DEF MetricsLocal, Batched
    <3>5. SeriesAccounted \subseteq SeriesAccounted'
      BY <2>1, <3>1, Zenon DEF SeriesAccounted, SeriesUnsent, SeriesLost
    <3> QED BY <2>1, <3>1, <3>2, <3>4, <3>5, MetricsStep, Zenon
  <2> QED BY <2>2, <2>3, Zenon
<1>2. CASE SeriesAppend(p)
  <2>1. /\ ppc[p] = "write" /\ pstat[p]["ts"] = "run" /\ UNCHANGED <<ppc, pbatch, acked, table, lost>>
    BY <1>2, Zenon DEF SeriesAppend, InMetrics, Running
  <2>2. DOMAIN pstat[p] = metricsWriters /\ DOMAIN stmt[p] = Table /\ stmt[p]["ts"] = {}
    BY <1>0, <2>1, Zenon DEF MetricsLocal
  <2>3. PICK prepared \in Prepared :
          /\ pstat' = [pstat EXCEPT ![p]["ts"] = IF prepared THEN "send" ELSE "failed"]
          /\ stmt' = IF prepared THEN [stmt EXCEPT ![p]["ts"] = Uncached("ts", Batched(p).ts)] ELSE stmt
          /\ cache' = IF prepared THEN cache \cup ({"ts"} \X Batched(p).ts) ELSE cache
    BY <1>2, Zenon DEF SeriesAppend
  <2>4. /\ DOMAIN pstat' = Pusher /\ DOMAIN pstat'[p] = metricsWriters
        /\ pstat'[p]["samples"] = pstat[p]["samples"] /\ pstat'[p]["expHist"] = pstat[p]["expHist"]
        /\ pstat'[p]["ts"] = IF prepared THEN "send" ELSE "failed"
        /\ \A q \in Pusher : q # p => pstat'[q] = pstat[q]
    BY <1>0, <2>2, <2>3, Zenon DEF Domains
  <2>5. /\ DOMAIN stmt' = Pusher /\ DOMAIN stmt'[p] = Table
        /\ stmt'[p]["ts"] = IF prepared THEN Uncached("ts", Batched(p).ts) ELSE {}
        /\ \A q \in Pusher : q # p => stmt'[q] = stmt[q]
    BY <1>0, <2>2, <2>3, Zenon DEF Domains
  <2>6. Frame(p) BY <1>0, <2>1, <2>4, <2>5, Zenon DEF Frame, Domains
  <2>7. SeriesAccounted \subseteq SeriesAccounted' BY <1>0, <2>2, <2>6, SeriesKept, Zenon
  <2>8. ASSUME prepared PROVE Batched(p).ts \subseteq SeriesAccounted'
    <3> SUFFICES ASSUME NEW r \in Batched(p).ts PROVE r \in SeriesAccounted'
      BY Zenon
    <3>1. CASE <<"ts", r>> \in cache BY <2>7, <3>1, Zenon DEF MetricsInv, MetricsCached
    <3>2. CASE <<"ts", r>> \notin cache
      <4>1. r \in stmt'[p]["ts"] BY <2>5, <2>8, <3>2, Zenon DEF Uncached
      <4> QED BY <4>1, Zenon DEF SeriesAccounted, SeriesUnsent
    <3> QED BY <3>1, <3>2, Zenon
  <2>9. MetricsLocal(p)'
    BY <1>0, <2>1, <2>4, <2>5, <2>8, Zenon DEF MetricsLocal, Batched
  <2>10. \A r : <<"ts", r>> \in cache' => <<"ts", r>> \in cache \/ r \in SeriesAccounted'
    BY <2>3, <2>8, Zenon
  <2> QED BY <2>1, <2>6, <2>7, <2>9, <2>10, MetricsStep, Zenon
<1>3. CASE SeriesSend(p)
  <2>1. ppc[p] = "write" /\ pstat[p]["ts"] = "send" /\ UNCHANGED <<ppc, pbatch, acked, cache>>
    BY <1>3, Zenon DEF SeriesSend
  <2>2. DOMAIN pstat[p] = metricsWriters /\ DOMAIN stmt[p] = Table BY <1>0, <2>1, Zenon DEF MetricsLocal
  <2>3. PICK out \in Outcomes :
          /\ InsertCached("ts", stmt[p]["ts"], out)
          /\ pstat' = [pstat EXCEPT ![p]["ts"] = IF out = "sent" THEN "ok" ELSE "failed"]
          /\ stmt' = [stmt EXCEPT ![p]["ts"] = {}]
    BY <1>3, Zenon DEF SeriesSend
  <2>4. /\ DOMAIN pstat' = Pusher /\ DOMAIN pstat'[p] = metricsWriters
        /\ pstat'[p]["samples"] = pstat[p]["samples"] /\ pstat'[p]["expHist"] = pstat[p]["expHist"]
        /\ pstat'[p]["ts"] = IF out = "sent" THEN "ok" ELSE "failed"
        /\ \A q \in Pusher : q # p => pstat'[q] = pstat[q]
    BY <1>0, <2>2, <2>3, Zenon DEF Domains
  <2>5. /\ DOMAIN stmt' = Pusher /\ DOMAIN stmt'[p] = Table /\ stmt'[p]["ts"] = {}
        /\ \A q \in Pusher : q # p => stmt'[q] = stmt[q]
    BY <1>0, <2>2, <2>3, Zenon DEF Domains
  <2>6. /\ DOMAIN table' = Table /\ \A u \in Table : table[u] \subseteq table'[u]
        /\ out # "refused" => table'["ts"] = table["ts"] \cup stmt[p]["ts"]
    BY <1>0, <2>3, InsertEffect DEF InsertCached
  <2>7. lost' = IF out = "refused" THEN lost \cup ({"ts"} \X stmt[p]["ts"]) ELSE lost
    BY <2>3, Zenon DEF InsertCached
  <2>8. Frame(p) BY <1>0, <2>1, <2>4, <2>5, <2>6, <2>7, Zenon DEF Frame, Domains
  <2>9. ASSUME NEW r \in stmt[p]["ts"] PROVE r \in SeriesAccounted'
    <3>1. CASE out = "refused"
      <4>1. <<"ts", r>> \in lost' BY <2>7, <2>9, <3>1, Zenon
      <4>2. r \in SeriesLost'
        <5>1. <<"ts", r>>[1] = "ts" /\ <<"ts", r>>[2] = r BY Zenon
        <5> QED BY <4>1, <5>1, Zenon DEF SeriesLost
      <4> QED BY <4>2, Zenon DEF SeriesAccounted
    <3>2. CASE out # "refused" BY <2>6, <2>9, <3>2, Zenon DEF SeriesAccounted
    <3> QED BY <3>1, <3>2, Zenon
  <2>10. SeriesAccounted \subseteq SeriesAccounted' BY <1>0, <2>8, <2>9, SeriesKept, Zenon
  <2>11. table["samples"] \subseteq table'["samples"] /\ table["expHist"] \subseteq table'["expHist"]
    BY <1>0, <2>6, Zenon
  <2>12. MetricsLocal(p)' BY <1>0, <2>1, <2>4, <2>5, <2>10, <2>11, Zenon DEF MetricsLocal
  <2> QED BY <2>1, <2>8, <2>10, <2>12, MetricsStep, Zenon
<1>4. CASE SamplesAppend(p)
  <2>1. ppc[p] = "write" /\ UNCHANGED <<ppc, pbatch, stmt, acked, table, lost, cache>>
    BY <1>4, Zenon DEF SamplesAppend, InMetrics, Running
  <2>2. DOMAIN pstat[p] = metricsWriters BY <1>0, <2>1, Zenon DEF MetricsLocal
  <2>3. PICK v : pstat' = [pstat EXCEPT ![p]["samples"] = v] /\ v # "ok"
    <3>1. PICK prepared \in Prepared :
            pstat' = [pstat EXCEPT ![p]["samples"] = IF prepared THEN "send" ELSE "failed"]
      BY <1>4, Zenon DEF SamplesAppend
    <3>2. PICK v : v = IF prepared THEN "send" ELSE "failed" BY Zenon
    <3>3. v # "ok" BY <3>2, Zenon
    <3>4. pstat' = [pstat EXCEPT ![p]["samples"] = v] BY <3>1, <3>2, Zenon
    <3> QED BY <3>3, <3>4, Zenon
  <2>4. /\ DOMAIN pstat' = Pusher /\ DOMAIN pstat'[p] = metricsWriters
        /\ pstat'[p]["samples"] # "ok" /\ pstat'[p]["expHist"] = pstat[p]["expHist"]
        /\ pstat'[p]["ts"] = pstat[p]["ts"] /\ \A q \in Pusher : q # p => pstat'[q] = pstat[q]
    BY <1>0, <2>2, <2>3, Zenon DEF Domains
  <2>5. Frame(p) BY <1>0, <2>1, <2>4, Zenon DEF Frame, Domains
  <2>6. SeriesAccounted' = SeriesAccounted BY <2>1, Zenon DEF SeriesAccounted, SeriesUnsent, SeriesLost
  <2>7. MetricsLocal(p)' BY <1>0, <2>1, <2>4, <2>6, Zenon DEF MetricsLocal
  <2> QED BY <2>1, <2>5, <2>6, <2>7, MetricsStep, Zenon
<1>5. ASSUME NEW w \in {"samples", "expHist"}, ppc[p] = "write", Wrote(p, w, w, prepareBatch[pbatch[p]][w])
      PROVE  MetricsInv'
  <2>1. DOMAIN pstat[p] = metricsWriters BY <1>0, <1>5, Zenon DEF MetricsLocal
  <2>2. /\ Frame(p) /\ UNCHANGED <<ppc, pbatch, stmt, acked, lost, cache>>
        /\ DOMAIN pstat'[p] = metricsWriters /\ pstat'[p]["ts"] = pstat[p]["ts"]
        /\ pstat'[p][w] = "ok" => prepareBatch[pbatch[p]][w] \subseteq table'[w]
        /\ \A v \in metricsWriters : v # w => pstat'[p][v] = pstat[p][v]
        /\ table'["ts"] = table["ts"]
    BY <1>0, <1>5, <2>1, Zenon DEF Wrote
  <2>3. table["samples"] \subseteq table'["samples"] /\ table["expHist"] \subseteq table'["expHist"]
    BY <1>0, <2>2, Zenon DEF Frame
  <2>4. SeriesAccounted' = SeriesAccounted BY <2>2, Zenon DEF SeriesAccounted, SeriesUnsent, SeriesLost
  <2>5. pstat'[p]["samples"] = "ok" => prepareBatch[pbatch[p]].samples \subseteq table'["samples"]
    BY <1>0, <1>5, <2>2, <2>3, Zenon DEF MetricsLocal
  <2>6. pstat'[p]["expHist"] = "ok" => prepareBatch[pbatch[p]].expHist \subseteq table'["expHist"]
    BY <1>0, <1>5, <2>2, <2>3, Zenon DEF MetricsLocal
  <2>7. MetricsLocal(p)' BY <1>0, <1>5, <2>2, <2>4, <2>5, <2>6, Zenon DEF MetricsLocal
  <2> QED BY <2>2, <2>4, <2>7, MetricsStep, Zenon
<1>6. CASE SamplesSend(p)
  <2>1. ppc[p] = "write" /\ Wrote(p, "samples", "samples", Batched(p).samples)
    BY <1>0, <1>6, WriteRowsEffect, Zenon DEF SamplesSend
  <2> QED BY <1>5, <2>1, Zenon DEF Batched
<1>7. CASE writeExpHist(p)
  <2>1. ppc[p] = "write" /\ Wrote(p, "expHist", "expHist", Batched(p).expHist)
    BY <1>0, <1>7, WriteRowsEffect, Zenon DEF writeExpHist, InMetrics, Running
  <2> QED BY <1>5, <2>1, Zenon DEF Batched
<1>8. CASE writeBatch(p)
  <2>1. ppc[p] = "write" /\ Ended(p) /\ Return(p, AllWritten(p)) /\ UNCHANGED cache
    BY <1>8, Zenon DEF writeBatch
  <2>2. PICK out \in Outcomes : Insert("metadata", Batched(p).metadata, 0, out) /\ UNCHANGED lost
    BY <1>8, Zenon DEF writeBatch, writeMetadata
  <2>3. DOMAIN table' = Table /\ \A u \in Table : table[u] \subseteq table'[u]
    BY <1>0, <2>2, InsertEffect, Zenon
  <2>4. /\ Frame(p) /\ ppc'[p] = "idle" /\ stmt'[p] = NoRows
        /\ acked' = IF AllWritten(p) THEN acked \cup {pbatch[p]} ELSE acked
    <3>1. Returned(p, AllWritten(p)) BY <1>0, <2>1, ReturnEffect, Zenon
    <3> QED BY <2>2, <2>3, <3>1, Zenon DEF Returned, Frame
  <2>5. DOMAIN pstat[p] = metricsWriters BY <1>0, <2>1, Zenon DEF MetricsLocal
  <2>6. pstat[p]["ts"] # "send" BY <1>0, <2>1, <2>5, Zenon DEF Ended
  <2>7. SeriesAccounted \subseteq SeriesAccounted' BY <1>0, <2>4, <2>6, SeriesKept, Zenon DEF MetricsLocal
  <2>8. MetricsLocal(p)' BY <1>0, <2>4, Zenon DEF MetricsLocal
  <2>9. table["samples"] \subseteq table'["samples"] /\ table["expHist"] \subseteq table'["expHist"]
    BY <1>0, <2>3, Zenon
  <2>10. ASSUME NEW b, b = pbatch[p], AllWritten(p) PROVE MetricsAcked(b)'
    BY <1>0, <2>1, <2>7, <2>9, <2>10, Zenon DEF MetricsLocal, MetricsAcked, AllWritten
  <2>11. \A b \in acked' : b \in acked \/ MetricsAcked(b)' BY <2>4, <2>10, Zenon
  <2> QED BY <2>1, <2>4, <2>7, <2>8, <2>11, MetricsStep, Zenon
<1> QED BY <1>1, <1>2, <1>3, <1>4, <1>6, <1>7, <1>8, Zenon DEF MetricsPush

LEMMA MetricsIdleStep ==
  MetricsInv /\ UNCHANGED push /\ UNCHANGED <<table, lost>> /\ cache' \subseteq cache => MetricsInv'
<1> SUFFICES ASSUME MetricsInv, UNCHANGED push, UNCHANGED <<table, lost>>, cache' \subseteq cache PROVE MetricsInv'
  BY Zenon
<1>1. UNCHANGED <<ppc, pbatch, pstat, stmt, acked>> BY Zenon DEF push
<1>2. SeriesAccounted' = SeriesAccounted BY <1>1, Zenon DEF SeriesAccounted, SeriesUnsent, SeriesLost
<1>3. Domains' BY <1>1, Zenon DEF MetricsInv, Domains
<1>4. MetricsCached' BY <1>2, Zenon DEF MetricsInv, MetricsCached
<1>5. \A p \in Pusher : MetricsLocal(p)' BY <1>1, <1>2, Zenon DEF MetricsInv, MetricsLocal
<1>6. \A b \in acked' : MetricsAcked(b)' BY <1>1, <1>2, Zenon DEF MetricsInv, MetricsAcked
<1> QED BY <1>3, <1>4, <1>5, <1>6, Zenon DEF MetricsInv

LEMMA MetricsInvNext == MetricsInv /\ [MetricsNext]_exporterVars => MetricsInv'
<1> SUFFICES ASSUME MetricsInv, [MetricsNext]_exporterVars PROVE MetricsInv'
  BY Zenon
<1>1. ASSUME NEW p \in Pusher, MetricsPush(p) PROVE MetricsInv'
  BY <1>1, MetricsPushNext, Zenon
<1>2. ASSUME NEW p \in Pusher, NEW b \in DOMAIN Metrics, Enter(p, b) PROVE MetricsInv'
  <2>1. /\ ppc[p] = "idle" /\ ppc' = [ppc EXCEPT ![p] = "entered"] /\ pbatch' = [pbatch EXCEPT ![p] = b]
        /\ UNCHANGED <<pstat, stmt, acked, table, lost, cache>>
    BY <1>2, Zenon DEF Enter, datastore
  <2>2. Domains /\ MetricsLocal(p) BY Zenon DEF MetricsInv
  <2>3. Frame(p) /\ ppc'[p] = "entered" /\ pbatch'[p] = b
    BY <2>1, <2>2, Zenon DEF Frame, Domains
  <2>4. MetricsLocal(p)' BY <2>1, <2>2, <2>3, Zenon DEF MetricsLocal
  <2>5. SeriesAccounted \subseteq SeriesAccounted'
    BY <2>1, Zenon DEF SeriesAccounted, SeriesUnsent, SeriesLost
  <2> QED BY <2>1, <2>3, <2>4, <2>5, MetricsStep, Zenon
<1>3. CASE Expire
  BY <1>3, MetricsIdleStep, Zenon DEF Expire
<1>4. CASE Report \/ MetricsShutdown \/ UNCHANGED exporterVars
  <2>1. UNCHANGED <<push, table, lost, cache>>
    BY <1>4, Zenon DEF Report, MetricsShutdown, StopUsage, CloseChannel, Wait, CloseConn, exporterVars, datastore
  <2> QED BY <2>1, MetricsIdleStep, Zenon
<1> QED BY <1>1, <1>2, <1>3, <1>4, Zenon DEF MetricsNext, MetricsPush

LEMMA MetricsInvInit == ExporterInit => MetricsInv
<1> SUFFICES ASSUME ExporterInit PROVE MetricsInv
  BY Zenon
<1>1. Domains BY Zenon DEF ExporterInit, Domains, NoRows
<1>2. MetricsCached BY Zenon DEF ExporterInit, MetricsCached
<1>3. ASSUME NEW p \in Pusher PROVE MetricsLocal(p)
  <2>1. ppc[p] = "idle" /\ stmt[p] = NoRows BY Zenon DEF ExporterInit
  <2> QED BY <2>1, MetricsAssumption, Zenon DEF MetricsLocal, NoRows
<1>4. acked = {} BY Zenon DEF ExporterInit
<1> QED BY <1>1, <1>2, <1>3, <1>4, Zenon DEF MetricsInv

\* The samples and sketches of a payload of metrics that was accepted are stored, and
\* every series of theirs is stored, in a statement under way or was in one that
\* failed, however the writers of the pushes interleave, fail and share the cache.
THEOREM AcceptedMetricsAreStored == MetricsSpec => []SamplesAccounted
<1>1. MetricsInv => SamplesAccounted
  <2> SUFFICES ASSUME MetricsInv PROVE SamplesAccounted
    BY Zenon
  <2>1. \A b \in acked : MetricsAcked(b) BY Zenon DEF MetricsInv
  <2>2. \A b \in acked : b \notin DOMAIN Meters BY <2>1, MetricsAssumption, Zenon DEF MetricsAcked
  <2>3. AckedSamplesStored BY <2>1, <2>2, Zenon DEF AckedSamplesStored, MetricsAcked
  <2>4. AckedSeriesAccounted
    BY <2>1, Zenon DEF AckedSeriesAccounted, MetricsAcked, SeriesAccounted, SeriesLost, SeriesUnsent
  <2> QED BY <2>3, <2>4, Zenon DEF SamplesAccounted
<1> QED BY <1>1, MetricsInvInit, MetricsInvNext, PTL DEF MetricsSpec

-----------------------------------------------------------------------------
(* The exporter of meter samples *)

MeterExporterInv ==
  /\ Domains /\ \A p \in Pusher : ppc[p] # "idle" => pbatch[p] \in DOMAIN Meters
  /\ \A b \in acked : b \in DOMAIN Meters /\ meterSamples(b) \subseteq table["meter"]

LEMMA MeterExporterInvNext == MeterExporterInv /\ [MeterExporterNext]_exporterVars => MeterExporterInv'
<1> SUFFICES ASSUME MeterExporterInv, [MeterExporterNext]_exporterVars PROVE MeterExporterInv'
  BY Zenon
<1>0. Domains /\ "meter" \in Table BY MetricsAssumption, Zenon DEF MeterExporterInv
<1>1. ASSUME NEW p \in Pusher, Frame(p), ppc'[p] = "idle" \/ pbatch'[p] \in DOMAIN Meters,
             \A b \in acked' : b \in acked \/ (b \in DOMAIN Meters /\ meterSamples(b) \subseteq table'["meter"])
      PROVE  MeterExporterInv'
  <2>1. table["meter"] \subseteq table'["meter"] BY <1>0, <1>1, Zenon DEF Frame
  <2>2. Domains' BY <1>1, Zenon DEF Frame, Domains
  <2>3. \A q \in Pusher : ppc'[q] # "idle" => pbatch'[q] \in DOMAIN Meters
    BY <1>1, Zenon DEF Frame, MeterExporterInv
  <2> QED BY <1>1, <2>1, <2>2, <2>3, Zenon DEF MeterExporterInv
<1>2. ASSUME NEW p \in Pusher, ConsumeMeters(p) PROVE MeterExporterInv'
  <2>1. UNCHANGED <<table, lost>> /\ pbatch[p] \in DOMAIN Meters
    BY <1>2, Zenon DEF ConsumeMeters, Select, datastore
  <2>2. CASE closeChan
    <3>1. Return(p, FALSE) BY <1>2, <2>2, Zenon DEF ConsumeMeters, Select
    <3>2. Frame(p) /\ ppc'[p] = "idle" /\ acked' = acked
      <4>1. Returned(p, FALSE) BY <1>0, <3>1, ReturnEffect, Zenon
      <4> QED BY <1>0, <2>1, <4>1, Zenon DEF Returned, Frame, Domains
    <3> QED BY <1>1, <3>2, Zenon
  <2>3. CASE ~closeChan
    <3>1. PICK st : /\ ppc' = [ppc EXCEPT ![p] = "write"] /\ pstat' = [pstat EXCEPT ![p] = st]
                    /\ UNCHANGED <<pbatch, stmt, acked>>
      BY <1>2, <2>3, Zenon DEF ConsumeMeters, Select
    <3>2. Frame(p) BY <1>0, <2>1, <3>1, Zenon DEF Frame, Domains
    <3> QED BY <1>1, <2>1, <3>1, <3>2, Zenon
  <2> QED BY <2>2, <2>3, Zenon
<1>3. ASSUME NEW p \in Pusher, writeMeters(p) PROVE MeterExporterInv'
  <2>1. pbatch[p] \in DOMAIN Meters BY <1>3, Zenon DEF writeMeters
  <2>2. PICK rs : rs = meterSamples(pbatch[p]) BY Zenon
  <2>3. PICK ok \in BOOLEAN :
          /\ Return(p, ok) /\ UNCHANGED lost
          /\ DOMAIN table' = Table /\ \A u \in Table : table[u] \subseteq table'[u]
          /\ ok => rs \subseteq table'["meter"]
    <3>1. CASE rs = {} BY <1>0, <1>3, <2>2, <3>1, Zenon DEF writeMeters, datastore, Domains
    <3>2. CASE rs # {}
      <4>1. PICK out \in Outcomes : Insert("meter", rs, 0, out) /\ Return(p, out = "sent") /\ UNCHANGED lost
        BY <1>3, <2>2, <3>2, Zenon DEF writeMeters
      <4>2. /\ DOMAIN table' = Table /\ \A u \in Table : table[u] \subseteq table'[u]
            /\ out # "refused" => table'["meter"] = table["meter"] \cup rs
        BY <1>0, <4>1, InsertEffect
      <4>3. PICK ok \in BOOLEAN : ok = (out = "sent") BY Zenon
      <4>4. Return(p, ok) /\ UNCHANGED lost BY <4>1, <4>3, Zenon
      <4>5. ok => rs \subseteq table'["meter"] BY <4>2, <4>3, Zenon
      <4> QED BY <4>2, <4>4, <4>5, Zenon
    <3> QED BY <3>1, <3>2, Zenon
  <2>4. Frame(p) /\ ppc'[p] = "idle" /\ acked' = IF ok THEN acked \cup {pbatch[p]} ELSE acked
    <3>1. Returned(p, ok) BY <1>0, <2>3, ReturnEffect, Zenon
    <3> QED BY <2>3, <3>1, Zenon DEF Returned, Frame
  <2> QED BY <1>1, <2>1, <2>2, <2>3, <2>4, Zenon
<1>4. ASSUME NEW p \in Pusher, NEW b \in DOMAIN Meters, Enter(p, b) PROVE MeterExporterInv'
  <2>1. /\ ppc' = [ppc EXCEPT ![p] = "entered"] /\ pbatch' = [pbatch EXCEPT ![p] = b]
        /\ UNCHANGED <<pstat, stmt, acked, table, lost>>
    BY <1>4, Zenon DEF Enter, datastore
  <2>2. Frame(p) /\ pbatch'[p] = b BY <1>0, <2>1, Zenon DEF Frame, Domains
  <2> QED BY <1>1, <2>1, <2>2, Zenon
<1>5. CASE MeterExporterShutdown \/ UNCHANGED exporterVars
  <2>1. UNCHANGED <<ppc, pbatch, pstat, stmt, acked, table>>
    BY <1>5, Zenon DEF MeterExporterShutdown, CloseChannel, Wait, CloseConn, exporterVars, datastore, push
  <2> QED BY <2>1, Zenon DEF MeterExporterInv, Domains
<1> QED BY <1>2, <1>3, <1>4, <1>5, Zenon DEF MeterExporterNext

\* The samples of a payload of meters that was accepted are stored.
THEOREM AcceptedMetersAreStored == MeterExporterSpec => []SamplesAccounted
<1>1. ExporterInit => MeterExporterInv
  BY Zenon DEF ExporterInit, MeterExporterInv, Domains, NoRows
<1>2. MeterExporterInv => SamplesAccounted
  BY MetricsAssumption, Zenon DEF MeterExporterInv, SamplesAccounted, AckedSamplesStored, AckedSeriesAccounted
<1> QED BY <1>1, <1>2, MeterExporterInvNext, PTL DEF MeterExporterSpec

-----------------------------------------------------------------------------
(* Shutdown *)

\* The connection is closed by the last step of Shutdown, which comes after the one
\* that found no push past the gate; no push passes it once the channel is closed.
Gate ==
  /\ DOMAIN ppc = Pusher
  /\ connOpen \/ shut = "done"
  /\ shut \notin {"idle", "stopped"} => closeChan
  /\ shut \notin {"idle", "stopped", "closing"} => \A p \in Pusher : ppc[p] \in {"idle", "entered"}

LEMMA GateKept ==
  \A p \in Pusher :
    /\ Gate /\ UNCHANGED stopping /\ DOMAIN ppc' = Pusher
    /\ \A q \in Pusher : q # p => ppc'[q] = ppc[q]
    /\ ppc'[p] \in {"idle", "entered"} \/ ~closeChan \/ ppc[p] \notin {"idle", "entered"}
    => Gate'
BY DEF Gate, stopping

LEMMA GateReturn ==
  \A p \in Pusher : \A ok :
    Gate /\ Return(p, ok) /\ UNCHANGED stopping => Gate'
<1> SUFFICES ASSUME Gate, NEW p \in Pusher, NEW ok, Return(p, ok), UNCHANGED stopping PROVE Gate'
  BY Zenon
<1>1. ppc' = [ppc EXCEPT ![p] = "idle"] BY Zenon DEF Return
<1> QED BY <1>1, GateKept, Zenon DEF Gate

LEMMA GateSelect ==
  \A p \in Pusher : \A status :
    Gate /\ Select(p, status) => Gate'
<1> SUFFICES ASSUME Gate, NEW p \in Pusher, NEW status, Select(p, status) PROVE Gate'
  BY Zenon
<1>1. UNCHANGED stopping BY Zenon DEF Select
<1>2. CASE closeChan BY <1>1, <1>2, GateReturn, Zenon DEF Select
<1>3. CASE ~closeChan
  <2>1. ppc' = [ppc EXCEPT ![p] = "write"] BY <1>3, Zenon DEF Select
  <2> QED BY <1>1, <1>3, <2>1, GateKept, Zenon DEF Gate
<1> QED BY <1>2, <1>3, Zenon

LEMMA GateEnter ==
  \A p \in Pusher : \A b :
    Gate /\ Enter(p, b) => Gate'
<1> SUFFICES ASSUME Gate, NEW p \in Pusher, NEW b, Enter(p, b) PROVE Gate'
  BY Zenon
<1>1. ppc' = [ppc EXCEPT ![p] = "entered"] /\ UNCHANGED stopping BY Zenon DEF Enter
<1> QED BY <1>1, GateKept, Zenon DEF Gate

LEMMA GateShutdown ==
  /\ Gate
  /\ \/ StopUsage("idle", "stopped") \/ CloseChannel("stopped", "closing")
     \/ CloseChannel("idle", "closing") \/ Wait("closing", "stop") \/ StopUsage("stop", "close")
     \/ Wait("closing", "close") \/ CloseConn("close")
  => Gate'
<1> SUFFICES ASSUME Gate, \/ StopUsage("idle", "stopped") \/ CloseChannel("stopped", "closing")
                          \/ CloseChannel("idle", "closing") \/ Wait("closing", "stop") \/ StopUsage("stop", "close")
                          \/ Wait("closing", "close") \/ CloseConn("close")
             PROVE  Gate'
  BY Zenon
<1>1. UNCHANGED ppc BY Zenon DEF StopUsage, CloseChannel, Wait, CloseConn, push
<1> QED BY <1>1, Zenon DEF Gate, StopUsage, CloseChannel, Wait, CloseConn, Waited

LEMMA GateUnchanged ==
  Gate /\ UNCHANGED <<ppc, stopping>> => Gate'
BY DEF Gate, stopping

\* Shutdown of the exporter of spans closes the connection after the last push that
\* passed the select on closeChan, whatever push begins while it runs.
THEOREM SpansConnectionOpen == TracesSpec => []NoPushAfterClose
<1>1. ExporterInit => Gate BY Zenon DEF ExporterInit, Gate
<1>2. Gate => NoPushAfterClose BY Zenon DEF Gate, NoPushAfterClose
<1>3. Gate /\ [TracesNext]_tracesVars => Gate'
  <2> SUFFICES ASSUME Gate, [TracesNext]_tracesVars PROVE Gate'
    BY Zenon
  <2>1. ASSUME NEW p \in Pusher, TracesPush(p) PROVE Gate'
    <3>1. CASE pushTraceDataV3(p) BY <3>1, GateSelect, Zenon DEF pushTraceDataV3
    <3>2. CASE \/ writeIndexBatchV3(p) \/ writeErrorBatchV3(p) \/ TagSendKeys(p)
               \/ TagAppend(p) \/ TagSendValues(p)
      BY <3>2, GateUnchanged, Zenon DEF writeIndexBatchV3, writeErrorBatchV3, TagSendKeys, TagAppend, TagSendValues,
           WriteRows
    <3>3. CASE WriteBatchOfSpansV3(p)
      <4>1. ppc[p] = "write" /\ UNCHANGED stopping BY <3>3, Zenon DEF WriteBatchOfSpansV3
      <4>2. Return(p, FALSE) \/ ppc' = [ppc EXCEPT ![p] = "resources"] BY <3>3, Zenon DEF WriteBatchOfSpansV3
      <4>3. CASE Return(p, FALSE) BY <4>1, <4>3, GateReturn, Zenon
      <4>4. CASE ppc' = [ppc EXCEPT ![p] = "resources"] BY <4>1, <4>4, GateKept, Zenon DEF Gate
      <4> QED BY <4>2, <4>3, <4>4, Zenon
    <3>4. CASE ResourcesAppend(p)
      <4>1. ppc[p] = "resources" /\ UNCHANGED stopping BY <3>4, Zenon DEF ResourcesAppend
      <4>2. Return(p, FALSE) \/ ppc' = [ppc EXCEPT ![p] = "sendResources"] BY <3>4, Zenon DEF ResourcesAppend
      <4>3. CASE Return(p, FALSE) BY <4>1, <4>3, GateReturn, Zenon
      <4>4. CASE ppc' = [ppc EXCEPT ![p] = "sendResources"] BY <4>1, <4>4, GateKept, Zenon DEF Gate
      <4> QED BY <4>2, <4>3, <4>4, Zenon
    <3>5. CASE ResourcesSend(p) BY <3>5, GateReturn, Zenon DEF ResourcesSend
    <3> QED BY <2>1, <3>1, <3>2, <3>3, <3>4, <3>5, Zenon DEF TracesPush
  <2>2. ASSUME NEW p \in Pusher, NEW b \in DOMAIN Spans, Enter(p, b) PROVE Gate'
    BY <2>2, GateEnter, Zenon
  <2>3. CASE TracesShutdown BY <2>3, GateShutdown, Zenon DEF TracesShutdown
  <2>4. CASE Expire \/ doFetchShouldSkipKeys \/ Report \/ UNCHANGED tracesVars
    BY <2>4, GateUnchanged, Zenon DEF Expire, doFetchShouldSkipKeys, Report, tracesVars, exporterVars, push
  <2> QED BY <2>1, <2>2, <2>3, <2>4, Zenon DEF TracesNext
<1> QED BY <1>1, <1>2, <1>3, PTL DEF TracesSpec, tracesVars

\* Shutdown of the exporter of metrics does the same, although it stops the usage
\* collector before it closes closeChan.
THEOREM MetricsConnectionOpen == MetricsSpec => []NoPushAfterClose
<1>1. ExporterInit => Gate BY Zenon DEF ExporterInit, Gate
<1>2. Gate => NoPushAfterClose BY Zenon DEF Gate, NoPushAfterClose
<1>3. Gate /\ [MetricsNext]_exporterVars => Gate'
  <2> SUFFICES ASSUME Gate, [MetricsNext]_exporterVars PROVE Gate'
    BY Zenon
  <2>1. ASSUME NEW p \in Pusher, MetricsPush(p) PROVE Gate'
    <3>1. CASE PushMetrics(p) BY <3>1, GateSelect, Zenon DEF PushMetrics
    <3>2. CASE SeriesAppend(p) \/ SeriesSend(p) \/ SamplesAppend(p) \/ SamplesSend(p) \/ writeExpHist(p)
      BY <3>2, GateUnchanged, Zenon DEF SeriesAppend, SeriesSend, SamplesAppend, SamplesSend, writeExpHist, WriteRows
    <3>3. CASE writeBatch(p) BY <3>3, GateReturn, Zenon DEF writeBatch
    <3> QED BY <2>1, <3>1, <3>2, <3>3, Zenon DEF MetricsPush
  <2>2. ASSUME NEW p \in Pusher, NEW b \in DOMAIN Metrics, Enter(p, b) PROVE Gate'
    BY <2>2, GateEnter, Zenon
  <2>3. CASE MetricsShutdown BY <2>3, GateShutdown, Zenon DEF MetricsShutdown
  <2>4. CASE Expire \/ Report \/ UNCHANGED exporterVars
    BY <2>4, GateUnchanged, Zenon DEF Expire, Report, exporterVars, push
  <2> QED BY <2>1, <2>2, <2>3, <2>4, Zenon DEF MetricsNext, MetricsPush
<1> QED BY <1>1, <1>2, <1>3, PTL DEF MetricsSpec

\* Shutdown of the exporter of meter samples, which has no usage collector, closes the
\* connection after the last push that passed the select on closeChan.
THEOREM MetersConnectionOpen == MeterExporterSpec => []NoPushAfterClose
<1>1. ExporterInit => Gate BY Zenon DEF ExporterInit, Gate
<1>2. Gate => NoPushAfterClose BY Zenon DEF Gate, NoPushAfterClose
<1>3. Gate /\ [MeterExporterNext]_exporterVars => Gate'
  <2> SUFFICES ASSUME Gate, [MeterExporterNext]_exporterVars PROVE Gate'
    BY Zenon
  <2>1. ASSUME NEW p \in Pusher, ConsumeMeters(p) PROVE Gate'
    BY <2>1, GateSelect, Zenon DEF ConsumeMeters
  <2>2. ASSUME NEW p \in Pusher, writeMeters(p) PROVE Gate'
    BY <2>2, GateReturn, Zenon DEF writeMeters
  <2>3. ASSUME NEW p \in Pusher, NEW b \in DOMAIN Meters, Enter(p, b) PROVE Gate'
    BY <2>3, GateEnter, Zenon
  <2>4. CASE MeterExporterShutdown BY <2>4, GateShutdown, Zenon DEF MeterExporterShutdown
  <2>5. CASE UNCHANGED exporterVars BY <2>5, GateUnchanged, Zenon DEF exporterVars, push
  <2> QED BY <2>1, <2>2, <2>3, <2>4, <2>5, Zenon DEF MeterExporterNext
<1> QED BY <1>1, <1>2, <1>3, PTL DEF MeterExporterSpec
=============================================================================
