-------------------------- MODULE JsonTypeExporter --------------------------
(***************************************************************************)
(* The exporter of the types found in log bodies                           *)
(* (exporter/jsontypeexporter): a push analyses the bodies of its records  *)
(* in parallel goroutines, which take a slot of a limiter that all pushes  *)
(* share and a cache of keys that were found harmless, and then writes the *)
(* paths with their types.                                                 *)
(*                                                                         *)
(* A value is [type, items], with items a sequence of <<key, value>>; a    *)
(* key is the sequence of its parts between dots, and so is a path, in     *)
(* which "[]" stands for an element of an array.  Backticks are left out.  *)
(* The recursion of analyzePValue is a sequence of calls still to be made. *)
(***************************************************************************)
EXTENDS Integers, FiniteSets, Sequences

CONSTANTS
  LogsPusher,          \* the consumers of the sending queue
  Workload,            \* a sequence of [payload -> the sequence of its bodies]
  Cardinal,            \* keys for which IsCardinal holds
  MaxDepthTraverse, MaxArrayElementsAllowed, MaxKeysAtLevel,
  KeyCacheSize, Concurrency,
  MaxLogsPushes,       \* bound: pushes of a payload
  MaxLogsFaults        \* bound: calls that fail and contexts that expire

VARIABLES
  failOnError,
  load,                \* the element of Workload that is pushed
  jpc, payload,        \* where a push is, and its payload
  nextBody,            \* the body its loop is at
  running,             \* [body -> [calls, failed]]: the goroutines of its group
  typeSet,             \* <<path, type>>
  groupErr, ctxDone,   \* the error of its group; its context has expired
  jsonLimiter,             \* slots taken
  cardinalKeyCache,    \* most recently added first
  pathTypes,           \* the table
  jsonClosed, jsonConn, jsonFaults,
  accepted, logsPushes

config == <<failOnError, load>>
jpush == <<jpc, payload, nextBody, running, typeSet, groupErr, ctxDone>>
jsonVars == <<config, jpush, jsonLimiter, cardinalKeyCache, pathTypes, jsonClosed, jsonConn,
              jsonFaults, accepted, logsPushes>>

bodiesOf == Workload[load]
Payloads == DOMAIN bodiesOf
NoPayload == "none"

JsonInit ==
  /\ failOnError \in BOOLEAN /\ load \in DOMAIN Workload
  /\ jpc = [p \in LogsPusher |-> "idle"] /\ payload = [p \in LogsPusher |-> NoPayload]
  /\ nextBody = [p \in LogsPusher |-> 1] /\ running = [p \in LogsPusher |-> << >>]
  /\ typeSet = [p \in LogsPusher |-> {}]
  /\ groupErr = [p \in LogsPusher |-> FALSE] /\ ctxDone = [p \in LogsPusher |-> FALSE]
  /\ jsonLimiter = 0 /\ cardinalKeyCache = << >> /\ pathTypes = {}
  /\ jsonClosed = FALSE /\ jsonConn = TRUE /\ jsonFaults = 0
  /\ accepted = {} /\ logsPushes = [b \in Payloads |-> 0]

-----------------------------------------------------------------------------
(* analyzePValue *)

NoKey == << >>
Call(key, path, level, value) == [key |-> key, path |-> path, level |-> level, value |-> value]

Primitive == {"string", "bytes", "bool", "float", "int"}
Stringy(t) == IF t = "bytes" THEN "string" ELSE t

inferArrayMask(types) ==
  LET unique == {Stringy(t) : t \in types}
      hasJSON == "map" \in unique
      hasPrimitive == IF hasJSON THEN Cardinality(unique) > 1 ELSE unique # {}
  IN IF hasJSON THEN IF hasPrimitive THEN "Array(Dynamic)" ELSE "Array(JSON)"
     ELSE IF "string" \in unique
     THEN IF Cardinality(unique) > 1 THEN "Array(Dynamic)" ELSE "Array(String)"
     ELSE IF "float" \in unique THEN "Array(Float64)"
     ELSE IF "int" \in unique THEN "Array(Int64)" ELSE "Array(Bool)"

scalarMask(t) ==
  CASE Stringy(t) = "string" -> "String" [] t = "bool" -> "Bool" [] t = "float" -> "Float64" [] t = "int" -> "Int64"

\* The elements of an array up to one that is an array or has no type.
Elements(items) ==
  LET bad == {i \in DOMAIN items : items[i][2].type \notin Primitive \cup {"map"}}
  IN IF bad = {} THEN items ELSE SubSeq(items, 1, (CHOOSE i \in bad : \A j \in bad : i <= j) - 1)

\* What a call of the closure inserts into the type set, the calls it makes in turn,
\* and whether it returns an error.
NoEffect == [types |-> {}, calls |-> << >>, failed |-> FALSE]

closureMap(c) ==
  LET items == c.value.items
  IN IF Len(items) > MaxKeysAtLevel THEN NoEffect
     ELSE [NoEffect EXCEPT !.calls =
             [i \in DOMAIN items |-> Call(items[i][1], c.path \o items[i][1], c.level + 1, items[i][2])]]

closureSlice(c) ==
  LET items == c.value.items
      elements == Elements(items)
      maps == SelectSeq(elements, LAMBDA e : e[2].type = "map")
  IN IF items = << >> \/ Len(items) > MaxArrayElementsAllowed THEN NoEffect
     ELSE [NoEffect EXCEPT
             !.calls = [i \in DOMAIN maps |-> Call(NoKey, Append(c.path, "[]"), c.level, maps[i][2])],
             !.types = IF elements # items THEN {}
                       ELSE {<<c.path, inferArrayMask({e[2].type : e \in {items[i] : i \in DOMAIN items}})>>}]

closure(c) ==
  LET t == c.value.type
  IN CASE c.path # << >> /\ c.path[1] = "message" /\ Len(c.path) > 1 -> NoEffect
       [] c.path = <<"message">> -> [NoEffect EXCEPT !.types = {<<c.path, "String">>}]
       [] OTHER ->
            CASE t \in {"map", "slice"} /\ c.level >= MaxDepthTraverse -> NoEffect
              [] t = "map" /\ c.level < MaxDepthTraverse -> closureMap(c)
              [] t = "slice" /\ c.level < MaxDepthTraverse -> closureSlice(c)
              [] t \in Primitive -> [NoEffect EXCEPT !.types = {<<c.path, scalarMask(t)>>}]
              [] OTHER -> [NoEffect EXCEPT !.failed = TRUE]

-----------------------------------------------------------------------------
(* processLogs *)

Cancelled(p) == ctxDone[p] \/ groupErr[p]

JsonReturn(p, err) ==
  /\ jpc' = [jpc EXCEPT ![p] = "idle"] /\ payload' = [payload EXCEPT ![p] = NoPayload]
  /\ nextBody' = [nextBody EXCEPT ![p] = 1] /\ running' = [running EXCEPT ![p] = << >>]
  /\ typeSet' = [typeSet EXCEPT ![p] = {}]
  /\ groupErr' = [groupErr EXCEPT ![p] = FALSE] /\ ctxDone' = [ctxDone EXCEPT ![p] = FALSE]
  /\ accepted' = IF err /\ failOnError THEN accepted ELSE accepted \cup {payload[p]}

JsonGoto(p, label) ==
  /\ jpc' = [jpc EXCEPT ![p] = label]
  /\ UNCHANGED <<payload, nextBody, running, typeSet, groupErr, ctxDone, accepted>>

\* pushLogs, up to the select on closeChan: an error is returned, and the payload
\* pushed again, if FailOnError is set.
PushLogs(p, b) ==
  /\ jpc[p] = "idle" /\ b \notin accepted /\ logsPushes[b] < MaxLogsPushes
  /\ \A q \in LogsPusher : payload[q] # b
  /\ logsPushes' = [logsPushes EXCEPT ![b] = @ + 1]
  /\ IF jsonClosed
     THEN /\ accepted' = IF failOnError THEN accepted ELSE accepted \cup {b}
          /\ UNCHANGED <<jpc, payload>>
     ELSE /\ jpc' = [jpc EXCEPT ![p] = "loop"] /\ payload' = [payload EXCEPT ![p] = b]
          /\ UNCHANGED accepted
  /\ UNCHANGED <<config, nextBody, running, typeSet, groupErr, ctxDone, jsonLimiter,
                 cardinalKeyCache, pathTypes, jsonClosed, jsonConn, jsonFaults>>

\* The loop over the records: a body that is no map is skipped; for the others the
\* select waits for a slot or for the end of the group's context.
NextBody(p) ==
  LET bodies == bodiesOf[payload[p]]
      i == nextBody[p]
  IN  /\ jpc[p] = "loop"
      /\ \/ /\ i > Len(bodies) \/ (i <= Len(bodies) /\ bodies[i].type = "map" /\ Cancelled(p))
            /\ jpc' = [jpc EXCEPT ![p] = "wait"]
            /\ UNCHANGED <<nextBody, running, jsonLimiter>>
         \/ /\ i <= Len(bodies) /\ bodies[i].type # "map"
            /\ nextBody' = [nextBody EXCEPT ![p] = i + 1]
            /\ UNCHANGED <<jpc, running, jsonLimiter>>
         \/ /\ i <= Len(bodies) /\ bodies[i].type = "map" /\ jsonLimiter < Concurrency
            /\ jsonLimiter' = jsonLimiter + 1
            /\ running' = [running EXCEPT ![p] = [j \in DOMAIN @ \cup {i} |->
                 IF j = i THEN [calls |-> <<Call(NoKey, << >>, 0, bodies[i])>>, failed |-> FALSE] ELSE @[j]]]
            /\ nextBody' = [nextBody EXCEPT ![p] = i + 1]
            /\ UNCHANGED jpc
      /\ UNCHANGED <<config, payload, typeSet, groupErr, ctxDone, cardinalKeyCache, pathTypes,
                     jsonClosed, jsonConn, jsonFaults, accepted, logsPushes>>

contains(key) == \E i \in DOMAIN cardinalKeyCache : cardinalKeyCache[i] = key

addKey_Unbounded(key) == <<key>> \o SelectSeq(cardinalKeyCache, LAMBDA k : k # key)

\* An LRU cache: the key that was added longest ago makes room.
addKey(key) ==
  LET all == <<key>> \o SelectSeq(cardinalKeyCache, LAMBDA k : k # key)
  IN SubSeq(all, 1, IF Len(all) < KeyCacheSize THEN Len(all) ELSE KeyCacheSize)

skipKey(key) == key # NoKey /\ ~contains(key) /\ key \in Cardinal

checkedKeys_All(key) == IF key = NoKey \/ contains(key) THEN cardinalKeyCache ELSE addKey(key)

checkedKeys(key) ==
  IF key = NoKey \/ contains(key) \/ skipKey(key) THEN cardinalKeyCache ELSE addKey(key)

\* One call of the closure, with the checks of the map's loop before it.  That the
\* look into the cache and the Add are one step changes no answer of a later look:
\* a key is added once it was found not to be cardinal.
Analyze(p, i) ==
  LET calls == running[p][i].calls
      c == Head(calls)
      e == IF skipKey(c.key) THEN NoEffect ELSE closure(c)
  IN  /\ i \in DOMAIN running[p] /\ calls # << >>
      /\ IF c.key # NoKey /\ Cancelled(p)
         THEN /\ running' = [running EXCEPT ![p][i].calls = << >>]
              /\ UNCHANGED <<typeSet, cardinalKeyCache>>
         ELSE /\ running' = [running EXCEPT ![p][i] =
                   [calls |-> IF e.failed THEN << >> ELSE e.calls \o Tail(calls), failed |-> e.failed]]
              /\ typeSet' = [typeSet EXCEPT ![p] = @ \cup e.types]
              /\ cardinalKeyCache' = checkedKeys(c.key)
      /\ UNCHANGED <<config, jpc, payload, nextBody, groupErr, ctxDone, jsonLimiter, pathTypes,
                     jsonClosed, jsonConn, jsonFaults, accepted, logsPushes>>

EndAnalysis_KeepsSlot(p, i) ==
  /\ i \in DOMAIN running[p] /\ running[p][i].calls = << >>
  /\ jsonLimiter' = IF running[p][i].failed THEN jsonLimiter ELSE jsonLimiter - 1
  /\ running' = [running EXCEPT ![p] = [j \in DOMAIN @ \ {i} |-> @[j]]]
  /\ groupErr' = [groupErr EXCEPT ![p] = @ \/ running[p][i].failed]
  /\ UNCHANGED <<config, jpc, payload, nextBody, typeSet, ctxDone, cardinalKeyCache, pathTypes,
                 jsonClosed, jsonConn, jsonFaults, accepted, logsPushes>>

\* The goroutine gives its slot back, and its error to the group, which cancels the
\* context of the others.
EndAnalysis(p, i) ==
  /\ i \in DOMAIN running[p] /\ running[p][i].calls = << >>
  /\ jsonLimiter' = jsonLimiter - 1
  /\ running' = [running EXCEPT ![p] = [j \in DOMAIN @ \ {i} |-> @[j]]]
  /\ groupErr' = [groupErr EXCEPT ![p] = @ \/ running[p][i].failed]
  /\ UNCHANGED <<config, jpc, payload, nextBody, typeSet, ctxDone, cardinalKeyCache, pathTypes,
                 jsonClosed, jsonConn, jsonFaults, accepted, logsPushes>>

\* group.Wait()
WaitGroup(p) ==
  /\ jpc[p] = "wait" /\ DOMAIN running[p] = {}
  /\ IF groupErr[p] THEN JsonReturn(p, TRUE) ELSE JsonGoto(p, "prepare")
  /\ UNCHANGED <<config, jsonLimiter, cardinalKeyCache, pathTypes, jsonClosed, jsonConn,
                 jsonFaults, logsPushes>>

-----------------------------------------------------------------------------
(* persistTypes, Shutdown *)

\* A call to the datastore may succeed while its context lasts and the connection is open.
CanSucceed(p) == ~ctxDone[p] /\ jsonConn

Failing(p) == ~CanSucceed(p) \/ jsonFaults < MaxLogsFaults
JsonFault(p) == jsonFaults' = IF CanSucceed(p) THEN jsonFaults + 1 ELSE jsonFaults

\* The statement is prepared and filled; without a row in it, it is not sent.
PrepareTypes(p) ==
  /\ jpc[p] = "prepare"
  /\ \/ /\ CanSucceed(p) /\ UNCHANGED jsonFaults
        /\ IF typeSet[p] = {} THEN JsonReturn(p, FALSE) ELSE JsonGoto(p, "send")
     \/ Failing(p) /\ JsonFault(p) /\ JsonReturn(p, TRUE)
  /\ UNCHANGED <<config, jsonLimiter, cardinalKeyCache, pathTypes, jsonClosed, jsonConn, logsPushes>>

SendTypes_LogsErrors(p) ==
  /\ jpc[p] = "send" /\ JsonReturn(p, FALSE)
  /\ \/ CanSucceed(p) /\ pathTypes' = pathTypes \cup typeSet[p] /\ UNCHANGED jsonFaults
     \/ Failing(p) /\ JsonFault(p) /\ UNCHANGED pathTypes
  /\ UNCHANGED <<config, jsonLimiter, cardinalKeyCache, jsonClosed, jsonConn, logsPushes>>

\* The rows are inserted; or they are not; or they are and the answer is lost.
SendTypes(p) ==
  /\ jpc[p] = "send"
  /\ \/ /\ CanSucceed(p) /\ pathTypes' = pathTypes \cup typeSet[p]
        /\ JsonReturn(p, FALSE) /\ UNCHANGED jsonFaults
     \/ /\ Failing(p) /\ JsonFault(p) /\ JsonReturn(p, TRUE)
        /\ pathTypes' \in {pathTypes} \cup IF jsonConn THEN {pathTypes \cup typeSet[p]} ELSE {}
  /\ UNCHANGED <<config, jsonLimiter, cardinalKeyCache, jsonClosed, jsonConn, logsPushes>>

\* The timeout of the exporter, or the end of the caller's context.
ContextDone(p) ==
  /\ jpc[p] # "idle" /\ ~ctxDone[p] /\ jsonFaults < MaxLogsFaults
  /\ ctxDone' = [ctxDone EXCEPT ![p] = TRUE] /\ jsonFaults' = jsonFaults + 1
  /\ UNCHANGED <<config, jpc, payload, nextBody, running, typeSet, groupErr, jsonLimiter,
                 cardinalKeyCache, pathTypes, jsonClosed, jsonConn, accepted, logsPushes>>

\* close(closeChan), and then conn.Close(); pushes are not waited for.
JsonShutdown ==
  /\ \/ ~jsonClosed /\ jsonClosed' = TRUE /\ UNCHANGED jsonConn
     \/ jsonClosed /\ jsonConn /\ jsonConn' = FALSE /\ UNCHANGED jsonClosed
  /\ UNCHANGED <<config, jpush, jsonLimiter, cardinalKeyCache, pathTypes, jsonFaults, accepted, logsPushes>>

JsonNext ==
  \/ \E p \in LogsPusher :
       \/ \E b \in Payloads : PushLogs(p, b)
       \/ NextBody(p) \/ WaitGroup(p) \/ PrepareTypes(p) \/ SendTypes(p) \/ ContextDone(p)
       \/ \E i \in DOMAIN running[p] : Analyze(p, i) \/ EndAnalysis(p, i)
  \/ JsonShutdown

-----------------------------------------------------------------------------
(* What a body contains *)

\* The kinds of values that can be stored as another kind.
Coerces ==
  {<<"bool", "int">>, <<"bool", "float">>, <<"int", "float">>}
  \cup {<<a, a>> : a \in {"bool", "int", "float", "string", "map", "dynamic"}}
  \cup {<<a, "dynamic">> : a \in {"bool", "int", "float", "string", "map"}}

ArrayOf == [bool |-> "Array(Bool)", int |-> "Array(Int64)", float |-> "Array(Float64)",
            string |-> "Array(String)", map |-> "Array(JSON)", dynamic |-> "Array(Dynamic)"]

\* The least kind that all the elements can be stored as.
LeastCommon(kinds) ==
  LET above == {k \in DOMAIN ArrayOf : \A a \in kinds : <<a, k>> \in Coerces}
  IN CHOOSE k \in above : \A j \in above : <<k, j>> \in Coerces

\* The paths of a body with their types: of scalars at most MaxDepthTraverse keys deep,
\* of arrays less deep than that, and of what is in the objects of such an array.
RECURSIVE TypesAt(_, _, _)
TypesAt(path, depth, value) ==
  LET t == value.type
      items == value.items
      inArray == Elements(items)
  IN CASE path # << >> /\ path[1] = "message" ->
            IF Len(path) = 1 THEN {<<path, "String">>} ELSE {}
       [] t = "map" /\ (path = << >> \/ path[1] # "message") /\ Len(items) <= MaxKeysAtLevel ->
            UNION {TypesAt(path \o items[i][1], depth + 1, items[i][2]) :
                     i \in {j \in DOMAIN items : items[j][1] \notin Cardinal}}
       [] t = "slice" /\ path # << >> /\ path[1] # "message" /\ depth < MaxDepthTraverse
          /\ Len(items) \in 1 .. MaxArrayElementsAllowed ->
            UNION {TypesAt(Append(path, "[]"), depth, inArray[i][2]) :
                     i \in {j \in DOMAIN inArray : inArray[j][2].type = "map"}}
            \cup (IF inArray # items THEN {}
                  ELSE {<<path, ArrayOf[LeastCommon({Stringy(items[i][2].type) : i \in DOMAIN items})]>>})
       [] t \in Primitive /\ path # << >> /\ path[1] # "message" /\ depth <= MaxDepthTraverse ->
            {<<path, scalarMask(t)>>}
       [] OTHER -> {}

Maps(b) == {i \in DOMAIN bodiesOf[b] : bodiesOf[b][i].type = "map"}
TypesIn(b) == UNION {TypesAt(<< >>, 0, bodiesOf[b][i]) : i \in Maps(b)}

-----------------------------------------------------------------------------
(* Properties *)

\* Every variable stays in its range, and an idle push has no goroutine.
JsonTypeOK ==
  /\ \A p \in LogsPusher :
       /\ jpc[p] \in {"idle", "loop", "wait", "prepare", "send"}
       /\ payload[p] \in Payloads \cup {NoPayload}
       /\ jpc[p] = "idle" <=> payload[p] = NoPayload
       /\ jpc[p] \notin {"loop", "wait"} => DOMAIN running[p] = {}
  /\ jsonLimiter \in 0 .. Concurrency /\ Len(cardinalKeyCache) <= KeyCacheSize
  /\ accepted \subseteq Payloads

\* The slots taken are those of the goroutines that run, of all pushes together, however
\* these end: no slot is lost, so that no later push waits for ever.
SlotsAreHeld ==
  jsonLimiter = Cardinality({<<p, i>> \in LogsPusher \X (1 .. 9) : i \in DOMAIN running[p]})

\* What is sent is exactly what the bodies contain, whatever the goroutines added to the
\* cache for each other or evicted from it: an analysis cut short by an error or by the
\* end of the context is not sent.
SentIsWhole == \A p \in LogsPusher : jpc[p] = "send" => typeSet[p] = TypesIn(payload[p])

\* With FailOnError, a payload that was accepted has all its types in the table.
AcceptedIsWritten == failOnError => \A b \in accepted : TypesIn(b) \subseteq pathTypes
=============================================================================
