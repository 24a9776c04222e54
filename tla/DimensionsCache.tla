-------------------------- MODULE DimensionsCache --------------------------
(***************************************************************************)
(* The cache of the span metrics processor (internal/cache/cache.go): an   *)
(* LRU cache that remembers what it evicted until RemoveEvictedItems.  A   *)
(* cache is a record: order lists the keys of the LRU, the least recently  *)
(* used first, value maps them to their values, and evictedItems maps the  *)
(* keys that were evicted to theirs.                                       *)
(***************************************************************************)
EXTENDS Naturals, Sequences, Functions

CONSTANT CacheSize
ASSUME CacheAssumption == CacheSize \in Nat \ {0}

EmptyMap == [k \in {} |-> {}]

\* m[k] = v in a map.
MapPut(m, k, v) == [x \in DOMAIN m \cup {k} |-> IF x = k THEN v ELSE m[x]]

\* delete(m, k) of a map.
MapDelete(m, k) == Restrict(m, DOMAIN m \ {k})

NewCache == [order |-> << >>, value |-> EmptyMap, evictedItems |-> EmptyMap]

\* The keys without the one at position i.
Without(s, i) == [j \in 1 .. Len(s) - 1 |-> IF j < i THEN s[j] ELSE s[j + 1]]

\* The LRU's own Get: the key becomes the most recently used one.
Touch(order, k) == Append(Without(order, CHOOSE i \in DOMAIN order : order[i] = k), k)

\* The eviction callback hands what leaves the LRU to evictedItems.
CacheAdd_Forgets(c, k, v) ==
  IF k \in Range(c.order)
  THEN [c EXCEPT !.order = Touch(@, k), !.value = MapPut(@, k, v)]
  ELSE IF Len(c.order) < CacheSize
  THEN [c EXCEPT !.order = Append(@, k), !.value = MapPut(@, k, v)]
  ELSE [c EXCEPT !.order = Append(Tail(@), k),
                 !.value = MapPut(MapDelete(@, Head(c.order)), k, v)]

CacheAdd(c, k, v) ==
  IF k \in Range(c.order)
  THEN [c EXCEPT !.order = Touch(@, k), !.value = MapPut(@, k, v)]
  ELSE IF Len(c.order) < CacheSize
  THEN [c EXCEPT !.order = Append(@, k), !.value = MapPut(@, k, v)]
  ELSE [c EXCEPT !.order = Append(Tail(@), k),
                 !.value = MapPut(MapDelete(@, Head(c.order)), k, v),
                 !.evictedItems = MapPut(@, Head(c.order), c.value[Head(c.order)])]

CacheHas(c, k) == k \in Range(c.order) \/ k \in DOMAIN c.evictedItems

\* Get revives an evicted item into the LRU.
CacheGet(c, k) ==
  IF k \in Range(c.order) THEN [c EXCEPT !.order = Touch(@, k)]
  ELSE IF k \in DOMAIN c.evictedItems
  THEN CacheAdd([c EXCEPT !.evictedItems = MapDelete(@, k)], k, c.evictedItems[k])
  ELSE c


RemoveEvictedItems(c) == [c EXCEPT !.evictedItems = EmptyMap]

Purge(c) == NewCache
=============================================================================
