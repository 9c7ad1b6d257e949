----------------------------- MODULE OrderedMap -----------------------------
(***************************************************************************)
(* misc/ordered_map.hpp: a list of pairs in order of insertion and, per    *)
(* key, an iterator into it; misc/cache.hpp: the LRU cache built on it.    *)
(*                                                                         *)
(* A node of the list has an identity, which the list of another map       *)
(* assigned over it keeps; `content' says what a user of the interface     *)
(* expects.  The cache is a map of its own, kept as the order of its keys; *)
(* it caches a function that calls the cache for k - 1 and k - 2.          *)
(***************************************************************************)
EXTENDS Integers, SequencesExt, FiniteSets, FiniteSetsExt

CONSTANTS Keys, MapValues,
          MaxMapOps, \* bound of the operations
          Capacities

VARIABLES data,     \* per map: sequence of nodes, records of id, key and value
          lookup,   \* per map: the id of the node of each key
          content,
          spoiled,  \* an operation has left iterators that nobody may follow
          cache,    \* order of the keys, least recent first; recency, hits, miss, calls
          capacity, mapOps

vars == <<data, lookup, content, spoiled, cache, capacity, mapOps>>
Maps == {1, 2}
Nowhere == 0

Fresh(used) ==
  /\ data = [m \in Maps |-> <<>>] /\ lookup = [m \in Maps |-> << >>] /\ content = [m \in Maps |-> <<>>]
  /\ spoiled = FALSE /\ mapOps = used
  /\ cache = [order |-> <<>>, recency |-> <<>>, hits |-> 0, miss |-> 0, calls |-> 0]
  /\ capacity \in Capacities
Init == Fresh(0)
Ended == Fresh(MaxMapOps) /\ capacity = Min(Capacities)

Op == mapOps < MaxMapOps /\ mapOps' = mapOps + 1 /\ ~spoiled
Pairs(d) == [p \in 1 .. Len(d) |-> <<d[p].key, d[p].value>>]
Ids(d) == {d[p].id : p \in 1 .. Len(d)}
FreshId(d) == Min((1 .. Cardinality(Keys) + 1) \ Ids(d))
KeyAt(c, k) == {p \in 1 .. Len(c) : c[p][1] = k}

-----------------------------------------------------------------------------
(* ordered_map.                                                            *)

find(m, k) == IF k \in DOMAIN lookup[m] THEN lookup[m][k] ELSE Nowhere
At(d, id) == CHOOSE p \in 1 .. Len(d) : d[p].id = id
Mapped(l, k, id) == [j \in DOMAIN l \cup {k} |-> IF j = k THEN id ELSE l[j]]
Unmapped(l, k) == [j \in DOMAIN l \ {k} |-> l[j]]
Becomes(m, d, l) == data' = [data EXCEPT ![m] = d] /\ lookup' = [lookup EXCEPT ![m] = l]
Expect(m, c) == content' = [content EXCEPT ![m] = c]
Same == UNCHANGED <<spoiled, cache, capacity>>
Put(c, k, v) == IF KeyAt(c, k) = {} THEN Append(c, <<k, v>>)
                ELSE [c EXCEPT ![Min(KeyAt(c, k))] = <<k, v>>]
Dropped(c, k) == SelectSeq(c, LAMBDA e : e[1] # k)

Appended(d, l, k, v) ==
  [d |-> Append(d, [id |-> FreshId(d), key |-> k, value |-> v]), l |-> Mapped(l, k, FreshId(d))]

insert(m, k, v) ==
  /\ Op
  /\ LET id == find(m, k)
         new == Appended(data[m], lookup[m], k, v)
     IN  IF id # Nowhere THEN Becomes(m, [data[m] EXCEPT ![At(data[m], id)].value = v], lookup[m])
                         ELSE Becomes(m, new.d, new.l)
  /\ Expect(m, Put(content[m], k, v)) /\ Same

Erased(m, k) == [d |-> IF find(m, k) = Nowhere THEN data[m] ELSE RemoveAt(data[m], At(data[m], find(m, k))),
                 l |-> Unmapped(lookup[m], k)]

emplace(m, k, v) ==
  /\ Op
  /\ LET rest == Erased(m, k)
         new == Appended(rest.d, rest.l, k, v)
     IN  Becomes(m, new.d, new.l)
  /\ Expect(m, Append(Dropped(content[m], k), <<k, v>>)) /\ Same

erase(m, k) ==
  /\ Op /\ Becomes(m, Erased(m, k).d, Erased(m, k).l) /\ Expect(m, Dropped(content[m], k)) /\ Same

Touched(m, k, d) == Mapped(lookup[m], k, d[Len(d)].id)

(* touch: a new node at the end, then the old one goes.                    *)
touch(m, k) ==
  /\ Op /\ find(m, k) # Nowhere
  /\ LET p == At(data[m], find(m, k))
         grown == Append(data[m], [data[m][p] EXCEPT !.id = FreshId(data[m])])
         d == RemoveAt(grown, p)
     IN  /\ Becomes(m, d, Touched(m, k, d))
         /\ Expect(m, Append(Dropped(content[m], k), <<k, data[m][p].value>>))
  /\ Same

(* extract: the entry is erased, and then used to find the node.           *)
extract(m, k) ==
  /\ Op /\ k \in DOMAIN lookup[m] /\ spoiled' = TRUE /\ UNCHANGED <<data, lookup, content, cache, capacity>>

(* Copy assignment: the list keeps as many of its nodes as it needs, and   *)
(* no entry of the old look-up table is removed or replaced.               *)
CopyAssign(m, n) ==
  /\ Op /\ m # n
  /\ LET kept == Min({Len(data[m]), Len(data[n])})
         ids == [p \in 1 .. Len(data[n]) |->
                   IF p <= kept THEN data[m][p].id
                   ELSE CHOOSE id \in 1 .. 2 * Cardinality(Keys) + 1 :
                          Cardinality({j \in (1 .. id - 1) \ Ids(data[m]) : TRUE}) = p - kept - 1 /\ id \notin Ids(data[m])]
         d == [p \in 1 .. Len(data[n]) |-> [data[n][p] EXCEPT !.id = ids[p]]]
         keys == {d[p].key : p \in 1 .. Len(d)}
     IN  Becomes(m, d, [k \in DOMAIN lookup[m] \cup keys |->
                          IF k \in DOMAIN lookup[m] THEN lookup[m][k]
                          ELSE d[CHOOSE p \in 1 .. Len(d) : d[p].key = k].id])
  /\ Expect(m, content[n]) /\ spoiled' = (data[m] # <<>>) /\ UNCHANGED <<cache, capacity>>

-----------------------------------------------------------------------------
(* Cache.                                                                  *)

LastOf(s, n) == SubSeq(s, Max({1, Len(s) - n + 1}), Len(s))
ToEnd(s, k) == Append(SelectSeq(s, LAMBDA j : j # k), k)
(* Mutant: the keys used last are erased.                                  *)
TrimBack(s, n) == SubSeq(s, 1, Min({n, Len(s)}))
ensureCapacity(s, n) == LastOf(s, n)

RECURSIVE Called(_, _)
Called(c, k) ==
  LET counted == [c EXCEPT !.calls = @ + 1]
      missed == [counted EXCEPT !.miss = @ + 1]
      inner == IF k < 2 THEN missed ELSE Called(Called(missed, k - 1), k - 2)
  IN  IF k \in Range(c.order)
        THEN [counted EXCEPT !.hits = @ + 1, !.order = ToEnd(@, k), !.recency = ToEnd(@, k)]
        ELSE [inner EXCEPT !.order = ensureCapacity(ToEnd(@, k), capacity), !.recency = ToEnd(@, k)]

Call(k) == /\ Op /\ cache' = Called(cache, k) /\ UNCHANGED <<data, lookup, content, spoiled, capacity>>

resize(n) ==
  /\ Op /\ capacity' = n /\ cache' = [cache EXCEPT !.order = ensureCapacity(@, n), !.recency = LastOf(cache.order, n)]
  /\ UNCHANGED <<data, lookup, content, spoiled>>

Next ==
  \/ \E m \in Maps, k \in Keys :
       \/ (\E v \in MapValues : insert(m, k, v) \/ emplace(m, k, v))
       \/ erase(m, k) \/ touch(m, k) \/ extract(m, k)
  \/ \E m, n \in Maps : CopyAssign(m, n)
  \/ (\E k \in Keys : Call(k)) \/ (\E n \in Capacities : resize(n))
Spec == Init /\ [][Next]_vars

-----------------------------------------------------------------------------
(* A map holds what its user expects, in the order expected, and the       *)
(* iterator of each key leads to the node of that key, until a map that    *)
(* held something is assigned to or extract is used.                       *)
MapExact ==
  ~spoiled =>
    \A m \in Maps :
      /\ Pairs(data[m]) = content[m] /\ Cardinality(Ids(data[m])) = Len(data[m])
      /\ DOMAIN lookup[m] = {data[m][p].key : p \in 1 .. Len(data[m])}
      /\ \A p \in 1 .. Len(data[m]) : lookup[m][data[m][p].key] = data[m][p].id

(* The cache holds the keys used last, as many as it has room for,         *)
(* although a function it computes uses the cache itself while it does.    *)
LruExact == cache.order = LastOf(cache.recency, capacity) /\ cache.hits + cache.miss = cache.calls
=============================================================================
