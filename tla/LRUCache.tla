------------------------------- MODULE LRUCache -------------------------------
(***************************************************************************)
(* The bounded cache of cache.hh: a map from keys to values, and a list of *)
(* the same keys in the order in which they would be thrown out.  In the   *)
(* code every map entry also holds an iterator into the list; here that    *)
(* is the position of the key in entries.                                  *)
(***************************************************************************)
EXTENDS Integers, Sequences

VARIABLES
  entries,   (* the keys, next victim first                                 *)
  cache      (* the values, a function on the keys that are present         *)

cacheVars == <<entries, cache>>

CacheInit == entries = <<>> /\ cache = [k \in {} |-> 0]

Contains(k) == k \in DOMAIN cache

PositionOf(k) == CHOOSE i \in 1 .. Len(entries) : entries[i] = k

\* entries.splice(end, entries, it): the key becomes the last one, the others
\* keep their order.
MovedToEnd(k) ==
  [j \in 1 .. Len(entries) |->
     IF j < PositionOf(k) THEN entries[j]
     ELSE IF j < Len(entries) THEN entries[j + 1] ELSE k]

\* The hit branch of get().
Touch(k) == entries' = MovedToEnd(k) /\ UNCHANGED cache

\* a faulty variant of Insert: the victim leaves the list but not the map
InsertLeaks(k, value, capacity) ==
  \/ Contains(k) /\ UNCHANGED cacheVars
  \/ /\ ~ Contains(k)
     /\ entries' = Append(IF Len(entries) = capacity THEN Tail(entries) ELSE entries, k)
     /\ cache' = [x \in DOMAIN cache \cup {k} |-> IF x = k THEN value ELSE cache[x]]

\* insert(), evict() included: a key that is present keeps its value and its
\* place; else the first key of a full list makes room.
Insert(k, value, capacity) ==
  \/ Contains(k) /\ UNCHANGED cacheVars
  \/ /\ ~ Contains(k)
     /\ LET full == Len(entries) = capacity
            kept == IF full THEN DOMAIN cache \ {Head(entries)} ELSE DOMAIN cache
        IN  /\ entries' = Append(IF full THEN Tail(entries) ELSE entries, k)
            /\ cache' = [x \in kept \cup {k} |-> IF x = k THEN value ELSE cache[x]]

\* List and map hold the same keys, the list holds each of them once: every
\* iterator in the map is valid and evict() finds what it erases.
Coherent ==
  /\ DOMAIN cache = {entries[i] : i \in 1 .. Len(entries)}
  /\ \A i, j \in 1 .. Len(entries) : entries[i] = entries[j] => i = j
=============================================================================
