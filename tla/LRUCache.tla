------------------------------ MODULE LRUCache ------------------------------
(***************************************************************************)
(* internal/storage/cache.go. Every method holds c.mu from start to end.   *)
(*                                                                         *)
(* A cache maps each key to its entry, or to Out. The list c.order is      *)
(* represented by ranks: the entry at the front has rank 1, and behind it  *)
(* the ranks follow each other.                                            *)
(***************************************************************************)
EXTENDS Integers

CONSTANTS CacheSize,  \* maxSize
          Out         \* no entry

ASSUME CacheSizeAssumption == CacheSize \in Nat

EmptyCache(Key) == [k \in Key |-> Out]

InCache(cache, k) == cache[k] # Out

\* The entries in front of k's, or all of them when k has none.
Ahead(cache, k) ==
    {j \in DOMAIN cache : InCache(cache, j) /\ (InCache(cache, k) => cache[j].rank < cache[k].rank)}

\* A full cache evicts the entry at the back. One that may hold nothing still keeps
\* the last entry: evict finds an empty list.
Evicted(rank) == rank > CacheSize /\ rank > 1

\* Set, and Get of an entry (with its own value): the entry moves to the front. Only a
\* new entry can push another one out.
CachePut(cache, k, v) ==
    [j \in DOMAIN cache |->
        IF j = k THEN [value |-> v, rank |-> 1]
        ELSE IF j \notin Ahead(cache, k) THEN cache[j]
        ELSE IF Evicted(cache[j].rank + 1) THEN Out
        ELSE [value |-> cache[j].value, rank |-> cache[j].rank + 1]]

CacheUse(cache, k) == CachePut(cache, k, cache[k].value)

CacheDelete(cache, k) ==
    [j \in DOMAIN cache |->
        IF j = k THEN Out
        ELSE IF InCache(cache, j) /\ InCache(cache, k) /\ cache[j].rank > cache[k].rank
             THEN [value |-> cache[j].value, rank |-> cache[j].rank - 1]
        ELSE cache[j]]
=============================================================================
