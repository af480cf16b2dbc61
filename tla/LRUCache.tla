------------------------------ MODULE LRUCache -------------------------------
(***************************************************************************)
(* One shard of the cache of util/cache.cc: entries with reference counts, *)
(* the list of entries in use, the list of the others in the order of      *)
(* their last use, and the eviction of the oldest of them.                 *)
(*                                                                         *)
(* Every operation holds mutex_, so each is one step; clients run them in  *)
(* any order.  An entry is known by the number of the Insert that made it. *)
(* The hash table of HandleTable.tla is the map from keys to entries.      *)
(***************************************************************************)
EXTENDS Integers, Sequences, FiniteSetsExt

CONSTANTS
    CacheKeys,    \* the keys
    Capacity,     \* LRUCache::capacity_
    Charges,      \* the charges of entries
    MaxInserts,   \* bound on the calls of Insert
    MaxHandles    \* bound on the handles that clients hold for an entry

ASSUME CacheAssumption ==
    /\ 0 \notin CacheKeys /\ Capacity \in Nat /\ Charges \subseteq Nat
    /\ MaxInserts \in Nat /\ MaxHandles \in Nat

VARIABLES
    table,     \* LRUCache::table_: the entry of a key, or 0
    refs,      \* LRUHandle::refs; 0 for an entry not made yet, or freed
    in_cache,  \* LRUHandle::in_cache
    keyOf,     \* LRUHandle::key(), or 0
    charge,    \* LRUHandle::charge
    lru,       \* the list lru_, oldest entry first
    in_use,    \* the entries on the list in_use_
    usage,     \* LRUCache::usage_
    held,      \* the handles of each entry that clients hold
    freed      \* the calls of the deleter, for each entry

cacheVars == <<table, refs, in_cache, keyOf, charge, lru, in_use, usage, held, freed>>

Entry == 1 .. MaxInserts

Elements(s) == {s[i] : i \in DOMAIN s}

\* LRU_Remove on the list lru_.
Without(s, e) ==
    IF e \notin Elements(s) THEN s
    ELSE LET i == CHOOSE j \in DOMAIN s : s[j] = e
         IN  [j \in 1 .. Len(s) - 1 |-> IF j < i THEN s[j] ELSE s[j + 1]]

TotalCharge(es) == MapThenSumSet(LAMBDA e : charge[e], es)

CacheInit ==
    /\ table = [k \in CacheKeys |-> 0]
    /\ refs = [e \in Entry |-> 0] /\ in_cache = [e \in Entry |-> FALSE]
    /\ keyOf = [e \in Entry |-> 0] /\ charge = [e \in Entry |-> 0]
    /\ lru = <<>> /\ in_use = {} /\ usage = 0
    /\ held = [e \in Entry |-> 0] /\ freed = [e \in Entry |-> 0]

(***************************************************************************)
(* Ref and Unref                                                           *)
(***************************************************************************)
\* Mutant of Ref: an entry that a client looks up stays on lru_.
RefOnly(e) ==
    /\ refs' = [refs EXCEPT ![e] = @ + 1]
    /\ UNCHANGED <<lru, in_use>>

Ref(e) ==
    /\ refs' = [refs EXCEPT ![e] = @ + 1]
    /\ IF refs[e] = 1 /\ in_cache[e]
       THEN lru' = Without(lru, e) /\ in_use' = in_use \cup {e}
       ELSE UNCHANGED <<lru, in_use>>

\* Unref of an entry that stays in the cache or has left it before.
Unref(e) ==
    /\ refs' = [refs EXCEPT ![e] = @ - 1]
    /\ freed' = IF refs[e] = 1 THEN [freed EXCEPT ![e] = @ + 1] ELSE freed
    /\ IF in_cache[e] /\ refs[e] = 2
       THEN lru' = Append(lru, e) /\ in_use' = in_use \ {e}
       ELSE UNCHANGED <<lru, in_use>>

\* FinishErase and the Unref in it, for entries that have left the table.
\* rcs are the reference counts before, list the list lru_ without them.
FinishErase(es, rcs, list, using) ==
    /\ refs' = [e \in Entry |-> IF e \in es THEN rcs[e] - 1 ELSE rcs[e]]
    /\ freed' = [e \in Entry |-> IF e \in es /\ rcs[e] = 1 THEN freed[e] + 1 ELSE freed[e]]
    /\ lru' = list
    /\ in_use' = using \ es

(***************************************************************************)
(* The operations.                                                         *)
(***************************************************************************)
Lookup(k) ==
    /\ table[k] # 0
    /\ held[table[k]] < MaxHandles
    /\ Ref(table[k])
    /\ held' = [held EXCEPT ![table[k]] = @ + 1]
    /\ UNCHANGED <<table, in_cache, keyOf, charge, usage, freed>>

Release(e) ==
    /\ held[e] > 0
    /\ Unref(e)
    /\ held' = [held EXCEPT ![e] = @ - 1]
    /\ UNCHANGED <<table, in_cache, keyOf, charge, usage>>

\* table_ without some entries.
Removed(t, es) == [k \in CacheKeys |-> IF t[k] \in es THEN 0 ELSE t[k]]

\* Mutant of Evictions: the loop of Insert stops above the capacity.
EvictionsAbove(list, used) ==
    Min({n \in 0 .. Len(list) :
            \/ n = Len(list)
            \/ used - TotalCharge({list[i] : i \in 1 .. n}) <= Capacity + 1})

\* How many entries the loop of Insert takes off the front of lru_.
Evictions(list, used) ==
    Min({n \in 0 .. Len(list) :
            \/ n = Len(list)
            \/ used - TotalCharge({list[i] : i \in 1 .. n}) <= Capacity})

\* The entry is new, or its key had another one, which leaves the cache.
Insert(e, k, c) ==
    /\ keyOf[e] = 0 /\ \A f \in 1 .. e - 1 : keyOf[f] # 0
    /\ keyOf' = [keyOf EXCEPT ![e] = k]
    /\ charge' = [charge EXCEPT ![e] = c]
    /\ held' = [held EXCEPT ![e] = 1]
    /\ IF Capacity = 0
       THEN /\ refs' = [refs EXCEPT ![e] = 1]
            /\ UNCHANGED <<table, in_cache, lru, in_use, usage, freed>>
       ELSE LET old == {table[k]} \ {0}
                list == Without(lru, table[k])
                used == usage + c - TotalCharge(old)
                n == Evictions(list, used)
                out == old \cup {list[i] : i \in 1 .. n}
            IN  /\ table' = [Removed(table, out) EXCEPT ![k] = e]
                /\ in_cache' = [i \in Entry |-> i = e \/ (in_cache[i] /\ i \notin out)]
                /\ FinishErase(out, [refs EXCEPT ![e] = 2], SubSeq(list, n + 1, Len(list)),
                               in_use \cup {e})
                /\ usage' = usage + c - TotalCharge(out)

Erase(k) ==
    /\ table[k] # 0
    /\ LET e == table[k]
       IN  /\ table' = [table EXCEPT ![k] = 0]
           /\ in_cache' = [in_cache EXCEPT ![e] = FALSE]
           /\ FinishErase({e}, refs, Without(lru, e), in_use)
           /\ usage' = usage - charge[e]
    /\ UNCHANGED <<keyOf, charge, held>>

Prune ==
    /\ lru # <<>>
    /\ LET out == Elements(lru)
       IN  /\ table' = Removed(table, out)
           /\ in_cache' = [e \in Entry |-> in_cache[e] /\ e \notin out]
           /\ FinishErase(out, refs, <<>>, in_use)
           /\ usage' = usage - TotalCharge(out)
    /\ UNCHANGED <<keyOf, charge, held>>

CacheNext ==
    \/ \E k \in CacheKeys : Lookup(k) \/ Erase(k)
    \/ \E e \in Entry : Release(e)
    \/ \E e \in Entry, k \in CacheKeys, c \in Charges : Insert(e, k, c)
    \/ Prune

CacheSpec == CacheInit /\ [][CacheNext]_cacheVars

-----------------------------------------------------------------------------
Holders(e) == held[e] + (IF in_cache[e] THEN 1 ELSE 0)

\* The references of an entry are the handles of its clients and the one of
\* the cache; the deleter has run, once, exactly when there were and are none:
\* never under a client that holds a handle, and never twice.
RefsExact ==
    \A e \in Entry : /\ refs[e] = Holders(e)
                     /\ freed[e] = IF keyOf[e] # 0 /\ Holders(e) = 0 THEN 1 ELSE 0

\* The comment on the lists: an entry in the cache is on lru_ when only the
\* cache refers to it, on in_use_ otherwise, and an entry not in the cache is
\* on neither; and table_ maps its key to it.
ListsExact ==
    /\ Elements(lru) = {e \in Entry : in_cache[e] /\ refs[e] = 1}
    /\ in_use = {e \in Entry : in_cache[e] /\ refs[e] > 1}
    /\ \A i, j \in DOMAIN lru : lru[i] = lru[j] => i = j
    /\ \A e \in Entry : in_cache[e] <=> (e \in {table[k] : k \in CacheKeys})
    /\ \A k \in CacheKeys : table[k] # 0 => keyOf[table[k]] = k

\* What the cache counts and lists is what its clients hold, and usage_ is
\* the charge of the entries in the cache.
CacheExact == RefsExact /\ ListsExact /\ usage = TotalCharge({e \in Entry : in_cache[e]})

\* A step that adds to usage_ leaves it within the capacity, unless every
\* entry is in use.  (A Release may leave more than that on lru_.)
CapacityEnforced ==
    [][usage' > usage => usage' <= Capacity \/ lru' = <<>>]_cacheVars
=============================================================================
