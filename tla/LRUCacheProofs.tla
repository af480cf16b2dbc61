---------------------------- MODULE LRUCacheProofs ---------------------------
(***************************************************************************)
(* Proof that the reference counts and the lists of a cache shard agree    *)
(* with what its clients hold, for any capacity, keys and charges.         *)
(***************************************************************************)
EXTENDS LRUCache, WellFoundedInduction, TLAPS

CacheTypeOK ==
    /\ table \in [CacheKeys -> 0 .. MaxInserts]
    /\ refs \in [Entry -> Nat] /\ held \in [Entry -> Nat] /\ freed \in [Entry -> Nat]
    /\ in_cache \in [Entry -> BOOLEAN]
    /\ keyOf \in [Entry -> CacheKeys \cup {0}]
    /\ lru \in Seq(Entry)

\* An entry that no Insert has made has no references.
Unmade == \A e \in Entry : keyOf[e] = 0 => held[e] = 0 /\ ~in_cache[e]

CacheInv == CacheTypeOK /\ Unmade /\ RefsExact /\ ListsExact

Distinct(s) == \A i, j \in DOMAIN s : s[i] = s[j] => i = j

(***************************************************************************)
(* The lists.                                                              *)
(***************************************************************************)
\* LRU_Remove takes out its entry and nothing else.
LEMMA WithoutFact ==
    ASSUME NEW s \in Seq(Entry), Distinct(s), NEW e
    PROVE  /\ Without(s, e) \in Seq(Entry) /\ Distinct(Without(s, e))
           /\ Elements(Without(s, e)) = Elements(s) \ {e}
<1>1. CASE e \notin Elements(s)
  BY <1>1 DEF Without
<1>2. CASE e \in Elements(s)
  <2> DEFINE i == CHOOSE j \in DOMAIN s : s[j] = e
             w == [j \in 1 .. Len(s) - 1 |-> IF j < i THEN s[j] ELSE s[j + 1]]
  <2>1. Without(s, e) = w
    BY <1>2 DEF Without
  <2>2. i \in DOMAIN s /\ s[i] = e
    BY <1>2 DEF Elements
  <2>3. i \in 1 .. Len(s) /\ Len(s) \in Nat /\ DOMAIN s = 1 .. Len(s)
    BY <2>2
  <2> HIDE DEF i
  <2>4. Len(s) - 1 \in Nat /\ \A j \in 1 .. Len(s) - 1 : w[j] \in Entry
    BY <2>3
  <2>5. w \in Seq(Entry) /\ DOMAIN w = 1 .. Len(s) - 1
    BY <2>4
  <2>6. Distinct(w)
    BY <2>3, <2>5 DEF Distinct
  <2>7. Elements(w) \subseteq Elements(s) \ {e}
    BY <2>2, <2>3, <2>5 DEF Elements, Distinct
  <2>8. ASSUME NEW x \in Elements(s), x # e PROVE x \in Elements(w)
    <3>1. PICK j \in 1 .. Len(s) : s[j] = x
      BY <2>3 DEF Elements
    <3>2. CASE j < i
      <4>1. j \in 1 .. Len(s) - 1 /\ w[j] = x
        BY <2>3, <3>1, <3>2
      <4> QED
        BY <2>5, <4>1 DEF Elements
    <3>3. CASE j > i
      <4>1. j - 1 \in 1 .. Len(s) - 1 /\ w[j - 1] = x
        BY <2>3, <3>1, <3>3
      <4> QED
        BY <2>5, <4>1 DEF Elements
    <3> QED
      BY <2>2, <2>3, <2>8, <3>1, <3>2, <3>3
  <2> QED
    BY <2>1, <2>5, <2>6, <2>7, <2>8
<1> QED
  BY <1>1, <1>2

\* LRU_Append
LEMMA AppendFact ==
    ASSUME NEW s \in Seq(Entry), Distinct(s), NEW e \in Entry, e \notin Elements(s)
    PROVE  /\ Append(s, e) \in Seq(Entry) /\ Distinct(Append(s, e))
           /\ Elements(Append(s, e)) = Elements(s) \cup {e}
<1> DEFINE a == Append(s, e)
<1>1. /\ a \in Seq(Entry) /\ DOMAIN a = 1 .. Len(s) + 1 /\ DOMAIN s = 1 .. Len(s) /\ Len(s) \in Nat
      /\ \A i \in 1 .. Len(s) : a[i] = s[i]
      /\ a[Len(s) + 1] = e
  OBVIOUS
<1> HIDE DEF a
<1>2. \A i \in 1 .. Len(s) + 1 : i \in 1 .. Len(s) \/ i = Len(s) + 1
  BY <1>1
<1>3. Distinct(a)
  BY <1>1, <1>2 DEF Distinct, Elements
<1>4. Elements(a) = Elements(s) \cup {e}
  <2>1. Elements(a) \subseteq Elements(s) \cup {e}
    BY <1>1, <1>2 DEF Elements
  <2>2. Elements(s) \subseteq Elements(a)
    BY <1>1 DEF Elements
  <2>3. e \in Elements(a)
    BY <1>1 DEF Elements
  <2> QED
    BY <2>1, <2>2, <2>3
<1> QED
  BY <1>1, <1>3, <1>4 DEF a

\* Taking the first n entries off lru_.
LEMMA SubSeqFact ==
    ASSUME NEW s \in Seq(Entry), Distinct(s), NEW n \in 0 .. Len(s)
    PROVE  LET rest == SubSeq(s, n + 1, Len(s))
           IN  /\ rest \in Seq(Entry) /\ Distinct(rest)
               /\ Elements(rest) = Elements(s) \ {s[i] : i \in 1 .. n}
<1> DEFINE rest == SubSeq(s, n + 1, Len(s))
<1>1. Len(s) \in Nat /\ DOMAIN s = 1 .. Len(s) /\ n \in Nat /\ Len(s) - n \in Nat
  OBVIOUS
<1>2. /\ rest \in Seq(Entry) /\ DOMAIN rest = 1 .. Len(s) - n
      /\ \A i \in 1 .. Len(s) - n : rest[i] = s[n + i]
  BY <1>1
<1> HIDE DEF rest
<1> DEFINE m == Len(s) - n
<1>a. m \in Nat /\ \A i \in 1 .. m : i \in Int /\ n + i \in 1 .. Len(s) /\ n + i \notin 1 .. n
  BY <1>1
<1>b. \A i, j \in 1 .. m : n + i = n + j => i = j
  BY <1>1
<1> HIDE DEF m
<1>3. Distinct(rest)
  <2> SUFFICES ASSUME NEW i \in 1 .. m, NEW j \in 1 .. m, rest[i] = rest[j] PROVE i = j
    BY <1>2 DEF Distinct, m
  <2>1. s[n + i] = s[n + j]
    BY <1>2 DEF m
  <2>2. n + i = n + j
    BY Zenon, <1>1, <1>a, <2>1 DEF Distinct
  <2> QED
    BY <1>b, <2>2
<1>4. Elements(rest) \subseteq Elements(s) \ {s[i] : i \in 1 .. n}
  <2> SUFFICES ASSUME NEW i \in 1 .. m
               PROVE  s[n + i] \in Elements(s) \ {s[j] : j \in 1 .. n}
    BY Zenon, <1>2 DEF Elements, m
  <2>1. n + i \in DOMAIN s /\ n + i \notin 1 .. n
    BY <1>1, <1>a
  <2>2. \A j \in 1 .. n : j \in DOMAIN s
    BY <1>1
  <2> QED
    BY <2>1, <2>2 DEF Elements, Distinct
<1>5. ASSUME NEW x \in Elements(s), x \notin {s[i] : i \in 1 .. n} PROVE x \in Elements(rest)
  <2>1. PICK j \in 1 .. Len(s) : s[j] = x
    BY <1>1 DEF Elements
  <2>2. j > n
    BY <1>1, <1>5, <2>1
  <2>3. j - n \in 1 .. Len(s) - n /\ rest[j - n] = x
    BY <1>1, <1>2, <2>1, <2>2
  <2> QED
    BY <1>2, <2>3 DEF Elements
<1> QED
  BY <1>2, <1>3, <1>4, <1>5 DEF rest

\* The loop of Insert takes no more than there is on lru_.
LEMMA EvictionsInRange ==
    ASSUME NEW s \in Seq(Entry), NEW used PROVE Evictions(s, used) \in 0 .. Len(s)
<1> DEFINE T == {n \in 0 .. Len(s) :
                    n = Len(s) \/ used - TotalCharge({s[i] : i \in 1 .. n}) <= Capacity}
<1>1. T \subseteq Nat /\ T # {}
  <2>1. Len(s) \in T
    OBVIOUS
  <2> QED
    BY <2>1
<1>2. Evictions(s, used) = Min(T)
  BY DEF Evictions
<1>3. T \subseteq 0 .. Len(s)
  OBVIOUS
<1> HIDE DEF T
<1>4. PICK x \in T : \A y \in T : ~(<<y, x>> \in OpToRel(<, Nat))
  BY Zenon, <1>1, NatLessThanWellFounded, WFMin
<1>5. \A y \in T : x <= y
  <2> SUFFICES ASSUME NEW y \in T, y < x PROVE FALSE
    BY <1>1
  <2>1. <<y, x>> \in Nat \X Nat /\ <<y, x>>[1] < <<y, x>>[2]
    BY <1>1
  <2> QED
    BY <1>4, <2>1, Zenon DEF OpToRel
<1>6. Min(T) \in T
  BY <1>5 DEF Min
<1> QED
  BY Zenon, <1>2, <1>3, <1>6

(***************************************************************************)
(* The operations.                                                         *)
(***************************************************************************)
\* What the invariant says of one entry.
LEMMA EntryFact ==
    ASSUME CacheInv, NEW e \in Entry
    PROVE  /\ refs[e] \in Nat /\ held[e] \in Nat /\ freed[e] \in Nat /\ in_cache[e] \in BOOLEAN
           /\ in_cache[e] => refs[e] = held[e] + 1
           /\ ~in_cache[e] => refs[e] = held[e]
           /\ freed[e] = IF keyOf[e] # 0 /\ refs[e] = 0 THEN 1 ELSE 0
           /\ keyOf[e] = 0 => refs[e] = 0 /\ held[e] = 0 /\ ~in_cache[e]
           /\ e \in Elements(lru) <=> in_cache[e] /\ refs[e] = 1
           /\ e \in in_use <=> in_cache[e] /\ refs[e] > 1
           /\ in_cache[e] <=> \E k \in CacheKeys : table[k] = e
<1>1. refs[e] \in Nat /\ held[e] \in Nat /\ freed[e] \in Nat /\ in_cache[e] \in BOOLEAN
  BY DEF CacheInv, CacheTypeOK
<1>2. /\ in_cache[e] => refs[e] = held[e] + 1
      /\ ~in_cache[e] => refs[e] = held[e]
  BY <1>1 DEF CacheInv, RefsExact, Holders
<1>3. freed[e] = IF keyOf[e] # 0 /\ refs[e] = 0 THEN 1 ELSE 0
  BY DEF CacheInv, RefsExact
<1>4. keyOf[e] = 0 => held[e] = 0 /\ ~in_cache[e]
  BY DEF CacheInv, Unmade
<1>5. /\ e \in Elements(lru) <=> in_cache[e] /\ refs[e] = 1
      /\ e \in in_use <=> in_cache[e] /\ refs[e] > 1
      /\ in_cache[e] <=> \E k \in CacheKeys : table[k] = e
  BY DEF CacheInv, ListsExact
<1> QED
  BY <1>1, <1>2, <1>3, <1>4, <1>5

\* The converse, for the state after a step.
LEMMA InvFromEntries ==
    ASSUME CacheTypeOK', Distinct(lru'), in_use' \subseteq Entry,
           \A e \in Entry :
               /\ in_cache'[e] => refs'[e] = held'[e] + 1
               /\ ~in_cache'[e] => refs'[e] = held'[e]
               /\ freed'[e] = IF keyOf'[e] # 0 /\ refs'[e] = 0 THEN 1 ELSE 0
               /\ keyOf'[e] = 0 => held'[e] = 0 /\ ~in_cache'[e]
               /\ e \in Elements(lru') <=> in_cache'[e] /\ refs'[e] = 1
               /\ e \in in_use' <=> in_cache'[e] /\ refs'[e] > 1
               /\ in_cache'[e] <=> \E k \in CacheKeys : table'[k] = e,
           \A k \in CacheKeys : table'[k] # 0 => keyOf'[table'[k]] = k
    PROVE  CacheInv'
<1>1. \A e \in Entry : refs'[e] \in Nat /\ held'[e] \in Nat /\ in_cache'[e] \in BOOLEAN
  BY DEF CacheTypeOK
<1>2. \A e \in Entry : refs'[e] = Holders(e)'
  BY <1>1 DEF Holders
<1>3. RefsExact'
  BY <1>2 DEF RefsExact
<1>4. Unmade'
  BY DEF Unmade
<1>5. Elements(lru') \subseteq Entry
  BY DEF CacheTypeOK, Elements
<1>6. ListsExact'
  BY <1>5 DEF ListsExact, Distinct, Elements
<1> QED
  BY <1>3, <1>4, <1>6 DEF CacheInv

LEMMA ListFact ==
    ASSUME CacheInv
    PROVE  /\ lru \in Seq(Entry) /\ Distinct(lru) /\ in_use \subseteq Entry
           /\ \A k \in CacheKeys : /\ table[k] \in 0 .. MaxInserts
                                   /\ table[k] # 0 => /\ table[k] \in Entry /\ in_cache[table[k]]
                                                      /\ keyOf[table[k]] = k
<1>1. lru \in Seq(Entry) /\ Distinct(lru) /\ in_use \subseteq Entry
  BY DEF CacheInv, CacheTypeOK, ListsExact, Distinct
<1>2. \A k \in CacheKeys : table[k] \in 0 .. MaxInserts
  BY DEF CacheInv, CacheTypeOK
<1>3. \A k \in CacheKeys : table[k] # 0 => table[k] \in Entry
  BY <1>2, CacheAssumption DEF Entry
<1>4. \A k \in CacheKeys : table[k] # 0 => in_cache[table[k]] /\ keyOf[table[k]] = k
  BY <1>3 DEF CacheInv, ListsExact
<1> QED
  BY <1>1, <1>2, <1>3, <1>4

LEMMA CacheInitInv == CacheInit => CacheInv
<1> SUFFICES ASSUME CacheInit PROVE CacheInv
  OBVIOUS
<1>1. CacheTypeOK
  BY CacheAssumption DEF CacheInit, CacheTypeOK
<1>2. \A e \in Entry : e # 0
  BY CacheAssumption DEF Entry
<1>3. RefsExact /\ Unmade
  BY DEF CacheInit, RefsExact, Unmade, Holders
<1>4. Elements(lru) = {}
  BY DEF CacheInit, Elements
<1>5. ListsExact
  BY <1>2, <1>4 DEF CacheInit, ListsExact
<1> QED
  BY <1>1, <1>3, <1>5 DEF CacheInv

LEMMA LookupStep == ASSUME CacheInv, NEW k \in CacheKeys, Lookup(k) PROVE CacheInv'
<1> DEFINE t == table[k]
<1>1. t \in Entry /\ in_cache[t]
  BY ListFact DEF Lookup
<1>2. /\ refs' = [refs EXCEPT ![t] = @ + 1] /\ held' = [held EXCEPT ![t] = @ + 1]
      /\ UNCHANGED <<table, in_cache, keyOf, freed>>
  BY DEF Lookup, Ref
<1>3. /\ lru' \in Seq(Entry) /\ Distinct(lru') /\ Elements(lru') = Elements(lru) \ {t}
      /\ in_use' = in_use \cup {t}
  <2>1. CASE refs[t] = 1
    <3>1. lru' = Without(lru, t) /\ in_use' = in_use \cup {t}
      BY <1>1, <2>1 DEF Lookup, Ref
    <3> QED
      BY <3>1, ListFact, WithoutFact
  <2>2. CASE refs[t] # 1
    <3>1. UNCHANGED <<lru, in_use>>
      BY <2>2 DEF Lookup, Ref
    <3>2. t \notin Elements(lru) /\ t \in in_use
      BY <1>1, <2>2, EntryFact
    <3> QED
      BY <3>1, <3>2, ListFact
  <2> QED
    BY <2>1, <2>2
<1> HIDE DEF t
<1>4. CacheTypeOK'
  BY SMTT(30), <1>1, <1>2, <1>3 DEF CacheInv, CacheTypeOK
<1>5. ASSUME NEW e \in Entry
      PROVE  /\ e = t => refs'[e] = refs[e] + 1 /\ held'[e] = held[e] + 1
             /\ e # t => refs'[e] = refs[e] /\ held'[e] = held[e]
             /\ e \in Elements(lru') <=> e \in Elements(lru) /\ e # t
             /\ e \in in_use' <=> e \in in_use \/ e = t
  BY <1>1, <1>2, <1>3 DEF CacheInv, CacheTypeOK
<1>6. ASSUME NEW e \in Entry
      PROVE  /\ in_cache[e] => refs'[e] = held'[e] + 1
             /\ ~in_cache[e] => refs'[e] = held'[e]
             /\ freed[e] = IF keyOf[e] # 0 /\ refs'[e] = 0 THEN 1 ELSE 0
             /\ keyOf[e] = 0 => held'[e] = 0 /\ ~in_cache[e]
             /\ e \in Elements(lru') <=> in_cache[e] /\ refs'[e] = 1
             /\ e \in in_use' <=> in_cache[e] /\ refs'[e] > 1
             /\ in_cache[e] <=> \E j \in CacheKeys : table[j] = e
  <2>1. CASE e = t
    BY <1>1, <1>5, <2>1, EntryFact
  <2>2. CASE e # t
    BY <1>5, <2>2, EntryFact
  <2> QED
    BY <2>1, <2>2
<1>7. in_use' \subseteq Entry
  BY <1>1, <1>3, ListFact
<1> QED
  BY <1>2, <1>3, <1>4, <1>6, <1>7, ListFact, InvFromEntries

LEMMA ReleaseStep == ASSUME CacheInv, NEW t \in Entry, Release(t) PROVE CacheInv'
<1>0. refs[t] \in Nat /\ refs[t] > 0 /\ held[t] \in Nat /\ held[t] > 0
  BY EntryFact DEF Release
<1>1. /\ refs' = [refs EXCEPT ![t] = @ - 1] /\ held' = [held EXCEPT ![t] = @ - 1]
      /\ freed' = IF refs[t] = 1 THEN [freed EXCEPT ![t] = @ + 1] ELSE freed
      /\ UNCHANGED <<table, in_cache, keyOf>>
  BY DEF Release, Unref
<1>a. refs' \in [Entry -> Nat] /\ held' \in [Entry -> Nat] /\ freed' \in [Entry -> Nat]
  <2>1. refs[t] - 1 \in Nat /\ held[t] - 1 \in Nat
    BY <1>0
  <2> QED
    BY <1>1, <2>1 DEF CacheInv, CacheTypeOK
<1>2. CASE in_cache[t] /\ refs[t] = 2
  <2>1. lru' = Append(lru, t) /\ in_use' = in_use \ {t}
    BY <1>2 DEF Release, Unref
  <2>2. t \notin Elements(lru) /\ t \in in_use
    BY <1>2, EntryFact
  <2>3. /\ lru' \in Seq(Entry) /\ Distinct(lru') /\ Elements(lru') = Elements(lru) \cup {t}
    BY <2>1, <2>2, ListFact, AppendFact
  <2>4. CacheTypeOK'
    BY SMTT(30), <1>1, <1>a, <2>3 DEF CacheInv, CacheTypeOK
  <2>5. ASSUME NEW e \in Entry
        PROVE  /\ e = t => refs'[e] = 1 /\ held'[e] = held[e] - 1
               /\ e # t => refs'[e] = refs[e] /\ held'[e] = held[e]
               /\ freed'[e] = freed[e]
               /\ e \in Elements(lru') <=> e \in Elements(lru) \/ e = t
               /\ e \in in_use' <=> e \in in_use /\ e # t
    BY <1>1, <1>2, <2>1, <2>3 DEF CacheInv, CacheTypeOK
  <2>6. ASSUME NEW e \in Entry
        PROVE  /\ in_cache[e] => refs'[e] = held'[e] + 1
               /\ ~in_cache[e] => refs'[e] = held'[e]
               /\ freed'[e] = IF keyOf[e] # 0 /\ refs'[e] = 0 THEN 1 ELSE 0
               /\ keyOf[e] = 0 => held'[e] = 0 /\ ~in_cache[e]
               /\ e \in Elements(lru') <=> in_cache[e] /\ refs'[e] = 1
               /\ e \in in_use' <=> in_cache[e] /\ refs'[e] > 1
               /\ in_cache[e] <=> \E j \in CacheKeys : table[j] = e
    <3>1. CASE e = t
      BY <1>2, <2>5, <3>1, EntryFact
    <3>2. CASE e # t
      BY <2>5, <3>2, EntryFact
    <3> QED
      BY <3>1, <3>2
  <2>7. in_use' \subseteq Entry
    BY <2>1, ListFact
  <2> QED
    BY <1>1, <2>3, <2>4, <2>6, <2>7, ListFact, InvFromEntries
<1>3. CASE ~(in_cache[t] /\ refs[t] = 2)
  <2>1. UNCHANGED <<lru, in_use>>
    BY <1>3 DEF Release, Unref
  <2>2. CacheTypeOK'
    BY <1>1, <1>a, <2>1 DEF CacheInv, CacheTypeOK
  <2>3. ASSUME NEW e \in Entry
        PROVE  /\ e = t => /\ refs'[e] = refs[e] - 1 /\ held'[e] = held[e] - 1
                           /\ freed'[e] = IF refs[e] = 1 THEN freed[e] + 1 ELSE freed[e]
               /\ e # t => refs'[e] = refs[e] /\ held'[e] = held[e] /\ freed'[e] = freed[e]
    BY <1>1 DEF CacheInv, CacheTypeOK
  <2>4. ASSUME NEW e \in Entry
        PROVE  /\ in_cache[e] => refs'[e] = held'[e] + 1
               /\ ~in_cache[e] => refs'[e] = held'[e]
               /\ freed'[e] = IF keyOf[e] # 0 /\ refs'[e] = 0 THEN 1 ELSE 0
               /\ keyOf[e] = 0 => held'[e] = 0 /\ ~in_cache[e]
               /\ e \in Elements(lru) <=> in_cache[e] /\ refs'[e] = 1
               /\ e \in in_use <=> in_cache[e] /\ refs'[e] > 1
               /\ in_cache[e] <=> \E j \in CacheKeys : table[j] = e
    <3>1. CASE e = t
      BY <1>0, <1>3, <2>3, <3>1, EntryFact
    <3>2. CASE e # t
      BY <2>3, <3>2, EntryFact
    <3> QED
      BY <3>1, <3>2
  <2> QED
    BY <1>1, <2>1, <2>2, <2>4, ListFact, InvFromEntries
<1> QED
  BY <1>2, <1>3

\* Entries that leave the table, the list lru_ and the cache.
LEMMA EraseEntries ==
    ASSUME CacheInv, NEW out, out \subseteq Entry, \A e \in out : in_cache[e],
           NEW list \in Seq(Entry), Distinct(list), Elements(list) = Elements(lru) \ out,
           table' = Removed(table, out), in_cache' = [e \in Entry |-> in_cache[e] /\ e \notin out],
           FinishErase(out, refs, list, in_use), UNCHANGED <<keyOf, held>>
    PROVE  CacheInv'
<1>1. ASSUME NEW e \in Entry
      PROVE  /\ e \in out => /\ refs'[e] = refs[e] - 1
                             /\ freed'[e] = IF refs[e] = 1 THEN freed[e] + 1 ELSE freed[e]
             /\ e \notin out => refs'[e] = refs[e] /\ freed'[e] = freed[e]
             /\ in_cache'[e] <=> in_cache[e] /\ e \notin out
             /\ e \in Elements(lru') <=> e \in Elements(lru) /\ e \notin out
             /\ e \in in_use' <=> e \in in_use /\ e \notin out
  BY Zenon DEF FinishErase
<1>2. \A e \in out : refs[e] - 1 \in Nat
  BY EntryFact
<1>3. CacheTypeOK'
  <2>1. refs' \in [Entry -> Nat] /\ freed' \in [Entry -> Nat]
    BY <1>2 DEF FinishErase, CacheInv, CacheTypeOK
  <2>2. table' \in [CacheKeys -> 0 .. MaxInserts]
    BY CacheAssumption DEF Removed, CacheInv, CacheTypeOK
  <2> QED
    BY <2>1, <2>2 DEF FinishErase, CacheInv, CacheTypeOK
<1>4. \A k \in CacheKeys : table'[k] = IF table[k] \in out THEN 0 ELSE table[k]
  BY DEF Removed
<1>5. \A e \in Entry : e # 0
  BY CacheAssumption DEF Entry
<1>6. ASSUME NEW e \in Entry
      PROVE  in_cache'[e] <=> \E k \in CacheKeys : table'[k] = e
  BY <1>1, <1>4, <1>5, EntryFact
<1>7. ASSUME NEW e \in Entry
      PROVE  /\ in_cache'[e] => refs'[e] = held[e] + 1
             /\ ~in_cache'[e] => refs'[e] = held[e]
             /\ freed'[e] = IF keyOf[e] # 0 /\ refs'[e] = 0 THEN 1 ELSE 0
             /\ keyOf[e] = 0 => held[e] = 0 /\ ~in_cache'[e]
             /\ e \in Elements(lru') <=> in_cache'[e] /\ refs'[e] = 1
             /\ e \in in_use' <=> in_cache'[e] /\ refs'[e] > 1
  <2>1. CASE e \in out
    BY <1>1, <2>1, EntryFact
  <2>2. CASE e \notin out
    BY <1>1, <2>2, EntryFact
  <2> QED
    BY <2>1, <2>2
<1>8. in_use' \subseteq Entry /\ Distinct(lru')
  BY ListFact DEF FinishErase
<1>9. \A k \in CacheKeys : table'[k] # 0 => keyOf[table'[k]] = k
  BY <1>4, ListFact
<1> QED
  BY <1>3, <1>6, <1>7, <1>8, <1>9, InvFromEntries

LEMMA EraseStep == ASSUME CacheInv, NEW k \in CacheKeys, Erase(k) PROVE CacheInv'
<1> DEFINE t == table[k]
<1>1. t \in Entry /\ in_cache[t]
  BY ListFact DEF Erase
<1>2. /\ table' = [table EXCEPT ![k] = 0] /\ in_cache' = [in_cache EXCEPT ![t] = FALSE]
      /\ FinishErase({t}, refs, Without(lru, t), in_use)
      /\ UNCHANGED <<keyOf, held>>
  BY DEF Erase
<1>3. \A j \in CacheKeys : table[j] = t <=> j = k
  BY <1>1, ListFact, CacheAssumption DEF Entry
<1>4. table' = Removed(table, {t})
  BY Zenon, <1>2, <1>3 DEF Removed, CacheInv, CacheTypeOK
<1>5. in_cache' = [e \in Entry |-> in_cache[e] /\ e \notin {t}]
  BY Zenon, <1>1, <1>2 DEF CacheInv, CacheTypeOK
<1>6. /\ Without(lru, t) \in Seq(Entry) /\ Distinct(Without(lru, t))
      /\ Elements(Without(lru, t)) = Elements(lru) \ {t}
  BY ListFact, WithoutFact
<1> HIDE DEF t
<1> QED
  BY ZenonT(30), <1>1, <1>2, <1>4, <1>5, <1>6, EraseEntries

LEMMA PruneStep == ASSUME CacheInv, Prune PROVE CacheInv'
<1> DEFINE out == Elements(lru)
<1>1. /\ table' = Removed(table, out) /\ in_cache' = [e \in Entry |-> in_cache[e] /\ e \notin out]
      /\ FinishErase(out, refs, <<>>, in_use) /\ UNCHANGED <<keyOf, held>>
  BY DEF Prune
<1>2. out \subseteq Entry /\ \A e \in out : in_cache[e]
  BY DEF CacheInv, ListsExact
<1>3. <<>> \in Seq(Entry) /\ Distinct(<<>>) /\ Elements(<<>>) = Elements(lru) \ out
  BY DEF Distinct, Elements
<1> HIDE DEF out
<1> QED
  BY Zenon, <1>1, <1>2, <1>3, EraseEntries

\* Insert into a cache that keeps nothing.
LEMMA InsertUncached ==
    ASSUME CacheInv, NEW t \in Entry, NEW k \in CacheKeys, NEW c \in Charges, Insert(t, k, c),
           Capacity = 0
    PROVE  CacheInv'
<1>1. /\ keyOf[t] = 0 /\ keyOf' = [keyOf EXCEPT ![t] = k] /\ held' = [held EXCEPT ![t] = 1]
      /\ refs' = [refs EXCEPT ![t] = 1] /\ UNCHANGED <<table, in_cache, lru, in_use, freed>>
  BY DEF Insert
<1>2. CacheTypeOK'
  BY <1>1 DEF CacheInv, CacheTypeOK
<1>3. ASSUME NEW e \in Entry
      PROVE  /\ e = t => refs'[e] = 1 /\ held'[e] = 1 /\ keyOf'[e] = k
             /\ e # t => refs'[e] = refs[e] /\ held'[e] = held[e] /\ keyOf'[e] = keyOf[e]
  BY <1>1 DEF CacheInv, CacheTypeOK
<1>4. ~in_cache[t] /\ k # 0
  BY <1>1, EntryFact, CacheAssumption
<1>5. ASSUME NEW e \in Entry
      PROVE  /\ in_cache[e] => refs'[e] = held'[e] + 1
             /\ ~in_cache[e] => refs'[e] = held'[e]
             /\ freed[e] = IF keyOf'[e] # 0 /\ refs'[e] = 0 THEN 1 ELSE 0
             /\ keyOf'[e] = 0 => held'[e] = 0 /\ ~in_cache[e]
             /\ e \in Elements(lru) <=> in_cache[e] /\ refs'[e] = 1
             /\ e \in in_use <=> in_cache[e] /\ refs'[e] > 1
             /\ in_cache[e] <=> \E j \in CacheKeys : table[j] = e
  <2>1. CASE e = t
    BY <1>1, <1>3, <1>4, <2>1, EntryFact
  <2>2. CASE e # t
    BY <1>3, <2>2, EntryFact
  <2> QED
    BY Zenon, <2>1, <2>2
<1>6. \A j \in CacheKeys : table[j] # 0 => keyOf'[table[j]] = j
  BY <1>3, <1>4, ListFact
<1> QED
  BY <1>1, <1>2, <1>5, <1>6, ListFact, InvFromEntries

\* Entry t for key k, and the removal of a set of entries from the cache.
LEMMA InsertEntries ==
    ASSUME CacheInv, NEW t \in Entry, NEW k \in CacheKeys, keyOf[t] = 0,
           NEW out, out \subseteq Entry, \A e \in out : in_cache[e],
           NEW rest \in Seq(Entry), Distinct(rest), Elements(rest) = Elements(lru) \ out,
           table' = [Removed(table, out) EXCEPT ![k] = t], table[k] # 0 => table[k] \in out,
           in_cache' = [i \in Entry |-> i = t \/ (in_cache[i] /\ i \notin out)],
           FinishErase(out, [refs EXCEPT ![t] = 2], rest, in_use \cup {t}),
           keyOf' = [keyOf EXCEPT ![t] = k], held' = [held EXCEPT ![t] = 1]
    PROVE  CacheInv'
<1>1. 0 \notin Entry /\ k # 0
  BY CacheAssumption DEF Entry
<1>2. ~in_cache[t] /\ t \notin out /\ t \notin Elements(lru) /\ t \notin in_use
  BY Zenon, EntryFact
<1>3. ASSUME NEW e \in out
      PROVE  /\ e \in Entry /\ e # t /\ keyOf[e] # 0 /\ held[e] \in Nat /\ refs[e] = held[e] + 1
             /\ freed[e] = 0
  BY <1>2, EntryFact
<1>4. \A j \in CacheKeys : table'[j] = IF j = k THEN t ELSE IF table[j] \in out THEN 0 ELSE table[j]
  BY DEF Removed
<1>5. ASSUME NEW e \in Entry
       PROVE  /\ e = t => refs'[e] = 2 /\ held'[e] = 1 /\ keyOf'[e] = k /\ freed'[e] = freed[e]
              /\ e # t => held'[e] = held[e] /\ keyOf'[e] = keyOf[e]
              /\ e \in out => /\ refs'[e] = refs[e] - 1
                              /\ freed'[e] = IF refs[e] = 1 THEN freed[e] + 1 ELSE freed[e]
              /\ e \notin out /\ e # t => refs'[e] = refs[e] /\ freed'[e] = freed[e]
              /\ in_cache'[e] <=> e = t \/ (in_cache[e] /\ e \notin out)
              /\ e \in Elements(lru') <=> e \in Elements(lru) /\ e \notin out
              /\ e \in in_use' <=> (e \in in_use \/ e = t) /\ e \notin out
  <2>1. /\ refs'[e] = IF e \in out THEN [refs EXCEPT ![t] = 2][e] - 1 ELSE [refs EXCEPT ![t] = 2][e]
        /\ freed'[e] = IF e \in out /\ [refs EXCEPT ![t] = 2][e] = 1 THEN freed[e] + 1 ELSE freed[e]
    BY DEF FinishErase
  <2>2. [refs EXCEPT ![t] = 2][e] = IF e = t THEN 2 ELSE refs[e]
    BY DEF CacheInv, CacheTypeOK
  <2>3. /\ e = t => held'[e] = 1 /\ keyOf'[e] = k
        /\ e # t => held'[e] = held[e] /\ keyOf'[e] = keyOf[e]
    BY DEF CacheInv, CacheTypeOK
  <2>4. /\ in_cache'[e] <=> e = t \/ (in_cache[e] /\ e \notin out)
        /\ e \in Elements(lru') <=> e \in Elements(lru) /\ e \notin out
        /\ e \in in_use' <=> (e \in in_use \/ e = t) /\ e \notin out
    BY Zenon DEF FinishErase
  <2> QED
    BY Zenon, <1>2, <2>1, <2>2, <2>3, <2>4
<1>6. CacheTypeOK'
  <2>1. ASSUME NEW e \in Entry PROVE refs'[e] \in Nat /\ freed'[e] \in Nat
    <3>1. CASE e \in out
      <4>1. held[e] \in Nat /\ refs[e] = held[e] + 1 /\ freed[e] = 0
        BY <1>3, <3>1
      <4>2. refs'[e] = refs[e] - 1 /\ freed'[e] = IF refs[e] = 1 THEN freed[e] + 1 ELSE freed[e]
        BY Zenon, <1>5, <3>1
      <4> QED
        BY <4>1, <4>2
    <3>2. CASE e \notin out
      BY <1>5, <3>2, EntryFact
    <3> QED
      BY <3>1, <3>2
  <2>2. refs' \in [Entry -> Nat] /\ freed' \in [Entry -> Nat]
    BY Zenon, <2>1 DEF FinishErase
  <2>3. table' \in [CacheKeys -> 0 .. MaxInserts]
    <3>1. \A j \in CacheKeys : table'[j] \in 0 .. MaxInserts
      BY <1>4, ListFact, CacheAssumption DEF Entry
    <3> QED
      BY Zenon, <3>1 DEF Removed
  <2>4. held' \in [Entry -> Nat] /\ keyOf' \in [Entry -> CacheKeys \cup {0}]
    BY Zenon DEF CacheInv, CacheTypeOK
  <2>5. in_cache' \in [Entry -> BOOLEAN] /\ lru' \in Seq(Entry)
    BY DEF FinishErase
  <2> QED
    BY <2>2, <2>3, <2>4, <2>5 DEF CacheTypeOK
<1>7. ASSUME NEW e \in Entry
       PROVE  /\ in_cache'[e] => refs'[e] = held'[e] + 1
              /\ ~in_cache'[e] => refs'[e] = held'[e]
              /\ freed'[e] = IF keyOf'[e] # 0 /\ refs'[e] = 0 THEN 1 ELSE 0
              /\ keyOf'[e] = 0 => held'[e] = 0 /\ ~in_cache'[e]
              /\ e \in Elements(lru') <=> in_cache'[e] /\ refs'[e] = 1
              /\ e \in in_use' <=> in_cache'[e] /\ refs'[e] > 1
  <2>1. CASE e = t
    BY <1>1, <1>2, <1>5, <2>1, EntryFact
  <2>2. CASE e \in out
    <3>1. /\ refs'[e] = held[e] /\ held'[e] = held[e] /\ held[e] \in Nat /\ keyOf'[e] # 0
          /\ freed'[e] = IF held[e] = 0 THEN 1 ELSE 0
      <4>1. e # t /\ keyOf[e] # 0 /\ held[e] \in Nat /\ refs[e] = held[e] + 1 /\ freed[e] = 0
        BY Zenon, <1>3, <2>2
      <4>2. /\ held'[e] = held[e] /\ keyOf'[e] = keyOf[e] /\ refs'[e] = refs[e] - 1
            /\ freed'[e] = IF refs[e] = 1 THEN freed[e] + 1 ELSE freed[e]
        BY Zenon, <1>5, <2>2, <4>1
      <4> QED
        BY <4>1, <4>2
    <3>2. ~in_cache'[e] /\ e \notin Elements(lru') /\ e \notin in_use'
      BY Zenon, <1>3, <1>5, <2>2
    <3> QED
      BY Zenon, <3>1, <3>2
  <2>3. CASE e \notin out /\ e # t
    BY <1>5, <2>3, EntryFact
  <2> QED
    BY Zenon, <2>1, <2>2, <2>3
<1>8. ASSUME NEW e \in Entry
       PROVE  in_cache'[e] <=> \E j \in CacheKeys : table'[j] = e
  <2>1. CASE e = t
    <3>1. in_cache'[e]
      BY Zenon, <1>5, <2>1
    <3>2. table'[k] = e
      BY Zenon, <1>4, <2>1
    <3> QED
      BY Zenon, <3>1, <3>2
  <2>2. CASE e # t
    <3>1. \A j \in CacheKeys : table'[j] = e <=> table[j] = e /\ e \notin out
      BY <1>1, <1>4, <2>2
    <3> QED
      BY <1>5, <2>2, <3>1, EntryFact
  <2> QED
    BY <2>1, <2>2
<1>9. ASSUME NEW j \in CacheKeys, table'[j] # 0 PROVE keyOf'[table'[j]] = j
  <2>1. CASE j = k
    <3>1. table'[j] = t
      BY Zenon, <1>4, <2>1
    <3>2. keyOf'[t] = k
      BY Zenon, <1>5
    <3> QED
      BY Zenon, <2>1, <3>1, <3>2
  <2>2. CASE j # k
    <3>1. table'[j] = table[j] /\ table[j] \in Entry /\ keyOf[table[j]] = j /\ in_cache[table[j]]
      BY Zenon, <1>4, <1>9, <2>2, ListFact
    <3> QED
      BY <1>2, <1>5, <3>1
  <2> QED
    BY <2>1, <2>2
<1>10. in_use' \subseteq Entry /\ Distinct(lru')
  BY Zenon, ListFact DEF FinishErase
<1> QED
  BY Zenon, <1>6, <1>7, <1>8, <1>9, <1>10, InvFromEntries

\* Insert, the erasure of the entry its key had, and the evictions.
LEMMA InsertCached ==
    ASSUME CacheInv, NEW t \in Entry, NEW k \in CacheKeys, NEW c \in Charges, Insert(t, k, c),
           Capacity # 0
    PROVE  CacheInv'
<1> DEFINE old == {table[k]} \ {0}
           list == Without(lru, table[k])
           used == usage + c - TotalCharge(old)
           n == Evictions(list, used)
           out == old \cup {list[i] : i \in 1 .. n}
           rest == SubSeq(list, n + 1, Len(list))
<1>1. /\ keyOf[t] = 0 /\ keyOf' = [keyOf EXCEPT ![t] = k] /\ held' = [held EXCEPT ![t] = 1]
      /\ table' = [Removed(table, out) EXCEPT ![k] = t]
      /\ in_cache' = [i \in Entry |-> i = t \/ (in_cache[i] /\ i \notin out)]
      /\ FinishErase(out, [refs EXCEPT ![t] = 2], rest, in_use \cup {t})
  BY Zenon DEF Insert
<1>2. list \in Seq(Entry) /\ Distinct(list) /\ Elements(list) = Elements(lru) \ {table[k]}
  BY Zenon, ListFact, WithoutFact
<1> HIDE DEF list
<1>3. n \in 0 .. Len(list)
  BY <1>2, EvictionsInRange
<1> HIDE DEF n
<1>4. /\ rest \in Seq(Entry) /\ Distinct(rest)
      /\ Elements(rest) = Elements(list) \ {list[i] : i \in 1 .. n}
  BY Zenon, <1>2, <1>3, SubSeqFact
<1>5. {list[i] : i \in 1 .. n} \subseteq Elements(list)
  <2>1. 1 .. n \subseteq DOMAIN list
    BY <1>2, <1>3
  <2> QED
    BY <2>1 DEF Elements
<1>6. Elements(lru) \subseteq Entry /\ \A e \in Elements(lru) : in_cache[e]
  BY DEF CacheInv, ListsExact
<1>7. out \subseteq Entry /\ (\A e \in out : in_cache[e]) /\ (table[k] # 0 => table[k] \in out)
  <2>1. table[k] # 0 => table[k] \in Entry /\ in_cache[table[k]]
    BY Zenon, ListFact
  <2>2. {list[i] : i \in 1 .. n} \subseteq Elements(lru)
    BY Zenon, <1>2, <1>5
  <2> QED
    BY Zenon, <1>6, <2>1, <2>2
<1>8. 0 \notin Entry /\ k # 0
  BY CacheAssumption DEF Entry
<1>9. Elements(rest) = Elements(lru) \ out
  BY Zenon, <1>2, <1>4, <1>6, <1>8
<1> HIDE DEF out, rest
<1> QED
  BY Zenon, <1>1, <1>4, <1>7, <1>9, InsertEntries

\* With any keys, charges and capacity, and however clients interleave their
\* calls, the reference counts of the entries are what clients and the cache
\* hold, the deleter runs once and only for an entry that nobody holds, and
\* every entry of the cache is on the list it belongs to (util/cache.cc).
THEOREM CacheCountsExact == CacheSpec => [](RefsExact /\ ListsExact)
<1>1. CacheInit => CacheInv
  BY CacheInitInv
<1>2. CacheInv /\ [CacheNext]_cacheVars => CacheInv'
  <2> SUFFICES ASSUME CacheInv, [CacheNext]_cacheVars PROVE CacheInv'
    OBVIOUS
  <2>1. CASE CacheNext
    BY <2>1, LookupStep, EraseStep, ReleaseStep, InsertUncached, InsertCached, PruneStep
       DEF CacheNext
  <2>2. CASE UNCHANGED cacheVars
    <3>1. /\ keyOf' = keyOf /\ refs' = refs /\ held' = held /\ table' = table /\ in_cache' = in_cache
          /\ lru' = lru /\ in_use' = in_use /\ freed' = freed
      BY Zenon, <2>2 DEF cacheVars
    <3>2. CacheTypeOK'
      BY Zenon, <3>1 DEF CacheInv, CacheTypeOK
    <3>3. Unmade'
      BY Zenon, <3>1 DEF CacheInv, Unmade
    <3>4. RefsExact'
      BY Zenon, <3>1 DEF CacheInv, RefsExact, Holders
    <3>5. ListsExact'
      BY <3>1 DEF CacheInv, ListsExact, Elements
    <3> QED
      BY Zenon, <3>2, <3>3, <3>4, <3>5 DEF CacheInv
  <2> QED
    BY <2>1, <2>2
<1>3. CacheInv => RefsExact /\ ListsExact
  BY DEF CacheInv
<1> QED
  BY <1>1, <1>2, <1>3, PTL DEF CacheSpec
=============================================================================
