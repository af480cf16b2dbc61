----------------------------- MODULE HandleTable -----------------------------
(***************************************************************************)
(* The hash table of the cache (util/cache.cc, class HandleTable): chains  *)
(* of handles, in a list whose length doubles when the handles outnumber   *)
(* the chains.  LRUCache.tla uses it as a map from keys to handles.        *)
(***************************************************************************)
EXTENDS Integers, SequencesExt

CONSTANTS
    HashKeys,   \* the keys
    Hash,       \* the hash of each key
    Versions    \* tell apart the handles that are inserted for one key

VARIABLES
    list,    \* HandleTable::list_, a chain for each number below length_
    elems,   \* HandleTable::elems_
    map      \* what the table should hold: the version of each key, or 0

handleTableVars == <<list, elems, map>>

length == Cardinality(DOMAIN list)

Handle(k, v) == [key |-> k, version |-> v]

Bucket(k, len) == Hash[k] % len

\* The place of the key's handle in its chain, or the place after the last.
FindPointer(k) ==
    LET chain == list[Bucket(k, length)]
        i == SelectInSeq(chain, LAMBDA h : h.key = k)
    IN  IF i = 0 THEN Len(chain) + 1 ELSE i

LookupHandle(k) ==
    LET chain == list[Bucket(k, length)]
    IN  IF FindPointer(k) > Len(chain) THEN 0 ELSE chain[FindPointer(k)].version

\* Mutant of Resized: handles keep the number of their chain.
ResizedInPlace(l, len) == [b \in 0 .. len - 1 |-> IF b \in DOMAIN l THEN l[b] ELSE <<>>]

\* Resize: each chain is walked, and each handle put in front of its new one.
Resized(l, len) ==
    LET all == FlattenSeq([i \in 1 .. Cardinality(DOMAIN l) |-> l[i - 1]])
    IN  [b \in 0 .. len - 1 |-> Reverse(SelectSeq(all, LAMBDA h : Bucket(h.key, len) = b))]

RECURSIVE NewLength(_, _)
NewLength(len, n) == IF len < n THEN NewLength(2 * len, n) ELSE len

\* Insert of a handle; one with the same key is replaced where it is.
InsertHandle(k, v) ==
    LET b == Bucket(k, length)
        i == FindPointer(k)
        new == i > Len(list[b])
        l == [list EXCEPT ![b] = IF new THEN Append(@, Handle(k, v)) ELSE [@ EXCEPT ![i] = Handle(k, v)]]
    IN  /\ elems' = IF new THEN elems + 1 ELSE elems
        /\ list' = IF new /\ elems' > length THEN Resized(l, NewLength(4, elems')) ELSE l
        /\ map' = [map EXCEPT ![k] = v]

RemoveHandle(k) ==
    LET b == Bucket(k, length)
        i == FindPointer(k)
    IN  /\ i <= Len(list[b])
        /\ list' = [list EXCEPT ![b] = RemoveAt(@, i)]
        /\ elems' = elems - 1
        /\ map' = [map EXCEPT ![k] = 0]

HandleTableInit ==
    /\ list = [b \in 0 .. 3 |-> <<>>] /\ elems = 0
    /\ map = [k \in HashKeys |-> 0]

HandleTableNext ==
    \E k \in HashKeys : (\E v \in Versions : InsertHandle(k, v)) \/ RemoveHandle(k)

HandleTableSpec == HandleTableInit /\ [][HandleTableNext]_handleTableVars

-----------------------------------------------------------------------------
\* Lookup finds the last handle inserted for a key and not removed, also after
\* collisions, replacements and a Resize; elems_ counts them and the chains
\* hold nothing else (the assert of Resize), with one handle a chain or fewer
\* on average.
TableIsMap ==
    /\ \A k \in HashKeys : LookupHandle(k) = map[k]
    /\ elems = Cardinality({k \in HashKeys : map[k] # 0})
    /\ elems = Len(FlattenSeq([i \in 1 .. length |-> list[i - 1]]))
    /\ elems <= length
=============================================================================
