----------------------------- MODULE OrderedSet ------------------------------
(***************************************************************************)
(* What include/leveldb/iterator.h promises of an iterator, whether over a *)
(* memtable, a block, a table or the database: a set of numbers that only  *)
(* grows, and iterators whose every operation looks at the whole set at    *)
(* one moment.                                                             *)
(***************************************************************************)
EXTENDS Integers

CONSTANTS Nodes, Iterators    \* numbers above 0; the iterators

VARIABLES
    set,   \* the numbers inserted
    node   \* where each iterator is, or 0 when it is not valid

LeastAbove(t) == {n \in set : n > t /\ \A m \in set : m > t => n <= m}
GreatestBelow(t) == {n \in set : n < t /\ \A m \in set : m < t => m <= n}

\* An iterator moves to the number in s, which has one at most.
MoveTo(i, s) ==
    /\ node' = [node EXCEPT ![i] = IF s = {} THEN 0 ELSE CHOOSE n \in s : TRUE]
    /\ UNCHANGED set

Add == set \subseteq set' /\ set' \subseteq Nodes /\ UNCHANGED node

Seek(i, target) == MoveTo(i, LeastAbove(target - 1))
Next(i) == node[i] # 0 /\ MoveTo(i, LeastAbove(node[i]))
Prev(i) == node[i] # 0 /\ MoveTo(i, GreatestBelow(node[i]))
SeekToFirst(i) == MoveTo(i, LeastAbove(0))
SeekToLast(i) == MoveTo(i, {n \in set : \A m \in set : m <= n})

Init == set = {} /\ node = [i \in Iterators |-> 0]

Step ==
    \/ Add
    \/ \E i \in Iterators :
        \/ Next(i) \/ Prev(i) \/ SeekToFirst(i) \/ SeekToLast(i)
        \/ \E target \in Nodes : Seek(i, target)

Spec == Init /\ [][Step]_<<set, node>>
=============================================================================
