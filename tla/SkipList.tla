------------------------------ MODULE SkipList -------------------------------
(***************************************************************************)
(* The skip list of a memtable (db/skiplist.h): one writer at a time, with *)
(* external synchronization, and readers that take no lock.  A step is one *)
(* load or store of an atomic pointer or of max_height_.                   *)
(*                                                                         *)
(* Keys are numbers, as they are in the list: 0 is head_, and Nil, above   *)
(* all keys, is nullptr.  Levels count from 1.  A node is published with a *)
(* release store and read with an acquire load, so its contents are there. *)
(***************************************************************************)
EXTENDS Integers

CONSTANTS
    MaxNode,     \* the keys are 1 .. MaxNode
    kMaxHeight,  \* the bound on the height of a node
    Iterators    \* SkipList::Iterator objects, each used by one thread

ASSUME SkipListAssumption == MaxNode \in Nat /\ kMaxHeight \in Nat \ {0}

VARIABLES
    next,        \* Node::next_, for each level and node
    max_height,  \* max_height_
    ins,         \* the Insert under way: what it does, key, height, level, node x
    prev,        \* Insert's array prev, by level
    linked,      \* for each level, the nodes linked into its list
    iter         \* each iterator: node_, and the search under way

skipVars == <<next, max_height, ins, prev, linked, iter>>

Nodes == 1 .. MaxNode
Nil == MaxNode + 1
Level == 1 .. kMaxHeight

NoInsert == [pc |-> "none", key |-> 0, height |-> 1, level |-> 1, x |-> 0]
NoSearch == [op |-> "none", target |-> 0, level |-> 1, x |-> 0]

(***************************************************************************)
(* Insert.                                                                 *)
(***************************************************************************)
StartInsert(key) ==
    /\ ins.pc = "none" /\ key \notin linked[1]
    /\ ins' = [NoInsert EXCEPT !.pc = "find", !.key = key, !.level = max_height]
    /\ UNCHANGED <<next, max_height, prev, linked, iter>>

\* FindGreaterOrEqual(key, prev): go on in this list, ...
FindForward ==
    /\ ins.pc = "find" /\ next[ins.level][ins.x] < ins.key
    /\ ins' = [ins EXCEPT !.x = next[ins.level][ins.x]]
    /\ UNCHANGED <<next, max_height, prev, linked, iter>>

\* ... or switch to the next list.
FindDown ==
    /\ ins.pc = "find" /\ next[ins.level][ins.x] >= ins.key
    /\ prev' = [prev EXCEPT ![ins.level] = ins.x]
    /\ ins' = IF ins.level = 1 THEN [ins EXCEPT !.pc = "height"] ELSE [ins EXCEPT !.level = @ - 1]
    /\ UNCHANGED <<next, max_height, linked, iter>>

\* RandomHeight, and the levels that are new to the list.
SetHeight(h) ==
    /\ ins.pc = "height"
    /\ prev' = [l \in Level |-> IF max_height < l /\ l <= h THEN 0 ELSE prev[l]]
    /\ max_height' = IF h > max_height THEN h ELSE max_height
    /\ ins' = [ins EXCEPT !.pc = "link", !.height = h, !.level = 1]
    /\ UNCHANGED <<next, linked, iter>>

\* x->NoBarrier_SetNext(i, ...): no reader can see it yet at this level.
SetOwnNext ==
    /\ ins.pc = "link"
    /\ next' = [next EXCEPT ![ins.level][ins.key] = next[ins.level][prev[ins.level]]]
    /\ ins' = [ins EXCEPT !.pc = "publish"]
    /\ UNCHANGED <<max_height, prev, linked, iter>>

\* Mutant of Publish: the levels are linked from the top.
PublishTopDown ==
    /\ ins.pc = "publish"
    /\ LET l == ins.height + 1 - ins.level
       IN  /\ next' = [next EXCEPT ![l][prev[l]] = ins.key,
                                   ![l][ins.key] = next[l][prev[l]]]
           /\ linked' = [linked EXCEPT ![l] = @ \cup {ins.key}]
    /\ ins' = IF ins.level = ins.height THEN NoInsert
              ELSE [ins EXCEPT !.pc = "link", !.level = @ + 1]
    /\ UNCHANGED <<max_height, prev, iter>>

\* prev[i]->SetNext(i, x)
Publish ==
    /\ ins.pc = "publish"
    /\ next' = [next EXCEPT ![ins.level][prev[ins.level]] = ins.key]
    /\ linked' = [linked EXCEPT ![ins.level] = @ \cup {ins.key}]
    /\ ins' = IF ins.level = ins.height THEN NoInsert
              ELSE [ins EXCEPT !.pc = "link", !.level = @ + 1]
    /\ UNCHANGED <<max_height, prev, iter>>

(***************************************************************************)
(* Iterators.  A search starts at head_, at the height GetMaxHeight() has  *)
(* read; a relaxed load may return an old height.                          *)
(***************************************************************************)
StartSearch(i, op, target) ==
    /\ iter[i].search.op = "none"
    /\ \E height \in 1 .. max_height :
        iter' = [iter EXCEPT ![i].search = [op |-> op, target |-> target, level |-> height,
                                            x |-> 0]]
    /\ UNCHANGED <<next, max_height, ins, prev, linked>>

Seek(i, target) == StartSearch(i, "seek", target)
Prev(i) == iter[i].node # 0 /\ StartSearch(i, "prev", iter[i].node)
SeekToLast(i) == StartSearch(i, "last", Nil)

After(i) == next[iter[i].search.level][iter[i].search.x]

\* The loop of FindGreaterOrEqual, FindLessThan and FindLast.  The last of
\* them looks for nullptr, which sorts after all keys.
SearchForward(i) ==
    /\ iter[i].search.op # "none" /\ After(i) < iter[i].search.target
    /\ iter' = [iter EXCEPT ![i].search.x = After(i)]
    /\ UNCHANGED <<next, max_height, ins, prev, linked>>

SearchDown(i) ==
    /\ iter[i].search.op # "none" /\ After(i) >= iter[i].search.target
    /\ iter[i].search.level > 1
    /\ iter' = [iter EXCEPT ![i].search.level = @ - 1]
    /\ UNCHANGED <<next, max_height, ins, prev, linked>>

\* node_, with head_ and nullptr as 0.
Result(i) ==
    IF iter[i].search.op = "seek"
    THEN IF After(i) = Nil THEN 0 ELSE After(i)
    ELSE iter[i].search.x

SearchEnd(i) ==
    /\ iter[i].search.op # "none" /\ After(i) >= iter[i].search.target
    /\ iter[i].search.level = 1
    /\ iter' = [iter EXCEPT ![i] = [node |-> Result(i), search |-> NoSearch]]
    /\ UNCHANGED <<next, max_height, ins, prev, linked>>

\* Next and SeekToFirst load one pointer.
Load(i, from) ==
    /\ iter[i].search.op = "none"
    /\ iter' = [iter EXCEPT ![i].node = IF next[1][from] = Nil THEN 0 ELSE next[1][from]]
    /\ UNCHANGED <<next, max_height, ins, prev, linked>>

Next(i) == iter[i].node # 0 /\ Load(i, iter[i].node)
SeekToFirst(i) == Load(i, 0)

-----------------------------------------------------------------------------
SkipInit ==
    /\ next = [l \in Level |-> [n \in 0 .. MaxNode |-> Nil]]
    /\ max_height = 1
    /\ ins = NoInsert
    /\ prev = [l \in Level |-> 0]
    /\ linked = [l \in Level |-> {}]
    /\ iter = [i \in Iterators |-> [node |-> 0, search |-> NoSearch]]

InsertStep ==
    \/ \E key \in Nodes : StartInsert(key)
    \/ FindForward \/ FindDown \/ SetOwnNext \/ Publish
    \/ \E h \in Level : SetHeight(h)

IteratorStep(i) ==
    \/ \E target \in Nodes : Seek(i, target)
    \/ Prev(i) \/ SeekToLast(i) \/ Next(i) \/ SeekToFirst(i)
    \/ SearchForward(i) \/ SearchDown(i) \/ SearchEnd(i)

SkipNext == InsertStep \/ \E i \in Iterators : IteratorStep(i)

SkipSpec == SkipInit /\ [][SkipNext]_skipVars

-----------------------------------------------------------------------------
\* Each list has its nodes in order and leaves none out: the pointer of a
\* linked node leads to the least linked node above it.  A node of one level
\* is linked at the levels below, so that a search can go down from it.
ListsSorted ==
    /\ \A l \in Level : \A n \in linked[l] \cup {0} :
        /\ next[l][n] \in linked[l] \cup {Nil} /\ n < next[l][n]
        /\ \A m \in linked[l] : ~(n < m /\ m < next[l][n])
    /\ \A l, m \in Level : m <= l => linked[l] \subseteq linked[m]

Set == INSTANCE OrderedSet WITH
           set <- linked[1], node <- [i \in Iterators |-> iter[i].node]

\* What a step of iterator i that ends a call does to the set's iterator.
Returns(i) ==
    LET search == iter[i].search
    IN  /\ Next(i) => Set!Next(i)
        /\ SeekToFirst(i) => Set!SeekToFirst(i)
        /\ SearchEnd(i) /\ search.op = "seek" => Set!Seek(i, search.target)
        /\ SearchEnd(i) /\ search.op = "prev" => Set!Prev(i)
        /\ SearchEnd(i) /\ search.op = "last" => Set!SeekToLast(i)

\* Although readers take no lock and a node is linked level by level, the list
\* is a set that only grows, and each Seek, Next, Prev, SeekToFirst and
\* SeekToLast returns what it would return if it looked at the whole set at
\* once, at the moment of its last load.
ReadersSeeSet == Set!Spec /\ [][\A i \in Iterators : Returns(i)]_skipVars
=============================================================================
