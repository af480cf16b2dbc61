--------------------------- MODULE MergingIterator ---------------------------
(***************************************************************************)
(* The iterator over the union of several others (table/merger.cc).  Every *)
(* child keeps a position of its own.  Going forward they stand after the  *)
(* current key, in reverse before it, and a change of direction has to     *)
(* bring the others over.                                                  *)
(***************************************************************************)
EXTENDS SortedEntries

CONSTANTS
    MergeKeys,   \* the keys, numbers above 0
    Children     \* 1 .. n_, the order in which the children are searched

VARIABLES
    entries,   \* the keys of each child; no two children share one
    merge      \* children_'s positions, current_ (0 = nullptr), direction_

mergeVars == <<entries, merge>>

MergeInit ==
    /\ entries = [i \in Children |-> {}]
    /\ merge = [pos |-> [i \in Children |-> 0], current |-> 0, direction |-> "none"]

\* The children are filled before the iterator is made ...
FillChild(i, k) ==
    /\ merge.direction = "none"
    /\ \A j \in Children : k \notin entries[j]
    /\ entries' = [entries EXCEPT ![i] = @ \cup {k}]
    /\ UNCHANGED merge

\* ... which starts out not valid.
NewMergingIterator ==
    /\ merge.direction = "none"
    /\ merge' = [merge EXCEPT !.direction = "forward"]
    /\ UNCHANGED entries

MergeValid == merge.current # 0
MergeKey == merge.pos[merge.current]

\* The first child with the least key, and the last one with the greatest.
FindSmallest(p) ==
    LET valid == {i \in Children : p[i] # 0}
        least == {i \in valid : \A j \in valid : p[i] <= p[j]}
    IN  IF valid = {} THEN 0 ELSE Min(least)

FindLargest(p) ==
    LET valid == {i \in Children : p[i] # 0}
        greatest == {i \in valid : \A j \in valid : p[i] >= p[j]}
    IN  IF valid = {} THEN 0 ELSE Max(greatest)

Forward(p) ==
    /\ merge' = [pos |-> p, current |-> FindSmallest(p), direction |-> "forward"]
    /\ UNCHANGED entries

Reverse(p) ==
    /\ merge' = [pos |-> p, current |-> FindLargest(p), direction |-> "reverse"]
    /\ UNCHANGED entries

MergeSeekToFirst == Forward([i \in Children |-> FirstFrom(entries[i], 1)])
MergeSeekToLast == Reverse([i \in Children |-> LastOf(entries[i])])
MergeSeek(target) == Forward([i \in Children |-> FirstFrom(entries[i], target)])

\* Next repositions the others after the current key when the direction was
\* reverse: a Seek to the key, and past it if it is there.
MergeNext ==
    /\ MergeValid
    /\ Forward([i \in Children |->
                  IF i = merge.current \/ merge.direction # "forward"
                  THEN FirstFrom(entries[i], MergeKey + 1)
                  ELSE merge.pos[i]])

\* Mutant of MergePrev: the others stay where the forward direction left them.
MergePrevInPlace ==
    /\ MergeValid
    /\ Reverse([merge.pos EXCEPT ![merge.current] = LastBefore(entries[merge.current], @)])

\* Prev repositions them before it when the direction was forward: a Seek to
\* the key and one step back, or their last entry.
MergePrev ==
    /\ MergeValid
    /\ Reverse([i \in Children |->
                  LET s == FirstFrom(entries[i], MergeKey)
                  IN  CASE i = merge.current -> LastBefore(entries[i], MergeKey)
                        [] i # merge.current /\ merge.direction = "reverse" -> merge.pos[i]
                        [] OTHER -> IF s # 0 THEN LastBefore(entries[i], s)
                                             ELSE LastOf(entries[i])])

MergingNext ==
    \/ \E i \in Children, k \in MergeKeys : FillChild(i, k)
    \/ NewMergingIterator
    \/ /\ merge.direction # "none"
       /\ \/ MergeSeekToFirst \/ MergeSeekToLast \/ MergeNext \/ MergePrev
          \/ \E target \in MergeKeys : MergeSeek(target)

MergingSpec == MergeInit /\ [][MergingNext]_mergeVars

Merged == INSTANCE OrderedSet WITH
    Nodes <- MergeKeys, Iterators <- {1},
    set <- UNION {entries[i] : i \in Children},
    node <- [i \in {1} |-> IF MergeValid THEN MergeKey ELSE 0]

\* However its calls change direction, a merging iterator behaves as one
\* iterator over all the entries of its children: none is skipped, none is
\* returned twice, and it is valid exactly when iterator.h says so.
MergeIsSorted ==
    /\ Merged!Spec
    /\ [][merge.direction # "none" =>
           /\ MergeSeekToFirst => Merged!SeekToFirst(1)
           /\ MergeSeekToLast => Merged!SeekToLast(1)
           /\ MergeNext => Merged!Next(1)
           /\ MergePrev => Merged!Prev(1)
           /\ \A t \in MergeKeys : MergeSeek(t) => Merged!Seek(1, t)]_mergeVars
=============================================================================
