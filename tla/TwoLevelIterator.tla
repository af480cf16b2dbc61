-------------------------- MODULE TwoLevelIterator ---------------------------
(***************************************************************************)
(* The iterator over the blocks an index names (table/two_level_iterator.  *)
(* cc): the data blocks of a table, or the files of a level.  An index     *)
(* entry has a key at or after the last key of its block and before the    *)
(* first of the next one.  A block that cannot be read is an empty         *)
(* iterator with an error status, and is stepped over.                     *)
(***************************************************************************)
EXTENDS SortedEntries, Sequences

CONSTANTS
    TwoKeys,     \* 1 .. n, the keys
    MaxBlocks    \* how many blocks are written

VARIABLES
    blocks,   \* the blocks: keys, the key of the index entry, readable?
    two       \* index_iter_ (0 = not valid), data_iter_ and status_

twoVars == <<blocks, two>>

NoIterator == [block |-> 0, pos |-> 0]

TwoInit == blocks = <<>> /\ two = [made |-> FALSE]

Separator == IF blocks = <<>> THEN 0 ELSE blocks[Len(blocks)].index

\* The blocks are written before the iterator is made.
AddBlock(keys, index, readable) ==
    /\ ~two.made
    /\ Len(blocks) < MaxBlocks
    /\ Min(keys) > Separator /\ Max(keys) <= index
    /\ blocks' = Append(blocks, [keys |-> keys, index |-> index, readable |-> readable])
    /\ UNCHANGED two

NewTwoLevelIterator ==
    /\ ~two.made
    /\ two' = [made |-> TRUE, index |-> 0, data |-> NoIterator, ok |-> TRUE]
    /\ UNCHANGED blocks

\* What block_function gives for a block.
BlockKeys(b) == IF blocks[b].readable THEN blocks[b].keys ELSE {}
BlockOk(b) == b = 0 \/ blocks[b].readable

\* SetDataIterator saves the status of the iterator it replaces.
SetDataIterator(t, data) ==
    [t EXCEPT !.data = data, !.ok = @ /\ BlockOk(t.data.block)]

\* InitDataBlock keeps the data iterator of a block it already has.
InitDataBlock(t) ==
    CASE t.index = 0 -> SetDataIterator(t, NoIterator)
      [] t.index # 0 /\ t.index = t.data.block -> t
      [] OTHER -> SetDataIterator(t, [block |-> t.index, pos |-> 0])

\* data_iter_, if there is one, does Seek(k), SeekToFirst() (k is 1) or Next()
\* (k is one on), SeekToLast(), and Prev().
DataSeek(t, k) ==
    IF t.data.block = 0 THEN t ELSE [t EXCEPT !.data.pos = FirstFrom(BlockKeys(t.data.block), k)]
DataSeekToLast(t) ==
    IF t.data.block = 0 THEN t ELSE [t EXCEPT !.data.pos = LastOf(BlockKeys(t.data.block))]
DataPrev(t) == [t EXCEPT !.data.pos = LastBefore(BlockKeys(t.data.block), @)]

\* index_iter_ one on, and one back.
IndexNext(t) == [t EXCEPT !.index = IF @ = Len(blocks) THEN 0 ELSE @ + 1]
IndexPrev(t) == [t EXCEPT !.index = @ - 1]

\* Mutant of SkipEmptyDataBlocksForward: one empty block at most is skipped.
SkipEmptyDataBlocksForwardOnce(t) ==
    IF t.data.pos # 0 THEN t
    ELSE IF t.index = 0 THEN SetDataIterator(t, NoIterator)
    ELSE DataSeek(InitDataBlock(IndexNext(t)), 1)

RECURSIVE SkipEmptyDataBlocksForward(_)
SkipEmptyDataBlocksForward(t) ==
    IF t.data.pos # 0 THEN t
    ELSE IF t.index = 0 THEN SetDataIterator(t, NoIterator)
    ELSE SkipEmptyDataBlocksForward(DataSeek(InitDataBlock(IndexNext(t)), 1))

RECURSIVE SkipEmptyDataBlocksBackward(_)
SkipEmptyDataBlocksBackward(t) ==
    IF t.data.pos # 0 THEN t
    ELSE IF t.index = 0 THEN SetDataIterator(t, NoIterator)
    ELSE SkipEmptyDataBlocksBackward(DataSeekToLast(InitDataBlock(IndexPrev(t))))

TwoValid == two.made /\ two.data.pos # 0

TwoSeek(target) ==
    LET found == {b \in DOMAIN blocks : blocks[b].index >= target}
        index == IF found = {} THEN 0 ELSE Min(found)
    IN  /\ two.made
        /\ two' = SkipEmptyDataBlocksForward(DataSeek(InitDataBlock([two EXCEPT !.index = index]), target))
        /\ UNCHANGED blocks

TwoSeekToFirst ==
    LET index == IF blocks = <<>> THEN 0 ELSE 1
    IN  /\ two.made
        /\ two' = SkipEmptyDataBlocksForward(DataSeek(InitDataBlock([two EXCEPT !.index = index]), 1))
        /\ UNCHANGED blocks

TwoSeekToLast ==
    /\ two.made
    /\ two' = SkipEmptyDataBlocksBackward(
                  DataSeekToLast(InitDataBlock([two EXCEPT !.index = Len(blocks)])))
    /\ UNCHANGED blocks

TwoNext ==
    /\ TwoValid
    /\ two' = SkipEmptyDataBlocksForward(DataSeek(two, two.data.pos + 1))
    /\ UNCHANGED blocks

TwoPrev ==
    /\ TwoValid
    /\ two' = SkipEmptyDataBlocksBackward(DataPrev(two))
    /\ UNCHANGED blocks

TwoLevelNext ==
    \/ \E keys \in SUBSET TwoKeys \ {{}}, index \in TwoKeys, readable \in BOOLEAN :
         AddBlock(keys, index, readable)
    \/ NewTwoLevelIterator
    \/ TwoSeekToFirst \/ TwoSeekToLast \/ TwoNext \/ TwoPrev
    \/ \E target \in TwoKeys : TwoSeek(target)

TwoLevelSpec == TwoInit /\ [][TwoLevelNext]_twoVars

Readable == UNION {BlockKeys(b) : b \in DOMAIN blocks}

Levels == INSTANCE OrderedSet WITH
    Nodes <- TwoKeys, Iterators <- {1},
    set <- Readable,
    node <- [i \in {1} |-> IF TwoValid THEN two.data.pos ELSE 0]

\* status()
TwoStatus == two.ok /\ BlockOk(two.data.block)

\* A two level iterator behaves as one iterator over the entries of the
\* blocks that can be read.  A Next that steps over a block that cannot
\* leaves a status that is not ok, and no later call makes it ok again.
TwoLevelIsSorted ==
    /\ Levels!Spec
    /\ [][two.made =>
           /\ TwoSeekToFirst => Levels!SeekToFirst(1)
           /\ TwoSeekToLast => Levels!SeekToLast(1)
           /\ TwoNext => Levels!Next(1)
           /\ TwoPrev => Levels!Prev(1)
           /\ \A t \in TwoKeys : TwoSeek(t) => Levels!Seek(1, t)
           /\ ~TwoStatus => ~TwoStatus'
           /\ TwoNext => \A b \in DOMAIN blocks :
                ~blocks[b].readable /\ two.data.block < b /\ two'.data.block \notin 1 .. b - 1
                => ~TwoStatus']_twoVars
=============================================================================
