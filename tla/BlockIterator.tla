---------------------------- MODULE BlockIterator ----------------------------
(***************************************************************************)
(* A block of sorted keys: BlockBuilder writes each key as a difference to *)
(* the one before it, except at restart points (table/block_builder.cc),   *)
(* and Block::Iter walks over the block and searches it (table/block.cc).  *)
(*                                                                         *)
(* Offsets are counted in entries, from 0.  Keys are the strings of one or *)
(* two letters, which is enough for prefixes to be shared.                 *)
(***************************************************************************)
EXTENDS Integers, Sequences, FiniteSetsExt

CONSTANTS
    Letters,                  \* 1 .. n
    block_restart_interval

VARIABLES
    buffer,     \* the entries: letters shared with the key before, and the rest
    restarts,   \* the offsets of the restart points
    last_key,   \* the key added last, and how many since the last restart
    block_iter  \* the iterator, or what precedes it while the block is built

blockVars == <<buffer, restarts, last_key, block_iter>>

Strings == {<<a>> : a \in Letters} \cup {<<a, b>> : a, b \in Letters}

\* The place of a string in the bytewise order, from 1 on.
Rank(s) == LET n == Cardinality(Letters) + 1
           IN  CASE Len(s) = 0 -> 0 [] Len(s) = 1 -> s[1] * n [] OTHER -> s[1] * n + s[2]

Building == [built |-> FALSE]

BlockInit ==
    /\ buffer = <<>>
    /\ restarts = <<0>>
    /\ last_key = [key |-> <<>>, counter |-> 0]
    /\ block_iter = Building

\* The letters two strings have in common at the front.
Shared(a, b) ==
    Max({n \in 0 .. Min({Len(a), Len(b)}) : SubSeq(a, 1, n) = SubSeq(b, 1, n)})

\* BlockBuilder::Add, with a key above the last one.
BlockAdd(key) ==
    LET restart == last_key.counter >= block_restart_interval
        shared == IF restart THEN 0 ELSE Shared(last_key.key, key)
    IN  /\ ~block_iter.built
        /\ Rank(key) > Rank(last_key.key)
        /\ buffer' = Append(buffer, [shared |-> shared,
                                     delta |-> SubSeq(key, shared + 1, Len(key))])
        /\ restarts' = IF restart THEN Append(restarts, Len(buffer)) ELSE restarts
        /\ last_key' = [key |-> key, counter |-> IF restart THEN 1 ELSE last_key.counter + 1]
        /\ UNCHANGED block_iter

restarts_ == Len(buffer)
num_restarts == Len(restarts)
GetRestartPoint(index) == restarts[index + 1]

\* An iterator that is not valid; end is the offset past the current entry.
Invalid(it) == [it EXCEPT !.current = restarts_, !.restart_index = num_restarts]

\* BlockBuilder::Finish, and Block::NewIterator over the result.
BlockFinish ==
    /\ ~block_iter.built
    /\ block_iter' = [built |-> TRUE, current |-> restarts_, restart_index |-> num_restarts,
                key |-> <<>>, end |-> 0, ok |-> TRUE]
    /\ UNCHANGED <<buffer, restarts, last_key>>

BlockValid(it) == it.built /\ it.current < restarts_

CorruptionError(it) == [Invalid(it) EXCEPT !.key = <<>>, !.ok = FALSE]

SeekToRestartPoint(it, index) ==
    [it EXCEPT !.key = <<>>, !.restart_index = index, !.end = GetRestartPoint(index)]

\* The restart block of an offset, looking forward from the one before.
RestartIndex(index, current) ==
    Max({index} \cup {i \in index + 1 .. num_restarts - 1 : GetRestartPoint(i) < current})

\* ParseNextKey: the entry at the end of the current one.
ParseNextKey(it) ==
    IF it.end >= restarts_ THEN Invalid(it)
    ELSE LET e == buffer[it.end + 1]
         IN  IF Len(it.key) < e.shared THEN CorruptionError(it)
             ELSE [it EXCEPT !.current = it.end, !.end = @ + 1,
                             !.key = SubSeq(@, 1, e.shared) \o e.delta,
                             !.restart_index = RestartIndex(@, it.end)]

\* Entries are parsed until one is the last before offset stop.
RECURSIVE ParseUpTo(_, _)
ParseUpTo(it, stop) ==
    LET n == ParseNextKey(it)
    IN  IF BlockValid(n) /\ n.end < stop THEN ParseUpTo(n, stop) ELSE n

\* Entries are parsed until one has a key at or after the target.
RECURSIVE ParseFrom(_, _)
ParseFrom(it, target) ==
    LET n == ParseNextKey(it)
    IN  IF BlockValid(n) /\ Rank(n.key) < Rank(target) THEN ParseFrom(n, target) ELSE n

\* The binary search of Seek over the restart points.
RECURSIVE LastRestartBefore(_, _, _)
LastRestartBefore(target, left, right) ==
    LET mid == (left + right + 1) \div 2
    IN  IF left >= right THEN left
        ELSE IF Rank(buffer[GetRestartPoint(mid) + 1].delta) < Rank(target)
             THEN LastRestartBefore(target, mid, right)
             ELSE LastRestartBefore(target, left, mid - 1)

MoveBlockIter(it) == block_iter.built /\ block_iter' = it /\ UNCHANGED <<buffer, restarts, last_key>>

BlockSeekToFirst == MoveBlockIter(ParseNextKey(SeekToRestartPoint(block_iter, 0)))
BlockSeekToLast == MoveBlockIter(ParseUpTo(SeekToRestartPoint(block_iter, num_restarts - 1), restarts_))
BlockNext == BlockValid(block_iter) /\ MoveBlockIter(ParseNextKey(block_iter))

\* Prev goes to the last restart point before the current entry, and forward
\* from there.
BlockPrev ==
    LET before == {i \in 0 .. block_iter.restart_index : GetRestartPoint(i) < block_iter.current}
    IN  /\ BlockValid(block_iter)
        /\ MoveBlockIter(IF before = {} THEN Invalid(block_iter)
                ELSE ParseUpTo(SeekToRestartPoint(block_iter, Max(before)), block_iter.current))

\* Mutant of BlockSeek: a search that ends in the current restart block goes
\* on from the current entry, even when the target is before it.
BlockSeekAhead(target) ==
    LET left == LastRestartBefore(target, 0, num_restarts - 1)
    IN  MoveBlockIter(IF BlockValid(block_iter) /\ block_iter.key = target THEN block_iter
             ELSE IF BlockValid(block_iter) /\ left = block_iter.restart_index THEN ParseFrom(block_iter, target)
             ELSE ParseFrom(SeekToRestartPoint(block_iter, left), target))

\* Seek starts from the current entry when it is before the target, in both
\* the binary and the linear search.
BlockSeek(target) ==
    LET ahead == BlockValid(block_iter) /\ Rank(block_iter.key) < Rank(target)
        behind == BlockValid(block_iter) /\ Rank(block_iter.key) > Rank(target)
        left == LastRestartBefore(target,
                    IF ahead THEN block_iter.restart_index ELSE 0,
                    IF behind THEN block_iter.restart_index ELSE num_restarts - 1)
        skip_seek == ahead /\ left = block_iter.restart_index
    IN  MoveBlockIter(IF BlockValid(block_iter) /\ ~ahead /\ ~behind THEN block_iter
             ELSE ParseFrom(IF skip_seek THEN block_iter ELSE SeekToRestartPoint(block_iter, left), target))

BlockIterNext ==
    \/ \E key \in Strings : BlockAdd(key)
    \/ BlockFinish
    \/ BlockSeekToFirst \/ BlockSeekToLast \/ BlockNext \/ BlockPrev
    \/ \E target \in Strings : BlockSeek(target)

BlockSpec == BlockInit /\ [][BlockIterNext]_blockVars

-----------------------------------------------------------------------------
\* The keys of the block, decoded from the start.
Decoded == LET key[i \in 0 .. Len(buffer)] ==
                   IF i = 0 THEN <<>>
                   ELSE SubSeq(key[i - 1], 1, buffer[i].shared) \o buffer[i].delta
           IN  {Rank(key[i]) : i \in DOMAIN buffer}

BlockSorted == INSTANCE OrderedSet WITH
    Nodes <- {Rank(s) : s \in Strings}, Iterators <- {1},
    set <- Decoded,
    node <- [i \in {1} |-> IF BlockValid(block_iter) THEN Rank(block_iter.key) ELSE 0]

\* An iterator over a block behaves as one over the sorted keys that were
\* added, although it keeps one decoded key, a restart index that lags behind
\* at a restart point, and searches from wherever it stands.
BlockIsSorted ==
    /\ BlockSorted!Spec
    /\ [][/\ BlockSeekToFirst => BlockSorted!SeekToFirst(1)
          /\ BlockSeekToLast => BlockSorted!SeekToLast(1)
          /\ BlockNext => BlockSorted!Next(1)
          /\ BlockPrev => BlockSorted!Prev(1)
          /\ \A s \in Strings : BlockSeek(s) => BlockSorted!Seek(1, Rank(s))]_blockVars
=============================================================================
