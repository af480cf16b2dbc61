-------------------------------- MODULE Table --------------------------------
(***************************************************************************)
(* A table file: TableBuilder (table/table_builder.cc) cuts the entries    *)
(* into blocks, writes an index with shortened keys, a block of range      *)
(* tombstones and Bloom filters by file offset; Table::Open reads them and *)
(* Table::InternalGet searches (table/table.cc, table/filter_block.cc).    *)
(*                                                                         *)
(* Bytes are 1 .. 3, of which 3 stands for 0xff, and user keys are strings *)
(* of one or two of them.  Blocks are read back as written or not at all.  *)
(***************************************************************************)
EXTENDS DBFormat, Sequences, SequencesExt, FiniteSetsExt

CONSTANTS
    TableKeys,       \* the user keys that are added
    TableSeqs,       \* the sequence numbers of the entries, 1 .. n
    MaxTombstones,   \* how many of them may be range tombstones
    BlockSizes,      \* the sizes a block may have in the file
    kFilterBase,
    bits_per_key,
    kMinBits         \* 64 in CreateFilter

VARIABLES
    rep,      \* the state of the TableBuilder
    added,    \* the internal keys and tombstones given to Add
    table     \* the opened table

tableVars == <<rep, added, table>>

Bytes == 1 .. 3
UserStrings == {<<a>> : a \in Bytes} \cup {<<a, b>> : a, b \in Bytes}

\* BytewiseComparator
StringRank(k) == 4 * k[1] + (IF Len(k) = 2 THEN k[2] ELSE 0)

\* InternalKeyComparator::Compare on keys that hold the user key's bytes
Before(a, b) == ILess([a EXCEPT !.u = StringRank(@)], [b EXCEPT !.u = StringRank(@)])

kMaxSequenceNumber == Max(TableSeqs) + 1

NoTable == [opened |-> FALSE]
EmptyFilter == [bits |-> 0, set |-> {}]

TableInit ==
    /\ rep = [data |-> <<>>, last_key |-> InternalKey(<<1>>, kMaxSequenceNumber, kValueTypeForSeek),
              pending |-> FALSE, index |-> <<>>, blocks |-> <<>>, offset |-> 0,
              dels |-> {}, keys |-> <<>>, filters |-> <<>>, ok |-> TRUE, closed |-> FALSE]
    /\ added = [points |-> {}, dels |-> {}, last |-> InternalKey(<<1>>, kMaxSequenceNumber, kValueTypeForSeek)]
    /\ table = NoTable
-----------------------------------------------------------------------------
\* Comparators

\* BytewiseComparatorImpl::FindShortestSeparator
BytewiseSeparator(start, limit) ==
    LET n == Min({Len(start), Len(limit)})
        same == {i \in 0 .. n : SubSeq(start, 1, i) = SubSeq(limit, 1, i)}
        diff == Max(same) + 1
    IN  IF diff <= n /\ start[diff] < 3 /\ start[diff] + 1 < limit[diff]
          THEN Append(SubSeq(start, 1, diff - 1), start[diff] + 1)
          ELSE start

\* BytewiseComparatorImpl::FindShortSuccessor
BytewiseSuccessor(key) ==
    LET low == {i \in DOMAIN key : key[i] # 3}
    IN  IF low = {} THEN key
        ELSE Append(SubSeq(key, 1, Min(low) - 1), key[Min(low)] + 1)

\* The user key of an internal key is replaced when it became shorter, and
\* larger: the new key is the first one for that user key.
Shortened(key, u) ==
    IF Len(u) < Len(key.u) /\ StringRank(key.u) < StringRank(u)
      THEN InternalKey(u, kMaxSequenceNumber, kValueTypeForSeek) ELSE key

FindShortestSeparator(start, limit) == Shortened(start, BytewiseSeparator(start.u, limit.u))

FindShortSuccessor(key) == Shortened(key, BytewiseSuccessor(key.u))
-----------------------------------------------------------------------------
\* Bloom filters

\* The bits that double hashing probes for a user key
BloomBits(u, bits) ==
    LET h == 7 * StringRank(u) delta == 3 * u[1] IN {h % bits, (h + delta) % bits}

CreateFilter(keys) ==
    LET bits == Max({Len(keys) * bits_per_key, kMinBits})
    IN  [bits |-> bits, set |-> UNION {BloomBits(keys[i].u, bits) : i \in DOMAIN keys}]

BloomMayMatch(u, f) == f.bits > 0 /\ BloomBits(u, f.bits) \subseteq f.set

\* FilterBlockBuilder: without keys the filter is empty.
GenerateFilter(r) ==
    [r EXCEPT !.filters = Append(@, IF r.keys = <<>> THEN EmptyFilter ELSE CreateFilter(r.keys)),
              !.keys = <<>>]

\* Mutant of StartBlock: one filter, however large the block was.
StartBlockOnce(r) ==
    IF r.offset \div kFilterBase > Len(r.filters) THEN GenerateFilter(r) ELSE r

\* FilterBlockBuilder::StartBlock: a filter for every kFilterBase bytes
StartBlock(r) ==
    FoldLeft(LAMBDA a, i : GenerateFilter(a), r,
             [i \in 1 .. r.offset \div kFilterBase - Len(r.filters) |-> i])

FilterFinish(r) == IF r.keys = <<>> THEN r ELSE GenerateFilter(r)

\* FilterBlockReader::KeyMayMatch, with the filter of the block's offset
KeyMayMatch(filters, offset, k) ==
    LET index == offset \div kFilterBase
    IN  index < Len(filters) => BloomMayMatch(k.u, filters[index + 1])
-----------------------------------------------------------------------------
\* TableBuilder

IndexEntry(r, key) ==
    [r EXCEPT !.index = Append(@, [key |-> key, block |-> Len(r.blocks)]), !.pending = FALSE]

\* Flush writes the data block, if it has entries, or fails.
Flush(r, size, ok) ==
    IF r.data = <<>> \/ ~r.ok THEN r
    ELSE IF ~ok THEN StartBlock([r EXCEPT !.ok = FALSE, !.data = <<>>])
    ELSE StartBlock([r EXCEPT !.blocks = Append(@, [offset |-> r.offset, keys |-> r.data]),
                              !.data = <<>>, !.offset = @ + size, !.pending = TRUE])

\* What Add does with a point entry before the block may be flushed
AddPoint(r, key) ==
    LET i == IF r.pending THEN IndexEntry(r, FindShortestSeparator(r.last_key, key)) ELSE r
    IN  [i EXCEPT !.keys = Append(@, key), !.data = Append(@, key), !.last_key = key]

\* Entries come in the order of their internal keys, and each has a sequence
\* number of its own.  After an error Add returns at once.
CanAdd(key) ==
    /\ ~rep.closed /\ rep.ok
    /\ Before(added.last, key)
    /\ \A e \in added.points \cup added.dels : e.s # key.s

Add(key, size, full, ok) ==
    /\ CanAdd(key)
    /\ added' = [added EXCEPT !.points = @ \cup {key}, !.last = key]
    /\ rep' = IF full THEN Flush(AddPoint(rep, key), size, ok) ELSE AddPoint(rep, key)
    /\ UNCHANGED table

AddRangeDeletion(lo, hi, s) ==
    LET key == InternalKey(lo, s, kTypeRangeDeletion)
        d == [lo |-> StringRank(lo), hi |-> StringRank(hi), s |-> s]
    IN  /\ CanAdd(key) /\ Cardinality(added.dels) < MaxTombstones
        /\ added' = [added EXCEPT !.dels = @ \cup {d}, !.last = key]
        /\ rep' = [rep EXCEPT !.dels = @ \cup {d}]
        /\ UNCHANGED table

\* Finish: the last block, and then the blocks that describe the others; the
\* writes of those may fail as well.
Finish(size, ok, meta_ok) ==
    LET f == FilterFinish(Flush(rep, size, ok))
        i == IF f.pending THEN IndexEntry(f, FindShortSuccessor(f.last_key)) ELSE f
    IN  /\ ~rep.closed
        /\ rep' = [i EXCEPT !.ok = @ /\ meta_ok, !.closed = TRUE]
        /\ UNCHANGED <<added, table>>

\* Abandon
Abandon ==
    /\ ~rep.closed
    /\ rep' = [rep EXCEPT !.closed = TRUE, !.ok = FALSE]
    /\ UNCHANGED <<added, table>>
-----------------------------------------------------------------------------
\* Table

\* The blocks that cannot be read: the metaindex, the filters, the tombstones,
\* or a data block
Unreadable == {"none", "metaindex", "filter", "range_deletions", "data"}

\* Table::Open, ReadMeta, ReadFilter and ReadRangeDeletions: what cannot be
\* read of the metaindex, the filters and the tombstones is left out.
OpenTable(bad) ==
    /\ rep.closed /\ rep.ok /\ ~table.opened
    /\ table' = [opened |-> TRUE, bad |-> bad,
                 use_filter |-> bad \notin {"metaindex", "filter"},
                 dels |-> IF bad \in {"metaindex", "range_deletions"} THEN {} ELSE rep.dels]
    /\ UNCHANGED <<rep, added>>

\* index_block->Seek(k): the first entry at or after k, or 0
IndexSeek(k) ==
    LET after == {i \in DOMAIN rep.index : ~Before(rep.index[i].key, k)}
    IN  IF after = {} THEN 0 ELSE Min(after)

\* block_iter->Seek(k): the entries at or after k in a block
BlockFrom(b, k) == SelectSeq(b.keys, LAMBDA e : ~Before(e, k))

\* InternalGet: an entry handed to handle_result, NotFound, ok (the table has
\* nothing to say), or an error.
InternalGet(u, s) ==
    LET k == LookupKey(u, s)
        i == IndexSeek(k)
        b == rep.blocks[rep.index[i].block]
        from == BlockFrom(b, k)
        read == i # 0 /\ (table.use_filter => KeyMayMatch(rep.filters, b.offset, k))
        found == read /\ from # <<>> /\ from[1].u = u
    IN  CASE read /\ table.bad = "data" -> <<"error">>
          [] found -> IF IsDeleted(table.dels, StringRank(u), from[1].s, s)
                        THEN <<"NotFound">> ELSE <<"result", from[1]>>
          [] OTHER -> IF IsDeleted(table.dels, StringRank(u), 0, s) THEN <<"NotFound">> ELSE <<"ok">>

ApproximateOffsetOf(k) ==
    LET i == IndexSeek(k)
    IN  IF i = 0 THEN rep.offset ELSE rep.blocks[rep.index[i].block].offset

TableNext ==
    \/ \E u \in TableKeys, s \in TableSeqs, size \in BlockSizes, full, ok \in BOOLEAN :
         Add(InternalKey(u, s, kTypeValue), size, full, ok)
    \/ \E lo, hi \in TableKeys, s \in TableSeqs : AddRangeDeletion(lo, hi, s)
    \/ \E size \in BlockSizes, ok, meta_ok \in BOOLEAN : Finish(size, ok, meta_ok)
    \/ Abandon
    \/ \E bad \in Unreadable : OpenTable(bad)

TableSpec == TableInit /\ [][TableNext]_tableVars
-----------------------------------------------------------------------------
\* What a read of u at s should find: the newest of the added entries, unless
\* a newer tombstone hides it
Expected(u, s) ==
    LET seen == {e \in added.points : e.u = u /\ e.s <= s}
        newest == CHOOSE e \in seen : \A f \in seen : f = e \/ Before(e, f)
    IN  IF seen = {}
          THEN IF IsDeleted(added.dels, StringRank(u), 0, s) THEN <<"NotFound">> ELSE <<"ok">>
          ELSE IF IsDeleted(added.dels, StringRank(u), newest.s, s)
                 THEN <<"NotFound">> ELSE <<"result", newest>>

\* A table whose Finish returned ok answers a read of any key at any sequence
\* number as the added entries and tombstones do: no block boundary, shortened
\* index key or filter hides an entry.  A read may fail only when a data block
\* cannot be read, and differs only when tombstones could not be read.
\* Between two blocks there is exactly one index key, and an approximate
\* offset grows with the key.
TableRoundTrip ==
    table.opened =>
        /\ \A u \in UserStrings, s \in TableSeqs :
             \/ InternalGet(u, s) = Expected(u, s)
             \/ table.bad = "data" /\ InternalGet(u, s) = <<"error">>
             \/ table.dels # added.dels
        /\ \A i \in DOMAIN rep.blocks :
             \A e \in added.points :
               /\ e \in ToSet(rep.blocks[i].keys) => ~Before(rep.index[i].key, e)
               /\ i > 1 /\ e \in ToSet(rep.blocks[i].keys) => Before(rep.index[i - 1].key, e)
        /\ \A u, v \in UserStrings : StringRank(u) < StringRank(v)
             => ApproximateOffsetOf(LookupKey(u, 1)) <= ApproximateOffsetOf(LookupKey(v, 1))
=============================================================================
