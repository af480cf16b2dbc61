------------------------------ MODULE MCStorage ------------------------------
(***************************************************************************)
(* The storage components side by side: each behaviour runs one of them.   *)
(* They share no state, so a run over all of them is a run over each.      *)
(***************************************************************************)
EXTENDS TableCache, SkipList, PosixLimiter, PosixLock, TLC

CONSTANTS
    kBlockSize, kHeaderSize, Lengths, MaxRecords,
    HashKeys, Hash, Versions,
    Letters, block_restart_interval, TwoKeys, MaxBlocks, MergeKeys, Children,
    UserKeys, MaxOps,
    TableKeys, TableSeqs, MaxTombstones, BlockSizes, kFilterBase, bits_per_key, kMinBits,
    kWritableFileBufferSize, is_manifest_, MaxBytes

VARIABLES
    component,
    log, block_offset, records, broken,
    list, elems, map,
    buffer, restarts, last_key, block_iter,
    blocks, two,
    entries, merge,
    ops, children, internal, dbiter,
    rep, added, reader,
    appended, buf_, file, synced, all_ok, fd_open

logVars == <<log, block_offset, records, broken>>
handleTableVars == <<list, elems, map>>
blockVars == <<buffer, restarts, last_key, block_iter>>
twoVars == <<blocks, two>>
mergeVars == <<entries, merge>>
dbiterVars == <<ops, children, internal, dbiter>>
tableVars == <<rep, added, reader>>
fileVars == <<appended, buf_, file, synced, all_ok, fd_open>>

Log == INSTANCE LogFormat
HT == INSTANCE HandleTable
Blk == INSTANCE BlockIterator
TwoL == INSTANCE TwoLevelIterator
Mrg == INSTANCE MergingIterator
Dbi == INSTANCE DBIter
Tab == INSTANCE Table WITH table <- reader
Wf == INSTANCE PosixWritableFile

MCHash == <<0, 4, 8, 9, 13>>
MCTableKeys == {<<1, 2>>, <<2, 3>>, <<3, 1>>}
MCLimiters == {mmap_limiter_, fd_limiter_}
MCMaxAcquires == (mmap_limiter_ :> 1) @@ (fd_limiter_ :> 1)

Components == {"log", "handles", "cache", "tables", "skiplist", "block", "twolevel",
               "merging", "dbiter", "table", "file", "lock", "limiter"}

StorageInit ==
    /\ component \in Components
    /\ TableCacheInit /\ SkipInit /\ LimiterInit /\ LockInit
    /\ Log!LogInit /\ HT!HandleTableInit /\ Blk!BlockInit /\ TwoL!TwoInit
    /\ Mrg!MergeInit /\ Dbi!DBIterInit /\ Tab!TableInit /\ Wf!FileInit

\* The other components do not move.
Still(c) ==
    /\ UNCHANGED component
    /\ IF c \in {"cache", "tables"} THEN TRUE ELSE UNCHANGED tcVars
    /\ IF c = "skiplist" THEN TRUE ELSE UNCHANGED skipVars
    /\ IF c = "limiter" THEN TRUE ELSE UNCHANGED limiterVars
    /\ IF c = "log" THEN TRUE ELSE UNCHANGED logVars
    /\ IF c = "handles" THEN TRUE ELSE UNCHANGED handleTableVars
    /\ IF c = "block" THEN TRUE ELSE UNCHANGED blockVars
    /\ IF c = "twolevel" THEN TRUE ELSE UNCHANGED twoVars
    /\ IF c = "merging" THEN TRUE ELSE UNCHANGED mergeVars
    /\ IF c = "dbiter" THEN TRUE ELSE UNCHANGED dbiterVars
    /\ IF c = "table" THEN TRUE ELSE UNCHANGED tableVars
    /\ IF c = "file" THEN TRUE ELSE UNCHANGED fileVars
    /\ IF c = "lock" THEN TRUE ELSE UNCHANGED lockVars

StorageNext ==
    \/ component = "cache" /\ CacheNext /\ UNCHANGED <<user, removed>> /\ Still("cache")
    \/ component = "tables" /\ TableCacheNext /\ Still("tables")
    \/ component = "skiplist" /\ SkipNext /\ Still("skiplist")
    \/ component = "limiter" /\ LimiterNext /\ Still("limiter")
    \/ component = "log" /\ Log!LogNext /\ Still("log")
    \/ component = "handles" /\ HT!HandleTableNext /\ Still("handles")
    \/ component = "block" /\ Blk!BlockIterNext /\ Still("block")
    \/ component = "twolevel" /\ TwoL!TwoLevelNext /\ Still("twolevel")
    \/ component = "merging" /\ Mrg!MergingNext /\ Still("merging")
    \/ component = "dbiter" /\ Dbi!DBIterNext /\ Still("dbiter")
    \/ component = "table" /\ Tab!TableNext /\ Still("table")
    \/ component = "file" /\ Wf!FileNext /\ Still("file")
    \/ component = "lock" /\ LockNext /\ Still("lock")

StorageSpec == StorageInit /\ [][StorageNext]_<<component, tcVars, skipVars, limiterVars, logVars, handleTableVars, blockVars,
    twoVars, mergeVars, dbiterVars, tableVars, fileVars, lockVars>>

-----------------------------------------------------------------------------
\* The log reader returns what the writer added, from any initial offset.
LogRoundTrip == component = "log" => Log!LogRoundTrip

\* A partial record in a reused log costs at most the rest of its block.
LogDamageConfined == component = "log" => Log!LogDamageConfined

\* The cache's hash table is a map, also while it grows.
TableIsMap == component = "handles" => HT!TableIsMap

\* Block::Iter moves over the keys that BlockBuilder wrote, in order.
BlockIsSorted == Blk!BlockIsSorted

\* TwoLevelIterator moves over the keys of the blocks, empty ones or not.
TwoLevelIsSorted == TwoL!TwoLevelIsSorted

\* MergingIterator moves over the union of its children, in both directions.
MergeIsSorted == Mrg!MergeIsSorted

\* DBIter moves over the snapshot's keys, whatever is written meanwhile.
IteratesOverSnapshot == Dbi!IteratesOverSnapshot

\* Table::InternalGet answers as the entries given to TableBuilder::Add do.
TableRoundTrip == component = "table" => Tab!TableRoundTrip

\* PosixWritableFile loses nothing as long as no call has failed.
FileHasNoGap == Wf!FileHasNoGap
=============================================================================
