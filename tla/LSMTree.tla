------------------------------ MODULE LSMTree -------------------------------
(***************************************************************************)
(* The data path: what a read sees while memtables are flushed and tables  *)
(* are compacted (db/db_impl.cc, db/version_set.cc, db/memtable.cc,        *)
(* table/table.cc).                                                        *)
(*                                                                         *)
(* A memtable or a table holds point entries, which are internal keys, and *)
(* range tombstones.  Byte sizes are not modelled.  Where the code         *)
(* compares a size with a limit, both outcomes are possible, unless the    *)
(* size is that of no file at all.                                         *)
(***************************************************************************)
EXTENDS DBFormat, SequencesExt

CONSTANTS
    MaxKey,      \* user keys are 1 .. MaxKey; MaxKey + 1 only ends a range
    MaxSeq,      \* bound on the number of operations written
    MaxBatch,    \* bound on the operations of one write group
    MaxSnapshots,\* bound on the snapshots held at a time
    MaxIterators,\* bound on the iterators in use at a time, 0 or 1
    NumLevels,   \* config::kNumLevels
    MaxMemCompactLevel, \* config::kMaxMemCompactLevel
    Workloads    \* sets of kinds of operation: one run writes those of one set

ASSUME LSMTreeAssumption ==
    /\ MaxKey \in Nat \ {0} /\ MaxSeq \in Nat /\ MaxBatch \in Nat \ {0}
    /\ MaxSnapshots \in Nat /\ MaxIterators \in {0, 1}
    /\ NumLevels \in Nat /\ MaxMemCompactLevel \in Nat
    /\ NumLevels > MaxMemCompactLevel /\ NumLevels > 1
    /\ Workloads \subseteq SUBSET {kTypeDeletion, kTypeValue, kTypeRangeDeletion}

VARIABLES
    hist,     \* every operation inserted so far; its index is its sequence
    last,     \* VersionSet::last_sequence_
    mem,      \* DBImpl::mem_
    imm,      \* DBImpl::imm_, or NoTable
    files,    \* the current Version: level -> set of tables
    comp,     \* the compaction under way in DoCompactionWork, or NoCompaction
    snaps,    \* DBImpl::snapshots_
    iter,     \* a DBIter that has pinned its tables, or NoIter
    aborted   \* has the check in Builder::SaveTo called abort()?

vars == <<hist, last, mem, imm, files, comp, snaps, iter, aborted>>

Key == 1 .. MaxKey
Level == 0 .. NumLevels - 1

\* Null bounds of a manual compaction, before and after every user key.
NullBegin == 0
NullEnd == MaxKey + 2

NoTable == [pts |-> {}, dels |-> {}]
NoCompaction == [level |-> -1]
NoIter == [state |-> "none", held |-> FALSE]

(***************************************************************************)
(* The operations a WriteBatch holds, and what a read at snapshot s should *)
(* return: the newest operation at or below s on the key decides.  A value *)
(* is named by its sequence number and NotFound is 0.                      *)
(***************************************************************************)
Ops == {o \in [t : UNION Workloads, lo : Key, hi : {0} \cup 2 .. MaxKey + 1] :
            IF o.t = kTypeRangeDeletion THEN o.lo < o.hi ELSE o.hi = 0}

NotFound == 0

Covers(o, k) == IF o.t = kTypeRangeDeletion THEN o.lo <= k /\ k < o.hi ELSE o.lo = k

Expected(k, s) ==
    LET W == {i \in 1 .. s : Covers(hist[i], k)}
    IN  IF W = {} \/ hist[Max(W)].t # kTypeValue THEN NotFound ELSE Max(W)

(***************************************************************************)
(* Point lookup.                                                           *)
(***************************************************************************)
Miss == -1

\* Table::InternalGet: the newest visible point entry of k, unless a
\* tombstone of the same table hides it.  With no such entry, a tombstone
\* over k still answers NotFound.
InternalGet(tab, k, s) ==
    LET P == {e.s : e \in {p \in tab.pts : p.u = k /\ p.s <= s}}
    IN  IF P = {}
        THEN IF IsDeleted(tab.dels, k, 0, s) THEN NotFound ELSE Miss
        ELSE IF IsDeleted(tab.dels, k, Max(P), s)
                \/ InternalKey(k, Max(P), kTypeDeletion) \in tab.pts
             THEN NotFound
             ELSE Max(P)

\* MemTable::Get: the markers of range deletions that the memtable also holds
\* are skipped, so it decides like a table.
MemTableGet(m, k, s) == InternalGet(m, k, s)

\* The first place that answers decides.
FirstAnswer(answers) ==
    LET hit == SelectInSeq(answers, LAMBDA a : a # Miss)
    IN  IF hit = 0 THEN Miss ELSE answers[hit]

\* The files of a level > 0 in the order of Builder::SaveTo (BySmallestKey).
Sorted(F) == SetToSortSeq(F, LAMBDA f, g : ILess(f.sm, g.sm))

\* Mutant of KeyIsAfterFile: user keys are compared, and equal ones pass.
KeyIsAfterFileUser(key, f) == f.lg.u <= key.u

\* The comparison of FindFile, on internal keys.
KeyIsAfterFile(key, f) == ILess(f.lg, key)

\* FindFile: binary search for the first file whose largest key is >= key,
\* as an index of fs, or Len(fs) + 1.
FindFile(fs, key) ==
    LET search[left \in 0 .. Len(fs), right \in 0 .. Len(fs)] ==
            IF left >= right
            THEN right
            ELSE LET mid == (left + right) \div 2
                 IN  IF KeyIsAfterFile(key, fs[mid + 1])
                     THEN search[mid + 1, right]
                     ELSE search[left, mid]
    IN  search[0, Len(fs)] + 1

\* Version::ForEachOverlapping: the tables a lookup of k at s visits, in
\* order: level 0 newest first, then at most one file of each level.
OverlappingTables(k, s) ==
    LET L0 == SetToSortSeq({f \in files[0] : f.sm.u <= k /\ k <= f.lg.u},
                           LAMBDA f, g : f.n > g.n)
        OfLevel(l) == LET fs == Sorted(files[l])
                          i == FindFile(fs, LookupKey(k, s))
                      IN  IF i <= Len(fs) /\ fs[i].sm.u <= k THEN <<fs[i]>> ELSE <<>>
    IN  L0 \o FlattenSeq([l \in 1 .. NumLevels - 1 |-> OfLevel(l)])

\* Version::Get
VersionGet(k, s) ==
    LET tables == OverlappingTables(k, s)
    IN  FirstAnswer([i \in 1 .. Len(tables) |-> InternalGet(tables[i], k, s)])

\* DBImpl::Get: the memtable, the immutable memtable, then the Version.
Get(k, s) ==
    LET found == FirstAnswer(<<MemTableGet(mem, k, s), MemTableGet(imm, k, s),
                               VersionGet(k, s)>>)
    IN  IF found = Miss THEN NotFound ELSE found

(***************************************************************************)
(* Writes.  DBImpl::Write inserts a group into mem_ one operation after    *)
(* the other without holding the mutex, then publishes the last sequence.  *)
(***************************************************************************)
Pending == Len(hist) - last

\* MemTable::Add for one operation, with the next sequence number.
MemTableAdd(m, o, s) ==
    IF o.t = kTypeRangeDeletion
    THEN [m EXCEPT !.dels = @ \cup {[lo |-> o.lo, hi |-> o.hi, s |-> s]}]
    ELSE [m EXCEPT !.pts = @ \cup {InternalKey(o.lo, s, o.t)}]

\* The kinds of operation written so far.
Written == {o.t : o \in ToSet(hist)}

InsertInto(o) ==
    /\ ~aborted
    /\ Len(hist) < MaxSeq /\ Pending < MaxBatch
    /\ {o.t} \cup Written \in UNION {SUBSET w : w \in Workloads}
    /\ hist' = Append(hist, o)
    /\ mem' = MemTableAdd(mem, o, Len(hist) + 1)
    /\ UNCHANGED <<last, imm, files, comp, snaps, iter, aborted>>

\* Mutant of SetLastSequence: one more than the group has used.
SetLastSequenceOff ==
    /\ ~aborted
    /\ Pending > 0
    /\ last' = Len(hist) + 1
    /\ UNCHANGED <<hist, mem, imm, files, comp, snaps, iter, aborted>>

SetLastSequence ==
    /\ ~aborted
    /\ Pending > 0
    /\ last' = Len(hist)
    /\ UNCHANGED <<hist, mem, imm, files, comp, snaps, iter, aborted>>

\* The switch to a new memtable in MakeRoomForWrite, by the writer at the
\* front of the queue, so between two groups.  Switching an empty memtable
\* leaves an imm_ that CompactMemTable drops without a table.
SwitchMemTable ==
    /\ ~aborted
    /\ Pending = 0
    /\ mem # NoTable /\ imm = NoTable
    /\ imm' = mem
    /\ mem' = NoTable
    /\ UNCHANGED <<hist, last, files, comp, snaps, iter, aborted>>

(***************************************************************************)
(* Version edits.                                                          *)
(***************************************************************************)
\* The internal order of a set of internal keys.
InOrder(K) == SetToSortSeq(K, ILess)

\* Builder::SaveTo aborts a debug build when two files of a level > 0 meet.
OverlapInSomeLevel(fl) ==
    \E l \in 1 .. NumLevels - 1 :
        LET fs == Sorted(fl[l])
        IN  \E i \in 2 .. Len(fs) : ~ILess(fs[i - 1].lg, fs[i].sm)

\* VersionSet::LogAndApply installs the new version or the process aborts.
Install(fl) ==
    IF OverlapInSomeLevel(fl)
    THEN aborted' = TRUE /\ UNCHANGED files
    ELSE files' = fl /\ UNCHANGED aborted

\* Version::GetOverlappingInputs.  At level 0 a file that sticks out of the
\* range widens it and the search starts again.
GetOverlappingInputs(level, begin, end) ==
    LET F == files[level]
        hits(r) == {f \in F : f.lg.u >= r.lo /\ f.sm.u <= r.hi}
        widen(r) == [lo |-> Min({r.lo} \cup {f.sm.u : f \in hits(r)}),
                     hi |-> Max({r.hi} \cup {f.lg.u : f \in hits(r)})]
        range[n \in 0 .. Cardinality(F)] ==
            IF n = 0 THEN [lo |-> begin, hi |-> end] ELSE widen(range[n - 1])
    IN  hits(range[IF level = 0 THEN Cardinality(F) ELSE 0])

\* Version::OverlapInLevel, by SomeFileOverlapsRange.
OverlapInLevel(level, lo, hi) ==
    IF level = 0
    THEN \E f \in files[0] : ~(lo > f.lg.u) /\ ~(hi < f.sm.u)
    ELSE LET fs == Sorted(files[level])
             i == FindFile(fs, LookupKey(lo, MaxSeq + 1))
         IN  i <= Len(fs) /\ ~(hi < fs[i].sm.u)

\* Mutant of PickLevelForMemTableOutput: overlap with level 0 is not tested.
PickLevelIgnoringL0(lo, hi) ==
    LET mustStop(l) == l = MaxMemCompactLevel \/ OverlapInLevel(l + 1, lo, hi)
    IN  {l \in 0 .. MaxMemCompactLevel : mustStop(l) /\ \A j \in 0 .. l - 1 : ~mustStop(j)}

\* Version::PickLevelForMemTableOutput: the levels the flush of lo .. hi may
\* be given.  It may stop before level l + 1 whenever files of level l + 2
\* overlap, as their bytes may exceed the grandparent limit.
PickLevelForMemTableOutput(lo, hi) ==
    LET mustStop(l) == l = MaxMemCompactLevel \/ OverlapInLevel(l + 1, lo, hi)
        mayStop(l) == \/ mustStop(l)
                      \/ l + 2 < NumLevels /\ GetOverlappingInputs(l + 2, lo, hi) # {}
    IN  IF OverlapInLevel(0, lo, hi)
        THEN {0}
        ELSE {l \in 0 .. MaxMemCompactLevel :
                mayStop(l) /\ \A j \in 0 .. l - 1 : ~mustStop(j)}

(***************************************************************************)
(* Flush of the immutable memtable.                                        *)
(***************************************************************************)
\* A table: number (its age at level 0, not kept deeper), bounds, contents.
Table(n, sm, lg, pts, dels) == [n |-> n, sm |-> sm, lg |-> lg, pts |-> pts, dels |-> dels]

\* BuildTable takes the bounds from the first and the last memtable entry,
\* the markers of range deletions included.  WriteLevel0Table then widens
\* them to the tombstones.
FlushedTable(n, m) ==
    LET marks == {InternalKey(d.lo, d.s, kTypeRangeDeletion) : d \in m.dels}
        keys == InOrder(m.pts \cup marks)
        maxEnd == Max({0} \cup {d.hi : d \in m.dels})
        lg == IF maxEnd > keys[Len(keys)].u
              THEN InternalKey(maxEnd, 0, kTypeDeletion)
              ELSE keys[Len(keys)]
    IN  Table(n, keys[1], lg, m.pts, m.dels)

NextFileNumber == 1 + Max({0} \cup {f.n : f \in files[0]})

\* CompactMemTable: build the table, pick its level, install it, drop imm_.
\* The background thread may do so in the middle of a compaction.
CompactMemTable ==
    /\ ~aborted
    /\ imm # NoTable
    /\ LET f == FlushedTable(NextFileNumber, imm)
       IN  \E l \in PickLevelForMemTableOutput(f.sm.u, f.lg.u) :
             Install([files EXCEPT ![l] =
                        @ \cup {IF l = 0 THEN f ELSE [f EXCEPT !.n = 0]}])
    /\ imm' = NoTable
    /\ UNCHANGED <<hist, last, mem, comp, snaps, iter>>

(***************************************************************************)
(* Compaction.                                                             *)
(***************************************************************************)
\* AddBoundaryInputs: add the files of the level that hold older versions of
\* the last user key of C, one after the other.
AddBoundaryInputs(F, C) ==
    LET largestKey(S) == Last(InOrder({f.lg : f \in S}))
        next(S) == {f \in F : /\ ILess(largestKey(S), f.sm)
                              /\ f.sm.u = largestKey(S).u}
        first(S) == CHOOSE f \in next(S) : \A g \in next(S) : ~ILess(g.sm, f.sm)
        chain[n \in 0 .. Cardinality(F)] ==
            IF n = 0 THEN C
            ELSE LET S == chain[n - 1]
                 IN  IF S = {} \/ next(S) = {} THEN S ELSE S \cup {first(S)}
    IN  chain[Cardinality(F)]

\* The files of `level` that overlap the user keys of C, with the boundary
\* files of that level (VersionSet::GetRange, then GetOverlappingInputs).
OverlappingWithBoundary(level, C) ==
    AddBoundaryInputs(files[level],
        GetOverlappingInputs(level, Min({f.sm.u : f \in C}), Max({f.lg.u : f \in C})))

\* SetupOtherInputs: the pairs <<inputs_[0], inputs_[1]>> it may leave.  The
\* inputs grow only if that adds no file of the next level, and only if the
\* bytes stay under a limit.
SetupOtherInputs(level, C) ==
    LET in0 == AddBoundaryInputs(files[level], C)
        in1 == OverlappingWithBoundary(level + 1, in0)
        exp0 == OverlappingWithBoundary(level, in0 \cup in1)
        exp1 == OverlappingWithBoundary(level + 1, exp0)
        grows == /\ in1 # {}
                 /\ Cardinality(exp0) > Cardinality(in0)
                 /\ Cardinality(exp1) = Cardinality(in1)
    IN  {<<in0, in1>>} \cup IF grows THEN {<<exp0, exp1>>} ELSE {}

\* PickCompaction: a size or a seek compaction may start from any file.
PickCompaction(level) ==
    UNION {SetupOtherInputs(level,
              IF level = 0 THEN GetOverlappingInputs(0, f.sm.u, f.lg.u) ELSE {f}) :
           f \in files[level]}

\* The files that the ranges a caller may give overlap.
RangeInputs(level) ==
    {GetOverlappingInputs(level, b, e) : b \in {NullBegin} \cup Key, e \in {NullEnd} \cup Key}

\* VersionSet::CompactRange for the overlapping files F; above level 0 any
\* prefix of them, cut by total size.
CompactRange(level, F) ==
    LET fs == Sorted(F)
    IN  UNION {SetupOtherInputs(level, ToSet(SubSeq(fs, 1, i))) :
               i \in IF level = 0 THEN {Len(fs)} \ {0} ELSE 1 .. Len(fs)}

\* Mutant of IsBaseLevelForKey: the search starts one level too deep.
IsBaseLevelForKeyOff(level, u) ==
    \A l \in level + 3 .. NumLevels - 1 : \A f \in files[l] : ~(f.sm.u <= u /\ u <= f.lg.u)

\* Compaction::IsBaseLevelForKey
IsBaseLevelForKey(level, u) ==
    \A l \in level + 2 .. NumLevels - 1 : \A f \in files[l] : ~(f.sm.u <= u /\ u <= f.lg.u)

Dels(F) == UNION {f.dels : f \in F}
Points(F) == UNION {f.pts : f \in F}

\* The entries DoCompactionWork keeps: not under a tombstone of the inputs,
\* not hidden by a newer entry every snapshot sees (rule A), and not a
\* deletion with nothing left to delete.
Surviving(level, in, snapshot) ==
    {e \in Points(in) :
        /\ ~IsDeleted(Dels(in), e.u, e.s, snapshot)
        /\ ~\E newer \in Points(in) :
              newer.u = e.u /\ newer.s > e.s /\ newer.s <= snapshot
        /\ ~(e.t = kTypeDeletion /\ e.s <= snapshot /\ IsBaseLevelForKey(level, e.u))}

\* Oldest snapshot, or the last sequence when no snapshot is held.
SmallestSnapshot == IF snaps = {} THEN last ELSE Min(snaps)

\* IsTrivialMove may fail only if grandparents overlap.
MayMove(level, in) == Cardinality(in[1]) = 1 /\ in[2] = {}
Grandparents(level, in) ==
    IF level + 2 < NumLevels
    THEN GetOverlappingInputs(level + 2, Min({f.sm.u : f \in in[1] \cup in[2]}),
                                         Max({f.lg.u : f \in in[1] \cup in[2]}))
    ELSE {}
MustMove(level, in) == MayMove(level, in) /\ Grandparents(level, in) = {}

\* The trivial move in BackgroundCompaction.
Move(level, in) ==
    /\ MayMove(level, in)
    /\ Install([files EXCEPT ![level] = @ \ in[1],
                             ![level + 1] = @ \cup {[f EXCEPT !.n = 0] : f \in in[1]}])
    /\ UNCHANGED <<hist, last, mem, imm, comp, snaps, iter>>

\* The start of DoCompactionWork, under the mutex.  What it will keep
\* depends only on the inputs, on the pinned input version and on the oldest
\* snapshot, all read here.
StartWork(level, in) ==
    /\ comp' = [level |-> level, in |-> in,
                keys |-> InOrder(Surviving(level, in[1] \cup in[2], SmallestSnapshot)),
                dels |-> Dels(in[1] \cup in[2])]
    /\ UNCHANGED <<hist, last, mem, imm, files, snaps, iter, aborted>>

\* An automatic compaction.
BackgroundCompaction(level) ==
    /\ ~aborted
    /\ comp = NoCompaction
    /\ \E in \in PickCompaction(level) :
         Move(level, in) \/ (~MustMove(level, in) /\ StartWork(level, in))

\* A manual one, over any range of keys or all of them.  It moves a file only
\* while ForceFullCompaction runs, and rewrites it always otherwise.
ManualCompaction(level) ==
    /\ ~aborted
    /\ comp = NoCompaction
    /\ files[level] # {}
    /\ \E in \in UNION {CompactRange(level, F) : F \in RangeInputs(level)} :
         Move(level, in) \/ StartWork(level, in)

\* The bounds of an output come from its points: the first entry of its
\* first user key, and the first entry of its last user key.
OutputTable(keys, dels) ==
    LET lastUser == {k \in ToSet(keys) : k.u = keys[Len(keys)].u}
    IN  Table(0, keys[1], InOrder(lastUser)[1], ToSet(keys), dels)

\* The last output, when it is still open after the loop, is stretched to
\* the end of the tombstones.
Stretched(f, dels) ==
    LET maxEnd == Max({0} \cup {d.hi : d \in dels})
    IN  IF maxEnd > f.lg.u THEN [f EXCEPT !.lg = InternalKey(maxEnd, 0, kTypeDeletion)] ELSE f

\* The table that carries the tombstones when no point survived.
TombstoneTable(dels) ==
    LET minStart == Min({d.lo : d \in dels})
        minSeq == Max({d.s : d \in {e \in dels : e.lo = minStart}})
    IN  Table(0, InternalKey(minStart, minSeq, kTypeRangeDeletion),
              InternalKey(Max({d.hi : d \in dels}), 0, kTypeDeletion), {}, dels)

\* Mutant of Fallback: the tombstones are lost when no point survives.
FallbackNone(dels) == {}

Fallback(dels) == IF dels = {} THEN {} ELSE {TombstoneTable(dels)}

\* The outputs of the loop, cut after the positions in `cuts`.  Each carries
\* every tombstone.  A cut after the last key closes the last output.
Outputs(keys, dels, cuts) ==
    LET ends == cuts \cup {Len(keys)}
        part(e) == SubSeq(keys, Max({0} \cup {c \in cuts : c < e}) + 1, e)
        out(e) == IF e = Len(keys) /\ e \notin cuts
                  THEN Stretched(OutputTable(part(e), dels), dels)
                  ELSE OutputTable(part(e), dels)
    IN  IF keys = <<>> THEN Fallback(dels) ELSE {out(e) : e \in ends}

\* The end of DoCompactionWork: InstallCompactionResults replaces the inputs
\* in the version that is current now.
FinishWork ==
    /\ ~aborted
    /\ comp # NoCompaction
    /\ \E cuts \in SUBSET (1 .. Len(comp.keys)) :
         Install([files EXCEPT
                    ![comp.level] = @ \ comp.in[1],
                    ![comp.level + 1] = (@ \ comp.in[2]) \cup Outputs(comp.keys, comp.dels, cuts)])
    /\ comp' = NoCompaction
    /\ UNCHANGED <<hist, last, mem, imm, snaps, iter>>

(***************************************************************************)
(* Snapshots and iterators.                                                *)
(***************************************************************************)
GetSnapshot ==
    /\ ~aborted
    /\ Cardinality(snaps) < MaxSnapshots
    /\ snaps' = snaps \cup {last}
    /\ UNCHANGED <<hist, last, mem, imm, files, comp, iter, aborted>>

\* No snapshot is released while the iterator made with it is in use.
ReleaseSnapshot(s) ==
    /\ ~aborted
    /\ s \in snaps
    /\ ~(iter.held /\ iter.seq = s)
    /\ snaps' = snaps \ {s}
    /\ UNCHANGED <<hist, last, mem, imm, files, comp, iter, aborted>>

\* The entries a merging iterator meets at or after a Seek to key.  The
\* two-level iterator of a level > 0 starts at the file FindFile names.
SeekEntries(key) ==
    LET fs(l) == Sorted(files[l])
        from(l) == {fs(l)[i] : i \in FindFile(fs(l), key) .. Len(fs(l))}
        tables == {mem, imm} \cup files[0] \cup UNION {from(l) : l \in 1 .. NumLevels - 1}
    IN  {e \in Points(tables) : ~ILess(e, key)}

AllTables == {mem, imm} \cup UNION {files[l] : l \in Level}

\* NewInternalIterator: under the mutex, take the last sequence and pin the
\* memtables and the version.  view[k] is what a Seek to k will meet, and
\* view[0] what SeekToFirst will, as far as the iterator's sequence number
\* lets it see: entries inserted into mem_ later have a larger one.
NewInternalIterator(s, held) ==
    /\ ~aborted
    /\ iter = NoIter /\ MaxIterators = 1
    /\ iter' = [state |-> "pinned", seq |-> s, held |-> held,
                view |-> [k \in 0 .. MaxKey |->
                            {e \in IF k = 0 THEN Points(AllTables)
                                            ELSE SeekEntries(LookupKey(k, s)) : e.s <= s}]]
    /\ UNCHANGED <<hist, last, mem, imm, files, comp, snaps, aborted>>

\* The entries DBIter::FindNextUserEntry and Next return from view[start] on:
\* values no tombstone hides, with no newer deletion or returned value.  The
\* tombstones are those GetRangeDeletions finds when it locks the mutex again.
ForwardScan(start) ==
    LET visible == iter.view[start]
        shown == {e \in visible : /\ e.t = kTypeValue
                                  /\ ~IsDeleted(Dels(AllTables), e.u, e.s, iter.seq)}
    IN  {e \in shown : ~\E n \in visible : /\ n.u = e.u /\ n.s > e.s
                                         /\ (n.t = kTypeDeletion \/ n \in shown)}

\* The rest of the iterator's life: its constructor calls GetRangeDeletions,
\* it walks over what it pinned and is deleted.  It changes nothing else.
FinishIterator ==
    /\ ~aborted
    /\ iter.state = "pinned"
    /\ iter' = NoIter
    /\ UNCHANGED <<hist, last, mem, imm, files, comp, snaps, aborted>>

-----------------------------------------------------------------------------
Init ==
    /\ hist = <<>> /\ last = 0
    /\ mem = NoTable /\ imm = NoTable
    /\ files = [l \in Level |-> {}]
    /\ comp = NoCompaction
    /\ snaps = {} /\ iter = NoIter
    /\ aborted = FALSE

Next ==
    \/ \E o \in Ops : InsertInto(o)
    \/ SetLastSequence
    \/ SwitchMemTable
    \/ CompactMemTable
    \/ \E l \in 0 .. NumLevels - 2 : BackgroundCompaction(l)
    \/ \E l \in 0 .. NumLevels - 2 : ManualCompaction(l)
    \/ FinishWork
    \/ GetSnapshot
    \/ \E s \in snaps : ReleaseSnapshot(s)
    \/ NewInternalIterator(last, FALSE)
    \/ \E s \in snaps : NewInternalIterator(s, TRUE)
    \/ FinishIterator

Spec == Init /\ [][Next]_vars

-----------------------------------------------------------------------------
PointKeys == [u : Key, s : 1 .. MaxSeq, t : {kTypeDeletion, kTypeValue}]
Tombstones == [lo : Key, hi : 2 .. MaxKey + 1, s : 1 .. MaxSeq]
BoundKeys == [u : 1 .. MaxKey + 1, s : 0 .. MaxSeq, t : 0 .. 2]
IsTable(f) == f.pts \subseteq PointKeys /\ f.dels \subseteq Tombstones

\* Type invariant: the memtables, the tables and the compaction hold entries
\* of the written operations and their bounds are internal keys.
TypeOK ==
    /\ hist \in Seq(Ops) /\ last \in 0 .. Len(hist)
    /\ IsTable(mem) /\ IsTable(imm)
    /\ DOMAIN files = Level
    /\ \A l \in Level : \A f \in files[l] :
         /\ IsTable(f) /\ {f.sm, f.lg} \subseteq BoundKeys
         /\ IF l = 0 THEN f.n > 0 ELSE f.n = 0
    /\ comp # NoCompaction => comp.level \in 0 .. NumLevels - 2
    /\ snaps \subseteq 0 .. last
    /\ aborted \in BOOLEAN

\* What a Get without a snapshot returns is the newest published operation
\* on the key, wherever flushes and compactions have put its versions.
LatestGet == ~aborted => \A k \in Key : Get(k, last) = Expected(k, last)

\* The same as long as no range was deleted.
LatestPoint == kTypeRangeDeletion \notin Written => LatestGet

\* A Get at a snapshot still held returns the value the key had when the
\* snapshot was taken (doc/index.md, Snapshots).
SnapshotGet == ~aborted => \A k \in Key, s \in snaps : Get(k, s) = Expected(k, s)

ScanResult(start, s) ==
    {InternalKey(k, Expected(k, s), kTypeValue) : k \in {j \in start .. MaxKey : Expected(j, s) # NotFound}}

\* A forward iteration from the first key returns exactly the keys and values
\* of the iterator's sequence number, although the entries are pinned in one
\* critical section and the tombstones are collected in a later one, with
\* writes, flushes and compactions in between.
IterationIsSnapshot ==
    ~aborted /\ iter.state = "pinned" => ForwardScan(0) = ScanResult(1, iter.seq)

\* The same for DBImpl::Scan, which starts with a Seek, when it reads at the
\* last sequence and not at a snapshot.
ScanIsSnapshot ==
    ~aborted /\ iter.state = "pinned" /\ ~iter.held =>
        \A start \in Key : ForwardScan(start) = ScanResult(start, iter.seq)

\* The order Get relies on: of two tables that a lookup visits one before
\* the other, the first holds the newer versions of every key.
NewerAbove ==
    LET Newer(A, B) == \A a \in Points(A), b \in Points(B) : a.u = b.u => a.s > b.s
    IN  /\ Newer({mem}, {imm})
        /\ \A l \in Level : Newer({mem, imm}, files[l])
        /\ \A f, g \in files[0] : f.n > g.n => Newer({f}, {g})
        /\ \A l, m \in Level : l < m => Newer(files[l], files[m])
=============================================================================
