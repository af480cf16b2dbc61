------------------------------- MODULE DBIter --------------------------------
(***************************************************************************)
(* The iterator a client sees (db/db_iter.cc), on top of the merging       *)
(* iterator over the memtable and a table.  A step is one operation of the *)
(* merging iterator, so that writers add to the memtable in the middle of  *)
(* a call: Next, Prev and the Seeks run without the mutex.                 *)
(*                                                                         *)
(* An entry is a number in the order of internal keys, from a user key and *)
(* the sequence number of the operation that wrote it.  The memtable holds *)
(* a marker for a range deletion, a table only its tombstone.              *)
(***************************************************************************)
EXTENDS DBFormat, Sequences

CONSTANTS
    UserKeys,   \* 1 .. n; 0 is the empty string
    MaxOps      \* how many operations are written

VARIABLES
    ops,        \* the operations, in the order of their sequence numbers
    children,   \* 1: the entries of the memtable, 2: those of the table
    internal,   \* iter_
    dbiter      \* the other fields of DBIter, and the call under way

dbiterVars == <<ops, children, internal, dbiter>>

OpsWritten == {o \in [t : {kTypeDeletion, kTypeValue, kTypeRangeDeletion},
                      lo : UserKeys, hi : {0} \cup {u + 1 : u \in UserKeys}] :
                 IF o.t = kTypeRangeDeletion THEN o.lo < o.hi ELSE o.hi = 0}

Width == MaxOps + 1
Entry(u, s) == (u - 1) * Width + Width - s
UserKey(e) == ((e - 1) \div Width) + 1
Sequence(e) == Width - 1 - ((e - 1) % Width)
Type(e) == ops[Sequence(e)].t

M == INSTANCE MergingIterator WITH
    MergeKeys <- {Entry(u, s) : u \in UserKeys, s \in 0 .. MaxOps}, Children <- {1, 2},
    entries <- children, merge <- internal

NoDBIter == [pc |-> "none", op |-> "none", target |-> 0, from |-> 0, sequence_ |-> 0,
             dels |-> {}, valid_ |-> FALSE, direction_ |-> "forward", saved_key_ |-> 0,
             saved_seq |-> 0, skipping |-> FALSE, value_type |-> kTypeDeletion]

DBIterInit == ops = <<>> /\ M!MergeInit /\ dbiter = NoDBIter

\* A write, before the iterator is made or during its calls.
WriteOp(o) ==
    /\ Len(ops) < MaxOps
    /\ ops' = Append(ops, o)
    /\ children' = [children EXCEPT ![1] = @ \cup {Entry(o.lo, Len(ops) + 1)}]
    /\ UNCHANGED <<internal, dbiter>>

\* The memtable becomes a table.
FlushToTable ==
    /\ dbiter.pc = "none" /\ children[1] # {} /\ children[2] = {}
    /\ children' = <<{}, {e \in children[1] : Type(e) # kTypeRangeDeletion}>>
    /\ UNCHANGED <<ops, internal, dbiter>>

\* NewDBIterator, at the last sequence or at a snapshot.
NewDBIterator(sequence) ==
    /\ dbiter.pc = "none"
    /\ dbiter' = [NoDBIter EXCEPT !.pc = "idle", !.sequence_ = sequence,
                    !.dels = {[lo |-> ops[s].lo, hi |-> ops[s].hi, s |-> s] :
                                s \in {r \in DOMAIN ops : ops[r].t = kTypeRangeDeletion}}]
    /\ internal' = [internal EXCEPT !.direction = "forward"]
    /\ UNCHANGED <<ops, children>>

IterValid == internal.current # 0
IterValidNext == internal'.current # 0
Current == internal.pos[internal.current]
CurrentNext == internal'.pos[internal'.current]

\* What the client sees between calls: key() and the version of value().
key == IF dbiter.direction_ = "forward" THEN UserKey(Current) ELSE dbiter.saved_key_
value == IF dbiter.direction_ = "forward" THEN Sequence(Current) ELSE dbiter.saved_seq
Position ==
    IF dbiter.pc # "idle" THEN dbiter.from ELSE IF dbiter.valid_ THEN key ELSE 0

Called(op, target) == [dbiter EXCEPT !.op = op, !.target = target, !.from = Position]

\* The ends of FindNextUserEntry and FindPrevUserEntry.
NotValid(d) == [d EXCEPT !.pc = "idle", !.valid_ = FALSE, !.saved_key_ = 0, !.saved_seq = 0]

FoundPrev(d) ==
    IF d.value_type = kTypeDeletion THEN [NotValid(d) EXCEPT !.direction_ = "forward"]
    ELSE [d EXCEPT !.pc = "idle", !.valid_ = TRUE]

\* The start of FindNextUserEntry(skipping, &saved_key_), if iter_ is valid.
ToFindNext(d, skipping) ==
    IF IterValidNext
    THEN [d EXCEPT !.pc = "next", !.direction_ = "forward", !.skipping = skipping]
    ELSE [NotValid(d) EXCEPT !.direction_ = "forward"]

\* The start of FindPrevUserEntry, which may find iter_ not valid.
ToFindPrev(d, valid) ==
    LET r == [d EXCEPT !.direction_ = "reverse", !.value_type = kTypeDeletion, !.pc = "prev"]
    IN  IF valid THEN r ELSE FoundPrev(r)

SeekToFirst ==
    /\ dbiter.pc = "idle"
    /\ M!MergeSeekToFirst
    /\ dbiter' = ToFindNext(Called("first", 0), FALSE)
    /\ UNCHANGED ops

\* Until an entry is found, saved_key_ is an internal key no one looks at.
Seek(target) ==
    /\ dbiter.pc = "idle"
    /\ M!MergeSeek(Entry(target, dbiter.sequence_))
    /\ dbiter' = ToFindNext([Called("seek", target) EXCEPT !.saved_key_ = 0], FALSE)
    /\ UNCHANGED ops

SeekToLast ==
    /\ dbiter.pc = "idle"
    /\ M!MergeSeekToLast
    /\ dbiter' = ToFindPrev(Called("last", 0), IterValidNext)
    /\ UNCHANGED ops

\* Next: in reverse, iter_ stands before the entries of saved_key_.
Next ==
    /\ dbiter.pc = "idle" /\ dbiter.valid_
    /\ IF dbiter.direction_ = "reverse" /\ ~IterValid THEN M!MergeSeekToFirst ELSE M!MergeNext
    /\ dbiter' = ToFindNext([Called("next", 0) EXCEPT !.saved_key_ = key], TRUE)
    /\ UNCHANGED ops

\* Prev: going forward, iter_ first has to leave the entries of the key.
Prev ==
    /\ dbiter.pc = "idle" /\ dbiter.valid_
    /\ dbiter' = IF dbiter.direction_ = "forward"
                 THEN [Called("prev", 0) EXCEPT !.pc = "back", !.saved_key_ = key]
                 ELSE ToFindPrev(Called("prev", 0), IterValid)
    /\ UNCHANGED <<ops, children, internal>>

LeaveKey ==
    /\ dbiter.pc = "back"
    /\ M!MergePrev
    /\ dbiter' = IF ~IterValidNext THEN NotValid(dbiter)
                 ELSE IF UserKey(CurrentNext) < dbiter.saved_key_ THEN ToFindPrev(dbiter, TRUE)
                 ELSE dbiter
    /\ UNCHANGED ops

Visible == Sequence(Current) <= dbiter.sequence_
Hidden == IsDeleted(dbiter.dels, UserKey(Current), Sequence(Current), dbiter.sequence_)

\* Mutant of Shown: a newer version that a deletion hides does not count.
ShownOlder ==
    /\ Visible /\ Type(Current) = kTypeValue
    /\ ~Hidden

\* Does FindNextUserEntry return the current entry?
Shown ==
    /\ Visible /\ Type(Current) = kTypeValue
    /\ ~Hidden
    /\ ~(dbiter.skipping /\ UserKey(Current) <= dbiter.saved_key_)

FindNextFound ==
    /\ dbiter.pc = "next" /\ Shown
    /\ dbiter' = [dbiter EXCEPT !.pc = "idle", !.valid_ = TRUE,
                                !.saved_key_ = UserKey(Current), !.saved_seq = Sequence(Current)]
    /\ UNCHANGED <<ops, children, internal>>

\* A deletion hides the older versions; a marker is ignored.
FindNextSkip ==
    LET deletion == Visible /\ Type(Current) = kTypeDeletion
        d == IF deletion THEN [dbiter EXCEPT !.saved_key_ = UserKey(Current), !.skipping = TRUE]
             ELSE dbiter
    IN  /\ dbiter.pc = "next" /\ ~Shown
        /\ M!MergeNext
        /\ dbiter' = IF IterValidNext THEN d ELSE NotValid(d)
        /\ UNCHANGED ops

\* FindPrevUserEntry: an entry of an earlier key ends the loop ...
PrevDone ==
    /\ Visible /\ dbiter.value_type # kTypeDeletion
    /\ UserKey(Current) < dbiter.saved_key_

FindPrevFound ==
    /\ dbiter.pc = "prev" /\ PrevDone
    /\ dbiter' = FoundPrev(dbiter)
    /\ UNCHANGED <<ops, children, internal>>

\* ... and each version replaces what an older one has left.
FindPrevStep ==
    LET type == IF Hidden THEN kTypeDeletion ELSE Type(Current)
        keep == type = kTypeValue
        d == IF ~Visible THEN dbiter
             ELSE [dbiter EXCEPT !.value_type = type,
                                 !.saved_key_ = IF keep THEN UserKey(Current) ELSE 0,
                                 !.saved_seq = IF keep THEN Sequence(Current) ELSE 0]
    IN  /\ dbiter.pc = "prev" /\ ~PrevDone
        /\ M!MergePrev
        /\ dbiter' = IF IterValidNext THEN d ELSE FoundPrev(d)
        /\ UNCHANGED ops

DBIterNext ==
    \/ \E o \in OpsWritten : WriteOp(o)
    \/ FlushToTable
    \/ \E s \in 0 .. Len(ops) : NewDBIterator(s)
    \/ SeekToFirst \/ SeekToLast \/ Next \/ Prev
    \/ \E u \in UserKeys : Seek(u)
    \/ LeaveKey \/ FindNextFound \/ FindNextSkip \/ FindPrevFound \/ FindPrevStep

DBIterSpec == DBIterInit /\ [][DBIterNext]_dbiterVars

-----------------------------------------------------------------------------
\* The newest operation on u that the iterator may see, or 0.
Newest(u) ==
    LET Covers(o) == IF o.t = kTypeRangeDeletion THEN o.lo <= u /\ u < o.hi ELSE o.lo = u
        seen == {s \in DOMAIN ops : s <= dbiter.sequence_ /\ Covers(ops[s])}
    IN  IF seen = {} THEN 0 ELSE CHOOSE s \in seen : \A r \in seen : r <= s

Snapshot ==
    IF dbiter.pc = "none" THEN {}
    ELSE {u \in UserKeys : Newest(u) # 0 /\ ops[Newest(u)].t = kTypeValue}

Snap == INSTANCE OrderedSet WITH
    Nodes <- UserKeys, Iterators <- {1}, set <- Snapshot, node <- [i \in {1} |-> Position]

\* Does the step end a call, and of which operation?
Ends(op) == dbiter' # dbiter /\ dbiter'.pc = "idle" /\ dbiter'.op = op

\* The iterator walks over the keys of its snapshot, in both directions, with
\* the newest value of each, whatever is written during its calls.  This is so
\* apart from stops at the empty key (position 0), which ValidIsEntry excludes.
IteratesOverSnapshot ==
    /\ Snap!Spec
    /\ [](dbiter.pc = "idle" /\ Position # 0 => value = Newest(key))
    /\ [][/\ Ends("first") => Snap!SeekToFirst(1)
          /\ Ends("last") => Snap!SeekToLast(1)
          /\ Ends("seek") => Snap!Seek(1, dbiter'.target)
          /\ Ends("next") /\ Position # 0 => Snap!Next(1)
          /\ Ends("prev") /\ Position # 0 => Snap!Prev(1)]_dbiterVars

\* An iterator that is valid is at an entry (include/leveldb/iterator.h).
ValidIsEntry == dbiter.pc = "idle" /\ dbiter.valid_ => key \in Snapshot
=============================================================================
