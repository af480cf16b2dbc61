------------------------------ MODULE DBFormat ------------------------------
(***************************************************************************)
(* Internal keys and range tombstones (db/dbformat.h, db/dbformat.cc).     *)
(*                                                                         *)
(* A user key is a natural number.  The bytes of a key are abstracted to   *)
(* their place in the user comparator's order.  An internal key is a       *)
(* record [u, s, t]: user key, sequence number and value type.  A value is *)
(* identified by the sequence number it was written with.                  *)
(***************************************************************************)
EXTENDS Integers

kTypeDeletion == 0
kTypeValue == 1
kTypeRangeDeletion == 2

\* The highest-numbered type sorts first among equal sequence numbers.
kValueTypeForSeek == kTypeRangeDeletion

InternalKeys == [u : Nat, s : Nat, t : {kTypeDeletion, kTypeValue, kTypeRangeDeletion}]

InternalKey(u, s, t) == [u |-> u, s |-> s, t |-> t]

PackSequenceAndType(s, t) == s * 256 + t

\* InternalKeyComparator::Compare(a, b) < 0: user key up, packed tag down.
ILess(a, b) ==
    \/ a.u < b.u
    \/ /\ a.u = b.u
       /\ PackSequenceAndType(a.s, a.t) > PackSequenceAndType(b.s, b.t)

\* LookupKey: the internal key at which a read of u at snapshot s starts.
LookupKey(u, s) == InternalKey(u, s, kValueTypeForSeek)

\* A range tombstone deletes the user keys lo .. hi - 1 below sequence s.
RangeDeletions == [lo : Nat, hi : Nat, s : Nat]

\* RangeDeletionList::IsDeleted: is version `found` of user key u hidden by
\* a tombstone that a read at `snapshot` can see?
IsDeleted(dels, u, found, snapshot) ==
    \E d \in dels : /\ d.s <= snapshot
                    /\ d.s > found
                    /\ d.lo <= u
                    /\ u < d.hi
=============================================================================
