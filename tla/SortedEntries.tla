---------------------------- MODULE SortedEntries ----------------------------
(***************************************************************************)
(* Positions in a set of entries, which are numbers above 0 in the order   *)
(* of the comparator.  0 is the position of an iterator that is not valid. *)
(***************************************************************************)
EXTENDS Integers, FiniteSetsExt

\* Where Seek(k), and Next from k - 1, put an iterator over S.
FirstFrom(S, k) ==
    LET after == {n \in S : n >= k} IN IF after = {} THEN 0 ELSE Min(after)

\* Where Prev from k puts it.
LastBefore(S, k) ==
    LET before == {n \in S : n < k} IN IF before = {} THEN 0 ELSE Max(before)

\* Where SeekToLast puts it.
LastOf(S) == IF S = {} THEN 0 ELSE Max(S)
=============================================================================
