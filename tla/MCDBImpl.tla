------------------------------ MODULE MCDBImpl ------------------------------
(***************************************************************************)
(* DBImpl for TLC.  Threads of one role are interchangeable: no definition *)
(* singles one out, and the queue orders them by arrival only.             *)
(***************************************************************************)
EXTENDS DBImpl, TLC

Symmetry == Permutations(Writers) \cup Permutations(FFCs)

OneWriter == {CHOOSE w \in Writers : TRUE}

\* All threads, on a new database.
Together == {[threads |-> Thread, l0 |-> 0]}

\* All threads, on a new database or on one with a level-0 table.
Reopened == {[threads |-> Thread, l0 |-> n] : n \in 0 .. 1}

\* Writers, CompactRange and the destructor on a new database; a writer and a
\* reader beside ForceFullCompaction; and a writer on a database that has more
\* level-0 tables than MakeRoomForWrite lets it make.
Mixed ==
    {[threads |-> Writers \cup Compactors \cup Closers, l0 |-> 0],
     [threads |-> OneWriter \cup FFCs \cup Readers, l0 |-> 0],
     [threads |-> OneWriter \cup Closers, l0 |-> L0_StopWritesTrigger + 1]}
=============================================================================
