------------------------------ MODULE PosixLock ------------------------------
(***************************************************************************)
(* The LOCK file of a database: LockFile and UnlockFile (util/env_posix.cc) *)
(* called by threads of several processes, one system call or critical     *)
(* section at a time.  POSIX (external): the fcntl lock of a file belongs  *)
(* to a process, a process that asks for a lock it has is granted it, and  *)
(* closing any descriptor of the file drops the lock of the process.       *)
(***************************************************************************)
EXTENDS Naturals

CONSTANTS
    Processes,
    NumThreads,   \* of each process
    NoProcess

ASSUME LockAssumption == NoProcess \notin Processes

LockThreads == Processes \X (1 .. NumThreads)
ProcessOf == [t \in LockThreads |-> t[1]]

VARIABLES
    locked_files_,  \* the processes whose PosixLockTable holds the name
    fcntl_owner,    \* the process that has the lock of the file
    lock_pc         \* where each thread is

lockVars == <<locked_files_, fcntl_owner, lock_pc>>

LockInit ==
    /\ locked_files_ = {} /\ fcntl_owner = NoProcess
    /\ lock_pc = [t \in LockThreads |-> "idle"]

Goto(t, from, to) == lock_pc[t] = from /\ lock_pc' = [lock_pc EXCEPT ![t] = to]

LockHolders == {t \in LockThreads : lock_pc[t] = "held"}

\* close(fd)
CloseFd(t) ==
    fcntl_owner' = IF fcntl_owner = ProcessOf[t] THEN NoProcess ELSE fcntl_owner

OpenLockFile(t) == Goto(t, "idle", "opened") /\ UNCHANGED <<locked_files_, fcntl_owner>>

\* locks_.Insert
InsertName(t) ==
    /\ IF ProcessOf[t] \in locked_files_
         THEN Goto(t, "opened", "already held")
         ELSE Goto(t, "opened", "inserted")
    /\ locked_files_' = locked_files_ \cup {ProcessOf[t]}
    /\ UNCHANGED fcntl_owner

\* Mutant of CloseAlreadyHeld: the name is removed as on the other error path.
CloseAlreadyHeldRemove(t) ==
    /\ Goto(t, "already held", "idle")
    /\ CloseFd(t)
    /\ locked_files_' = locked_files_ \ {ProcessOf[t]}

CloseAlreadyHeld(t) ==
    /\ Goto(t, "already held", "idle")
    /\ CloseFd(t)
    /\ UNCHANGED locked_files_

\* LockOrUnlock(fd, true)
SetLock(t) ==
    /\ IF fcntl_owner \in {NoProcess, ProcessOf[t]}
         THEN Goto(t, "inserted", "held") /\ fcntl_owner' = ProcessOf[t]
         ELSE Goto(t, "inserted", "refused") /\ UNCHANGED fcntl_owner
    /\ UNCHANGED locked_files_

CloseRefused(t) ==
    /\ Goto(t, "refused", "closed")
    /\ CloseFd(t)
    /\ UNCHANGED locked_files_

RemoveRefused(t) ==
    /\ Goto(t, "closed", "idle")
    /\ locked_files_' = locked_files_ \ {ProcessOf[t]}
    /\ UNCHANGED fcntl_owner

\* UnlockFile: the fcntl lock, the name, the descriptor
ClearLock(t) ==
    /\ Goto(t, "held", "unlocked")
    /\ fcntl_owner' = IF fcntl_owner = ProcessOf[t] THEN NoProcess ELSE fcntl_owner
    /\ UNCHANGED locked_files_

RemoveUnlocked(t) ==
    /\ Goto(t, "unlocked", "removed")
    /\ locked_files_' = locked_files_ \ {ProcessOf[t]}
    /\ UNCHANGED fcntl_owner

CloseUnlocked(t) ==
    /\ Goto(t, "removed", "idle")
    /\ CloseFd(t)
    /\ UNCHANGED locked_files_

\* The process ends: the kernel closes its descriptors.
Exit(p) ==
    /\ lock_pc' = [t \in LockThreads |-> IF ProcessOf[t] = p THEN "idle" ELSE lock_pc[t]]
    /\ locked_files_' = locked_files_ \ {p}
    /\ fcntl_owner' = IF fcntl_owner = p THEN NoProcess ELSE fcntl_owner

LockNext ==
    \/ \E t \in LockThreads :
         \/ OpenLockFile(t) \/ InsertName(t) \/ CloseAlreadyHeld(t) \/ SetLock(t)
         \/ CloseRefused(t) \/ RemoveRefused(t)
         \/ ClearLock(t) \/ RemoveUnlocked(t) \/ CloseUnlocked(t)
    \/ \E p \in Processes : Exit(p)

LockSpec == LockInit /\ [][LockNext]_lockVars

\* Inside a process the name in PosixLockTable and the lock of the file belong
\* to the thread that LockFile gave the file to, whatever other threads try in
\* the meantime: a process has one holder, the lock is never left behind by a
\* holder that is gone, and a process none of whose threads uses the file keeps
\* no name, so the database can be opened again.
LockOwned ==
    /\ \A t, u \in LockHolders : ProcessOf[t] = ProcessOf[u] => t = u
    /\ fcntl_owner # NoProcess => \E t \in LockHolders : ProcessOf[t] = fcntl_owner
    /\ \A p \in locked_files_ :
         \E t \in LockThreads : ProcessOf[t] = p /\ lock_pc[t] # "idle"

\* "A database may only be opened by one process at a time. The leveldb
\* implementation acquires a lock from the operating system to prevent misuse."
\* (doc/index.md): LockFile never gives the file to threads of two processes.
LockExclusion == \A t, u \in LockHolders : ProcessOf[t] = ProcessOf[u]
=============================================================================
