--------------------------- MODULE PosixLockProofs ---------------------------
(***************************************************************************)
(* Proof that names and locks have owners, for any threads and processes.  *)
(***************************************************************************)
EXTENDS PosixLock, TLAPS

LockPCs == {"idle", "opened", "already held", "inserted", "held", "refused", "closed",
            "unlocked", "removed"}

LockTypeOK ==
    /\ locked_files_ \subseteq Processes
    /\ fcntl_owner \in Processes \cup {NoProcess}
    /\ lock_pc \in [LockThreads -> LockPCs]

\* The thread that has put the name into its process's PosixLockTable and not
\* yet removed it
Named(t) == lock_pc[t] \in {"inserted", "held", "refused", "closed", "unlocked"}

\* A name in the table of a process has one thread behind it.
NameOwned ==
    /\ \A t \in LockThreads : Named(t) => ProcessOf[t] \in locked_files_
    /\ \A t, u \in LockThreads :
         Named(t) /\ Named(u) /\ ProcessOf[t] = ProcessOf[u] => t = u
    /\ \A p \in locked_files_ : \E t \in LockThreads : Named(t) /\ ProcessOf[t] = p

\* The fcntl lock is with a process one of whose threads holds the file.
OwnerHolds ==
    fcntl_owner # NoProcess => \E t \in LockHolders : ProcessOf[t] = fcntl_owner

LockInv == LockTypeOK /\ NameOwned /\ OwnerHolds

\* Every thread has a process.
LEMMA ThreadProcess ==
  ProcessOf \in [LockThreads -> Processes] /\ NoProcess \notin Processes
  BY LockAssumption DEF ProcessOf, LockThreads

\* The constructor's state has no holder.
LEMMA LockInitInv == LockInit => LockInv
  BY ThreadProcess DEF LockInit, LockInv, LockTypeOK, LockPCs, NameOwned, Named, OwnerHolds, LockHolders

\* Each system call or critical section keeps the invariant.
LEMMA LockStep == LockInv /\ [LockNext]_lockVars => LockInv'
<1> SUFFICES ASSUME LockInv, [LockNext]_lockVars PROVE LockInv'
  OBVIOUS
<1> USE ThreadProcess DEF LockInv, Goto
<1>1. ASSUME NEW t \in LockThreads, OpenLockFile(t) PROVE LockInv'
  <2>1. LockTypeOK'
    BY <1>1 DEF OpenLockFile, LockTypeOK, LockPCs
  <2>2. NameOwned'
    BY <1>1 DEF OpenLockFile, LockTypeOK, NameOwned, Named
  <2>3. OwnerHolds'
    BY <1>1 DEF OpenLockFile, LockTypeOK, OwnerHolds, LockHolders
  <2> QED
    BY <2>1, <2>2, <2>3
<1>2. ASSUME NEW t \in LockThreads, InsertName(t) PROVE LockInv'
  <2>0. lock_pc[t] = "opened" /\ locked_files_' = locked_files_ \cup {ProcessOf[t]}
    BY <1>2 DEF InsertName
  <2>1. LockTypeOK'
    <3>1. lock_pc' \in [LockThreads -> LockPCs]
      BY <1>2 DEF InsertName, LockTypeOK, LockPCs
    <3>2. locked_files_' \subseteq Processes
      BY <2>0 DEF LockTypeOK
    <3>3. fcntl_owner' = fcntl_owner
      BY <1>2 DEF InsertName
    <3> QED
      BY <3>1, <3>2, <3>3 DEF LockTypeOK
  <2>2. NameOwned'
    <3>1. CASE ProcessOf[t] \in locked_files_
      <4>1. lock_pc' = [lock_pc EXCEPT ![t] = "already held"] /\ locked_files_' = locked_files_
        BY <1>2, <2>0, <3>1 DEF InsertName
      <4>2. \A u \in LockThreads : Named(u)' <=> Named(u)
        BY <2>0, <4>1 DEF LockTypeOK, Named
      <4> QED
        BY <4>1, <4>2 DEF NameOwned
    <3>2. CASE ProcessOf[t] \notin locked_files_
      <4>1. lock_pc' = [lock_pc EXCEPT ![t] = "inserted"]
        BY <1>2, <3>2 DEF InsertName
      <4>2. \A u \in LockThreads : Named(u)' <=> Named(u) \/ u = t
        BY <4>1 DEF LockTypeOK, Named
      <4> QED
        BY <2>0, <3>2, <4>2 DEF LockTypeOK, NameOwned
    <3> QED
      BY <3>1, <3>2
  <2>3. OwnerHolds'
    BY <1>2 DEF InsertName, LockTypeOK, OwnerHolds, LockHolders
  <2> QED
    BY <2>1, <2>2, <2>3
<1>3. ASSUME NEW t \in LockThreads, CloseAlreadyHeld(t) PROVE LockInv'
  <2>1. LockTypeOK'
    BY <1>3 DEF CloseAlreadyHeld, CloseFd, LockTypeOK, LockPCs
  <2>2. NameOwned'
    BY <1>3 DEF CloseAlreadyHeld, CloseFd, LockTypeOK, NameOwned, Named
  <2>3. OwnerHolds'
    BY <1>3 DEF CloseAlreadyHeld, CloseFd, LockTypeOK, OwnerHolds, LockHolders
  <2> QED
    BY <2>1, <2>2, <2>3
<1>4. ASSUME NEW t \in LockThreads, SetLock(t) PROVE LockInv'
  <2>1. LockTypeOK'
    BY <1>4 DEF SetLock, LockTypeOK, LockPCs
  <2>2. NameOwned'
    BY <1>4 DEF SetLock, LockTypeOK, NameOwned, Named
  <2>3. OwnerHolds'
    BY <1>4 DEF SetLock, LockTypeOK, OwnerHolds, LockHolders
  <2> QED
    BY <2>1, <2>2, <2>3
<1>5. ASSUME NEW t \in LockThreads, CloseRefused(t) PROVE LockInv'
  <2>1. LockTypeOK'
    BY <1>5 DEF CloseRefused, CloseFd, LockTypeOK, LockPCs
  <2>2. NameOwned'
    BY <1>5 DEF CloseRefused, CloseFd, LockTypeOK, NameOwned, Named
  <2>3. OwnerHolds'
    BY <1>5 DEF CloseRefused, CloseFd, LockTypeOK, OwnerHolds, LockHolders
  <2> QED
    BY <2>1, <2>2, <2>3
<1>6. ASSUME NEW t \in LockThreads, RemoveRefused(t) PROVE LockInv'
  <2>1. LockTypeOK'
    BY <1>6 DEF RemoveRefused, LockTypeOK, LockPCs
  <2>2. NameOwned'
    BY <1>6 DEF RemoveRefused, LockTypeOK, NameOwned, Named
  <2>3. OwnerHolds'
    BY <1>6 DEF RemoveRefused, LockTypeOK, OwnerHolds, LockHolders
  <2> QED
    BY <2>1, <2>2, <2>3
<1>7. ASSUME NEW t \in LockThreads, ClearLock(t) PROVE LockInv'
  <2>1. LockTypeOK'
    BY <1>7 DEF ClearLock, LockTypeOK, LockPCs
  <2>2. NameOwned'
    BY <1>7 DEF ClearLock, LockTypeOK, NameOwned, Named
  <2>3. OwnerHolds'
    <3>1. t \in LockHolders /\ LockHolders' = LockHolders \ {t}
      BY <1>7 DEF ClearLock, LockTypeOK, LockHolders
    <3>2. \A u \in LockHolders : ProcessOf[u] = ProcessOf[t] => u = t
      BY <3>1 DEF NameOwned, Named, LockHolders
    <3>3. fcntl_owner' = IF fcntl_owner = ProcessOf[t] THEN NoProcess ELSE fcntl_owner
      BY <1>7 DEF ClearLock
    <3> QED
      BY <3>1, <3>2, <3>3 DEF OwnerHolds
  <2> QED
    BY <2>1, <2>2, <2>3
<1>8. ASSUME NEW t \in LockThreads, RemoveUnlocked(t) PROVE LockInv'
  <2>1. LockTypeOK'
    BY <1>8 DEF RemoveUnlocked, LockTypeOK, LockPCs
  <2>2. NameOwned'
    BY <1>8 DEF RemoveUnlocked, LockTypeOK, NameOwned, Named
  <2>3. OwnerHolds'
    BY <1>8 DEF RemoveUnlocked, LockTypeOK, OwnerHolds, LockHolders
  <2> QED
    BY <2>1, <2>2, <2>3
<1>9. ASSUME NEW t \in LockThreads, CloseUnlocked(t) PROVE LockInv'
  <2>1. LockTypeOK'
    BY <1>9 DEF CloseUnlocked, CloseFd, LockTypeOK, LockPCs
  <2>2. NameOwned'
    BY <1>9 DEF CloseUnlocked, CloseFd, LockTypeOK, NameOwned, Named
  <2>3. OwnerHolds'
    BY <1>9 DEF CloseUnlocked, CloseFd, LockTypeOK, OwnerHolds, LockHolders
  <2> QED
    BY <2>1, <2>2, <2>3
<1>10. ASSUME NEW p \in Processes, Exit(p) PROVE LockInv'
  <2>1. LockTypeOK'
    BY <1>10 DEF Exit, LockTypeOK, LockPCs
  <2>2. NameOwned'
    BY <1>10 DEF Exit, LockTypeOK, NameOwned, Named
  <2>3. OwnerHolds'
    BY <1>10 DEF Exit, LockTypeOK, OwnerHolds, LockHolders
  <2> QED
    BY <2>1, <2>2, <2>3
<1>11. CASE UNCHANGED lockVars
  BY <1>11 DEF lockVars, LockTypeOK, NameOwned, Named, OwnerHolds, LockHolders
<1> QED
  BY <1>1, <1>2, <1>3, <1>4, <1>5, <1>6, <1>7, <1>8, <1>9, <1>10, <1>11 DEF LockNext

\* One thread of a process at a time is given the file by LockFile, the lock of
\* the file is with the process of a holder, and the name is in the table of a
\* process only while a thread of it is between LockFile and UnlockFile.
THEOREM LockIsOwned == LockSpec => []LockOwned
<1>1. ASSUME LockInv PROVE LockOwned
  <2> USE ThreadProcess, <1>1 DEF LockInv, NameOwned, Named
  <2>1. \A t, u \in LockHolders : ProcessOf[t] = ProcessOf[u] => t = u
    BY DEF LockHolders
  <2>2. \A p \in locked_files_ :
           \E t \in LockThreads : ProcessOf[t] = p /\ lock_pc[t] # "idle"
    OBVIOUS
  <2> QED
    BY <2>1, <2>2 DEF LockOwned, OwnerHolds
<1> QED
  BY <1>1, LockInitInv, LockStep, PTL DEF LockSpec
=============================================================================
