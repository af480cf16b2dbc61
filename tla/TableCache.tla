----------------------------- MODULE TableCache ------------------------------
(***************************************************************************)
(* The cache of open tables (db/table_cache.cc): threads that look for the *)
(* table of a file in an LRUCache, open it when it is not there, insert it *)
(* and release it after use, and RemoveObsoleteFiles, which evicts the     *)
(* table of a file before it removes the file.                             *)
(*                                                                         *)
(* FindTable holds no mutex of its own: another thread may insert or evict *)
(* between its Lookup and its Insert.  A thread only looks for files of a  *)
(* version it has pinned (Version::Ref), which are not obsolete.           *)
(***************************************************************************)
EXTENDS LRUCache

CONSTANTS TableUsers    \* the threads

VARIABLES
    user,     \* each thread: where it is, the file it wants, its handle
    removed   \* the files that were removed

tcVars == <<cacheVars, user, removed>>

Idler == [pc |-> "idle", file |-> 0, handle |-> 0]

Go(t, pc, handle) == user' = [user EXCEPT ![t].pc = pc, ![t].handle = handle]

\* A thread pins a version with the file, for Get, NewIterator or
\* GetRangeDeletions.
StartFind(t, f) ==
    /\ user[t].pc = "idle" /\ f \notin removed
    /\ user' = [user EXCEPT ![t].pc = "lookup", ![t].file = f]
    /\ UNCHANGED <<cacheVars, removed>>

\* FindTable: the table is in the cache, or not.
FindHit(t) ==
    /\ user[t].pc = "lookup"
    /\ Lookup(user[t].file)
    /\ Go(t, "use", table[user[t].file])
    /\ UNCHANGED removed

FindMiss(t) ==
    /\ user[t].pc = "lookup" /\ table[user[t].file] = 0
    /\ Go(t, "open", 0)
    /\ UNCHANGED <<cacheVars, removed>>

\* NewRandomAccessFile and Table::Open succeed, and the table is inserted
\* with charge 1 ...
OpenTable(t) ==
    /\ user[t].pc = "open"
    /\ \E e \in Entry : Insert(e, user[t].file, 1) /\ Go(t, "use", e)
    /\ UNCHANGED removed

\* ... or they fail: the error is not cached, and the thread gives up.
OpenFails(t) ==
    /\ user[t].pc = "open"
    /\ user' = [user EXCEPT ![t] = Idler]
    /\ UNCHANGED <<cacheVars, removed>>

\* Get or GetRangeDeletions ends, or the iterator is deleted (UnrefEntry).
Done(t) ==
    /\ user[t].pc = "use"
    /\ Release(user[t].handle)
    /\ user' = [user EXCEPT ![t] = Idler]
    /\ UNCHANGED removed

\* Mutant of Evict: the file goes, and its table stays.
EvictNothing(f) ==
    /\ f \notin removed /\ \A t \in TableUsers : user[t].file # f
    /\ removed' = removed \cup {f}
    /\ UNCHANGED <<cacheVars, user>>

\* RemoveObsoleteFiles: no version has the file any more.
Evict(f) ==
    /\ f \notin removed /\ \A t \in TableUsers : user[t].file # f
    /\ Erase(f) \/ (table[f] = 0 /\ UNCHANGED cacheVars)
    /\ removed' = removed \cup {f}
    /\ UNCHANGED user

TableCacheInit == CacheInit /\ user = [t \in TableUsers |-> Idler] /\ removed = {}

TableCacheNext ==
    \/ \E t \in TableUsers :
        \/ \E f \in CacheKeys : StartFind(t, f)
        \/ FindHit(t) \/ FindMiss(t) \/ OpenTable(t) \/ OpenFails(t) \/ Done(t)
    \/ \E f \in CacheKeys : Evict(f)

TableCacheSpec == TableCacheInit /\ [][TableCacheNext]_tcVars

-----------------------------------------------------------------------------
\* A thread that uses a table uses the one of its file, and no other thread's
\* insertion, eviction or release has closed it.  Once a file is removed, every
\* table that was opened for it is closed, also when two threads missed at
\* once and opened it twice.
TablesInUse ==
    /\ \A t \in TableUsers : user[t].pc = "use" =>
         keyOf[user[t].handle] = user[t].file /\ freed[user[t].handle] = 0
    /\ \A e \in Entry : keyOf[e] \in removed => freed[e] = 1
=============================================================================
