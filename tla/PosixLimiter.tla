---------------------------- MODULE PosixLimiter -----------------------------
(***************************************************************************)
(* The limits on memory maps and on open descriptors (util/env_posix.cc,   *)
(* Limiter), used by threads that open and delete random access files.  An *)
(* atomic read-modify-write of acquires_allowed_ is one step.              *)
(***************************************************************************)
EXTENDS Integers, FiniteSets

CONSTANTS
    LimiterThreads,
    Limiters,        \* mmap_limiter_ and fd_limiter_ ...
    mmap_limiter_,
    fd_limiter_,
    max_acquires_    \* ... and what they allow

ASSUME LimiterAssumption ==
    /\ IsFiniteSet(LimiterThreads)
    /\ Limiters = {mmap_limiter_, fd_limiter_} /\ mmap_limiter_ # fd_limiter_
    /\ max_acquires_ \in [Limiters -> Nat]

VARIABLES
    acquires_allowed_,  \* of each limiter
    file_pc,            \* where each thread is, ...
    limiter             \* ... and the limiter it uses or asks

limiterVars == <<acquires_allowed_, file_pc, limiter>>

PCs == {"idle", "acquire", "undo", "map", "release", "file", "unlimited"}

LimiterTypeOK ==
    /\ acquires_allowed_ \in [Limiters -> Int]
    /\ file_pc \in [LimiterThreads -> PCs]
    /\ limiter \in [LimiterThreads -> Limiters]

LimiterInit ==
    /\ acquires_allowed_ = max_acquires_
    /\ file_pc = [t \in LimiterThreads |-> "idle"]
    /\ limiter = [t \in LimiterThreads |-> mmap_limiter_]

GotoPC(t, pc) == file_pc' = [file_pc EXCEPT ![t] = pc]

\* NewRandomAccessFile: open(), and then mmap_limiter_.Acquire()
OpenFile(t) ==
    /\ file_pc[t] = "idle"
    /\ GotoPC(t, "acquire")
    /\ limiter' = [limiter EXCEPT ![t] = mmap_limiter_]
    /\ UNCHANGED acquires_allowed_

\* Mutant of FetchSub: the permit that is not there is granted.
FetchSubOne(t) ==
    LET l == limiter[t]
    IN  /\ file_pc[t] = "acquire"
        /\ acquires_allowed_' = [acquires_allowed_ EXCEPT ![l] = @ - 1]
        /\ GotoPC(t, IF acquires_allowed_[l] < 0 THEN "undo"
                     ELSE IF l = mmap_limiter_ THEN "map" ELSE "file")
        /\ UNCHANGED limiter

\* Acquire: fetch_sub, and if that was one too many, fetch_add.  A file that
\* may not be mapped asks for a descriptor; one that may not have a
\* descriptor is opened for every read.
FetchSub(t) ==
    LET l == limiter[t]
    IN  /\ file_pc[t] = "acquire"
        /\ acquires_allowed_' = [acquires_allowed_ EXCEPT ![l] = @ - 1]
        /\ GotoPC(t, IF acquires_allowed_[l] <= 0 THEN "undo"
                     ELSE IF l = mmap_limiter_ THEN "map" ELSE "file")
        /\ UNCHANGED limiter

FetchAdd(t) ==
    LET l == limiter[t]
    IN  /\ file_pc[t] = "undo"
        /\ acquires_allowed_' = [acquires_allowed_ EXCEPT ![l] = @ + 1]
        /\ GotoPC(t, IF l = mmap_limiter_ THEN "acquire" ELSE "unlimited")
        /\ limiter' = [limiter EXCEPT ![t] = fd_limiter_]

\* mmap(), which may fail
Map(t) ==
    /\ file_pc[t] = "map"
    /\ GotoPC(t, "file") \/ GotoPC(t, "release")
    /\ UNCHANGED <<acquires_allowed_, limiter>>

\* The destructors: munmap() or close(), and then Release
DeleteFile(t) ==
    /\ \/ file_pc[t] = "file" /\ GotoPC(t, "release")
       \/ file_pc[t] = "unlimited" /\ GotoPC(t, "idle")
    /\ UNCHANGED <<acquires_allowed_, limiter>>

ReleasePermit(t) ==
    LET l == limiter[t]
    IN  /\ file_pc[t] = "release"
        /\ acquires_allowed_' = [acquires_allowed_ EXCEPT ![l] = @ + 1]
        /\ GotoPC(t, "idle")
        /\ UNCHANGED limiter

LimiterNext ==
    \E t \in LimiterThreads :
        \/ OpenFile(t) \/ FetchSub(t) \/ FetchAdd(t) \/ Map(t)
        \/ DeleteFile(t) \/ ReleasePermit(t)

LimiterSpec == LimiterInit /\ [][LimiterNext]_limiterVars

\* The threads that have a permit of l, and those that took one too many
Permits(l) == {t \in LimiterThreads : limiter[t] = l /\ file_pc[t] \in {"map", "file", "release"}}
Excess(l) == {t \in LimiterThreads : limiter[t] = l /\ file_pc[t] = "undo"}

\* No permit is lost or invented, whatever the threads' order and whether
\* mmap() fails: the counter is what is left, at most max_acquires_ permits
\* are out, and the asserts in Acquire and Release hold (the counter is below
\* max_acquires_ whenever somebody is about to give back).
LimiterExact ==
    \A l \in Limiters :
        /\ acquires_allowed_[l] = max_acquires_[l] - Cardinality(Permits(l)) - Cardinality(Excess(l))
        /\ Cardinality(Permits(l)) <= max_acquires_[l]
        /\ \A t \in LimiterThreads :
             limiter[t] = l /\ file_pc[t] \in {"undo", "release"}
               => acquires_allowed_[l] < max_acquires_[l]
=============================================================================
