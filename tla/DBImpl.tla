------------------------------- MODULE DBImpl -------------------------------
(***************************************************************************)
(* The threads of one open database (db/db_impl.cc): writers in the write  *)
(* queue, readers, CompactRange and ForceFullCompaction callers, the       *)
(* destructor, and the background thread, over one mutex and the condition *)
(* variable background_work_finished_signal_.                              *)
(*                                                                         *)
(* pc[t] names the next piece of code of thread t.  A piece that needs the *)
(* mutex takes it if the thread does not hold it yet, and either keeps it  *)
(* (Hold) for the next piece or unlocks it at the end or in a wait; only   *)
(* the pieces that the code runs unlocked interleave with it.  Keys and    *)
(* tables are abstracted to the number of files of each level: what a      *)
(* compaction takes and leaves is any number the code may produce.         *)
(***************************************************************************)
EXTENDS Integers, Sequences, FiniteSets

CONSTANTS
    Writers, Compactors, FFCs, Readers, Closers,  \* disjoint sets of threads
    None, Bg,                \* no thread; the background thread
    MaxCalls,                \* bound on the calls of each thread
    IOErrors,                \* may operations of the environment fail?
    NumLevels,               \* config::kNumLevels
    MaxFiles,                \* bound on the files of a level > 0, and its size limit
    Scenarios,               \* which threads make calls, on how many level-0 files
    L0_CompactionTrigger, L0_SlowdownWritesTrigger, L0_StopWritesTrigger

Thread == Writers \cup Compactors \cup FFCs \cup Readers \cup Closers

ASSUME DBImplAssumption ==
    /\ None \notin Thread /\ Bg \notin Thread /\ None # Bg
    /\ Writers \cap (Compactors \cup FFCs \cup Readers \cup Closers) = {}
    /\ Compactors \cap (FFCs \cup Readers \cup Closers) = {}
    /\ FFCs \cap (Readers \cup Closers) = {} /\ Readers \cap Closers = {}
    /\ MaxCalls \in Nat /\ IOErrors \in BOOLEAN
    /\ NumLevels \in Nat /\ NumLevels > 1 /\ MaxFiles \in Nat \ {0}
    /\ Scenarios \subseteq [threads : SUBSET Thread, l0 : Nat]
    /\ L0_CompactionTrigger \in Nat /\ L0_SlowdownWritesTrigger \in Nat
    /\ L0_StopWritesTrigger \in Nat \ {0}

VARIABLES
    mutex,      \* mutex_: the thread that holds it, or None
    waiting,    \* threads in background_work_finished_signal_.Wait()
    asleep,     \* writers in w.cv.Wait()
    pc, calls,  \* thread -> next piece of code; thread -> calls made
    queue,      \* writers_
    sync,       \* thread -> Writer::sync
    done, ok,   \* thread -> Writer::done, and Writer::status is OK
    force, delay, \* the locals of MakeRoomForWrite, of the front writer
    group,      \* how many writers of the queue the front one writes for
    logged,     \* outcome of its log write: "ok", "fail" or "syncfail"
    dirty,      \* mem_ holds an entry
    memfull,    \* mem_ exceeds write_buffer_size
    imm,        \* imm_ != nullptr, and has_imm_
    err,        \* !bg_error_.ok()
    shutting, closed,  \* shutting_down_; the destructor has returned
    scheduled,  \* background_compaction_scheduled_
    manual,     \* the thread whose ManualCompaction manual_compaction_ is, or None
    mdone, mpart, \* its done field; may its range miss the files of the level?
    level, maxlevel, \* thread -> the locals of CompactRange, ForceFullCompaction
    ffc,        \* force_full_compaction_in_progress_
    nfiles,     \* level -> number of files in the current version
    seek,       \* file_to_compact_ != nullptr
    bgpc, job, bgok   \* the background thread: next piece, compaction, status

lockVars == <<mutex, waiting, asleep>>
callVars == <<pc, calls>>
writeVars == <<queue, sync, done, ok, force, delay, group, logged>>
memVars == <<dirty, memfull, imm>>
stateVars == <<err, shutting, closed>>
manualVars == <<scheduled, manual, mdone, mpart>>
fullVars == <<level, maxlevel, ffc>>
fileVars == <<nfiles, seek>>
bgVars == <<bgpc, job, bgok>>
vars == <<mutex, waiting, asleep, pc, calls, queue, sync, done, ok, force, delay,
          group, logged, dirty, memfull, imm, err, shutting, closed,
          scheduled, manual, mdone, mpart, level, maxlevel, ffc, nfiles, seek,
          bgpc, job, bgok>>

NullWriters == Compactors \cup FFCs   \* threads that call Write with no batch
Level == 0 .. NumLevels - 1
NoJob == [kind |-> "none", level |-> 0, n |-> 0, move |-> FALSE]
Jobs == [kind : {"auto", "manual"}, level : 0 .. NumLevels - 2, n : Nat, move : BOOLEAN]

\* CheckDatabaseUsable
Usable == ~err /\ ~shutting

\* ShouldWaitFullCompaction
ShouldWait == ffc /\ Usable

\* VersionSet::NeedsCompaction: the score of some level, or a seek file.
NeedsCompaction(nf, sk) ==
    \/ nf[0] >= L0_CompactionTrigger
    \/ \E l \in 1 .. NumLevels - 2 : nf[l] >= MaxFiles
    \/ sk

\* Mutants of MaybeSchedule: it overlooks the immutable memtable, a manual
\* compaction, or the flag of ForceFullCompaction.
MaybeScheduleNoImm(sched, e, f, i, m, nf, sk) ==
    \/ sched
    \/ ~shutting /\ ~e /\ ~(f /\ m = None) /\ (m # None \/ NeedsCompaction(nf, sk))
MaybeScheduleNoManual(sched, e, f, i, m, nf, sk) ==
    \/ sched
    \/ ~shutting /\ ~e /\ ~(f /\ ~i) /\ (i \/ NeedsCompaction(nf, sk))
MaybeScheduleNoFlag(sched, e, f, i, m, nf, sk) ==
    \/ sched
    \/ ~shutting /\ ~e /\ (i \/ m # None \/ NeedsCompaction(nf, sk))

\* MaybeScheduleCompaction: the new value of background_compaction_scheduled_.
MaybeSchedule(sched, e, f, i, m, nf, sk) ==
    \/ sched
    \/ /\ ~shutting /\ ~e
       /\ ~(f /\ ~i /\ m = None)
       /\ i \/ m # None \/ NeedsCompaction(nf, sk)

-----------------------------------------------------------------------------
(***************************************************************************)
(* The mutex and the condition variable.                                   *)
(***************************************************************************)
At(t, l) ==
    /\ ~closed
    /\ mutex \in {None, t}
    /\ t \notin waiting /\ t \notin asleep
    /\ pc[t] = l
Goto(t, l) == pc' = [pc EXCEPT ![t] = l]
Hold(t) == mutex' = t
Unlock == mutex' = None

\* Mutant of SignalAll: Signal wakes one thread only.
SignalOne == waiting' = IF waiting = {} THEN {} ELSE waiting \ {CHOOSE t \in waiting : TRUE}

SignalAll == waiting' = {}

\* background_work_finished_signal_.Wait(): the loop is entered again at the
\* same place once the thread is signalled.
Wait(t) ==
    /\ waiting' = waiting \cup {t}
    /\ Unlock
    /\ UNCHANGED <<asleep, callVars, writeVars, memVars, stateVars, manualVars,
                   fullVars, fileVars, bgVars>>

-----------------------------------------------------------------------------
(***************************************************************************)
(* The calls.  The client makes none once it deletes the database.  It     *)
(* deletes it only when its other calls have returned, as with any object, *)
(* except ForceFullCompaction: the destructor says that it waits for that. *)
(***************************************************************************)
Call(t, l) ==
    /\ ~closed
    /\ pc[t] = "idle" /\ calls[t] < MaxCalls
    /\ \A c \in Closers : pc[c] = "idle"
    /\ calls' = [calls EXCEPT ![t] = @ + 1]
    /\ Goto(t, l)
    /\ UNCHANGED <<lockVars, queue, done, ok, force, delay, group, logged, dirty,
                   memfull, imm, stateVars, manualVars, fullVars, fileVars, bgVars>>

CallWrite(t) ==
    /\ t \in Writers
    /\ Call(t, "gate")
    /\ \E s \in BOOLEAN : sync' = [sync EXCEPT ![t] = s]

CallCompactRange(t) ==
    /\ t \in Compactors
    /\ Call(t, "maxlevel")
    /\ UNCHANGED sync

CallForceFullCompaction(t) ==
    /\ t \in FFCs
    /\ Call(t, "gate")
    /\ sync' = [sync EXCEPT ![t] = TRUE]

CallGet(t) ==
    /\ t \in Readers
    /\ Call(t, "read")
    /\ UNCHANGED sync

CallClose(t) ==
    /\ t \in Closers
    /\ \A u \in Thread \ FFCs : pc[u] = "idle"
    /\ Call(t, "close")
    /\ UNCHANGED sync

-----------------------------------------------------------------------------
(***************************************************************************)
(* DBImpl::Write.                                                          *)
(***************************************************************************)
\* Where a thread goes on when its Write returns: TEST_CompactMemTable and
\* FlushedMemTable wait for the flush; on an error CompactRange goes on to its
\* first level and ForceFullCompaction returns.
AfterWrite(t, s) ==
    IF t \in NullWriters /\ s THEN "flushed"
    ELSE IF t \in Compactors THEN "manual" ELSE "idle"

\* Mutant of Woken: the new front of the queue is not signalled.
WokenNoFront(members, rest) == members

\* The writers that are signalled when the members of a group leave the queue.
Woken(members, rest) == members \cup (IF rest = <<>> THEN {} ELSE {Head(rest)})

\* The end of Write by the front writer t with status s: the first n writers
\* leave the queue with that status, the next one is signalled.  The locals of
\* the call that has ended take their initial values again.
PopGroup(t, n, s) ==
    LET members == {queue[i] : i \in 1 .. n}
        rest == SubSeq(queue, n + 1, Len(queue))
    IN  /\ queue' = rest
        /\ done' = [x \in Thread |-> done[x] \/ (x \in members /\ x # t)]
        /\ ok' = [x \in Thread |-> IF x \in members /\ x # t THEN s ELSE ok[x]]
        /\ sync' = [x \in Thread |-> x \notin members /\ sync[x]]
        /\ force' = FALSE /\ delay' = FALSE /\ group' = 0 /\ logged' = "ok"
        /\ asleep' = asleep \ Woken(members, rest)
        /\ SignalAll
        /\ Unlock
        /\ Goto(t, AfterWrite(t, s))

\* New writes with a batch wait while ForceFullCompaction runs.
Gate(t) ==
    /\ At(t, "gate")
    /\ IF t \in Writers /\ ShouldWait
       THEN Wait(t)
       ELSE /\ queue' = Append(queue, t)
            /\ done' = [done EXCEPT ![t] = FALSE]
            /\ Goto(t, "turn")
            /\ Hold(t)
            /\ UNCHANGED <<waiting, asleep, calls, sync, ok, force, delay, group, logged, memVars,
                           stateVars, manualVars, fullVars, fileVars, bgVars>>

\* Mutant of InFront: a writer goes on whenever it is awake.
InFrontAlways(t) == TRUE

InFront(t) == t = Head(queue)

\* Wait in w.cv until another writer has written the batch or w is in front.
Turn(t) ==
    /\ At(t, "turn")
    /\ \/ /\ done[t]
          /\ Goto(t, AfterWrite(t, ok[t]))
          /\ done' = [done EXCEPT ![t] = FALSE]
          /\ ok' = [ok EXCEPT ![t] = TRUE]
          /\ Unlock
          /\ UNCHANGED <<asleep, force, delay>>
       \/ /\ ~done[t] /\ InFront(t)
          /\ Goto(t, "room")
          /\ force' = (t \in NullWriters)
          /\ delay' = (t \notin NullWriters)
          /\ Hold(t)
          /\ UNCHANGED <<asleep, done, ok>>
       \/ /\ ~done[t] /\ ~InFront(t)
          /\ asleep' = asleep \cup {t}
          /\ Unlock
          /\ UNCHANGED <<pc, done, ok, force, delay>>
    /\ UNCHANGED <<waiting, calls, queue, sync, group, logged, memVars,
                   stateVars, manualVars, fullVars, fileVars, bgVars>>

\* MakeRoomForWrite, one action per branch of its loop.
Delayed == delay /\ nfiles[0] >= L0_SlowdownWritesTrigger
Room(t) == At(t, "room") /\ ~err /\ ~Delayed

\* Mutant of TooManyL0: one file more.
TooManyL0Off == nfiles[0] > L0_StopWritesTrigger

TooManyL0 == nfiles[0] >= L0_StopWritesTrigger

RoomError(t) ==
    /\ At(t, "room") /\ err
    /\ PopGroup(t, 1, FALSE)
    /\ UNCHANGED <<calls, memVars, stateVars, manualVars, fullVars, fileVars, bgVars>>

RoomDelay(t) ==
    /\ At(t, "room") /\ ~err /\ Delayed
    /\ Goto(t, "sleep")
    /\ Unlock
    /\ UNCHANGED <<waiting, asleep, calls, writeVars, memVars, stateVars, manualVars,
                   fullVars, fileVars, bgVars>>

SleepForMicroseconds(t) ==
    /\ ~closed /\ pc[t] = "sleep"
    /\ delay' = FALSE
    /\ Goto(t, "room")
    /\ UNCHANGED <<lockVars, calls, queue, sync, done, ok, force, group, logged, memVars,
                   stateVars, manualVars, fullVars, fileVars, bgVars>>

\* Mutant of Excluded: a sync write joins any group.
ExcludedNever(t, i) == FALSE

\* A sync write is not included into a batch handled by a non-sync write.
Excluded(t, i) == sync[queue[i]] /\ ~sync[t]

\* BuildBatchGroup: how many writers of the queue the front writer may write
\* for.  The group ends before an excluded write, and it may end before any
\* batch that makes it too big.
BuildBatchGroup(t) ==
    {n \in 1 .. Len(queue) :
        /\ \A i \in 2 .. n : ~Excluded(t, i)
        /\ \/ n = Len(queue)
           \/ Excluded(t, n + 1)
           \/ queue[n + 1] \in Writers}

\* There is room.  A Write without a batch is over; the others build a group
\* and unlock to write it.
RoomReady(t) ==
    /\ Room(t) /\ ~force /\ ~memfull
    /\ \/ /\ t \in NullWriters
          /\ PopGroup(t, 1, TRUE)
       \/ /\ t \in Writers
          /\ group' \in BuildBatchGroup(t)
          /\ delay' = FALSE
          /\ Goto(t, "log")
          /\ Unlock
          /\ UNCHANGED <<waiting, asleep, queue, sync, done, ok, force, logged>>
    /\ UNCHANGED <<calls, memVars, stateVars, manualVars, fullVars, fileVars, bgVars>>

RoomWait(t) ==
    /\ Room(t) /\ (force \/ memfull)
    /\ imm \/ TooManyL0
    /\ Wait(t)

\* The switch to a new log and a new memtable.  The new log may not open, in
\* which case the write fails; the old one may not close, which is recorded
\* as a background error after the switch.
RoomSwitch(t) ==
    /\ Room(t) /\ (force \/ memfull)
    /\ ~imm /\ ~TooManyL0
    /\ \/ /\ IOErrors
          /\ PopGroup(t, 1, FALSE)
          /\ UNCHANGED <<memVars, err, scheduled>>
       \/ /\ err' \in {FALSE, IOErrors}
          /\ waiting' = IF err' THEN {} ELSE waiting
          /\ imm' = TRUE /\ dirty' = FALSE /\ memfull' = FALSE
          /\ force' = FALSE
          /\ scheduled' = MaybeSchedule(scheduled, err', ffc, TRUE, manual, nfiles, seek)
          /\ Hold(t)
          /\ UNCHANGED <<asleep, pc, queue, sync, done, ok, delay, group, logged>>
    /\ UNCHANGED <<calls, shutting, closed, manual, mdone, mpart, fullVars, fileVars,
                   bgVars>>

\* The unlocked part: AddRecord, Sync if the front write is sync, InsertInto.
WriteLog(t) ==
    /\ ~closed /\ pc[t] = "log"
    /\ Goto(t, "logged")
    /\ \/ /\ logged' = "ok"
          /\ dirty' = TRUE
          /\ memfull' \in {memfull, TRUE}
       \/ /\ IOErrors
          /\ logged' \in {"fail"} \cup (IF sync[t] THEN {"syncfail"} ELSE {})
          /\ UNCHANGED <<dirty, memfull>>
    /\ UNCHANGED <<lockVars, calls, queue, sync, done, ok, force, delay, group, imm,
                   stateVars, manualVars, fullVars, fileVars, bgVars>>

Logged(t) ==
    /\ At(t, "logged")
    /\ err' = (err \/ logged = "syncfail")
    /\ PopGroup(t, group, logged = "ok")
    /\ UNCHANGED <<calls, memVars, shutting, closed, manualVars, fullVars, fileVars,
                   bgVars>>

-----------------------------------------------------------------------------
(***************************************************************************)
(* CompactRange and ForceFullCompaction.                                   *)
(***************************************************************************)
\* CompactRange first looks for the deepest level its range overlaps;
\* ForceFullCompaction, once it holds the flag, for the deepest with files.
MaxLevel(t) ==
    /\ At(t, "maxlevel")
    /\ LET full == {l \in Level : nfiles[l] > 0}
       IN  IF t \in Compactors
           THEN /\ \E m \in {1} \cup (full \ {0}) : maxlevel' = [maxlevel EXCEPT ![t] = m]
                /\ Goto(t, "gate")
           ELSE /\ \E m \in IF full = {} THEN {-1} ELSE full :
                     /\ \A l \in full : l <= m
                     /\ maxlevel' = [maxlevel EXCEPT ![t] = m]
                /\ Goto(t, IF full = {} THEN "finish" ELSE "level")
    /\ Unlock
    /\ UNCHANGED <<waiting, asleep, calls, writeVars, memVars, stateVars, manualVars,
                   level, ffc, fileVars, bgVars>>

\* The wait for the flush in TEST_CompactMemTable and FlushedMemTable.
\* CompactRange ignores its outcome.
Flushed(t) ==
    /\ At(t, "flushed")
    /\ IF imm /\ Usable
       THEN Wait(t)
       ELSE /\ Goto(t, IF t \in Compactors THEN "manual"
                       ELSE IF Usable THEN "lockdown" ELSE "idle")
            /\ Unlock
            /\ UNCHANGED <<waiting, asleep, calls, writeVars, memVars, stateVars,
                           manualVars, fullVars, fileVars, bgVars>>

\* Mutant of Lockdown: the flag is set even if another thread has set it.
LockdownNoWait(t) ==
    /\ At(t, "lockdown")
    /\ ffc' = TRUE
    /\ Goto(t, "drain")
    /\ Hold(t)
    /\ UNCHANGED <<waiting, asleep, calls, writeVars, memVars, stateVars, manualVars,
                   level, maxlevel, fileVars, bgVars>>

\* One ForceFullCompaction at a time.
Lockdown(t) ==
    /\ At(t, "lockdown")
    /\ IF ffc
       THEN Wait(t)
       ELSE /\ ffc' = TRUE
            /\ Goto(t, "drain")
            /\ Hold(t)
            /\ UNCHANGED <<waiting, asleep, calls, writeVars, memVars, stateVars, manualVars,
                           level, maxlevel, fileVars, bgVars>>

\* Wait for background work to clear out; give the flag back on an error.
Drain(t) ==
    /\ At(t, "drain")
    /\ IF (scheduled \/ manual # None) /\ Usable
       THEN Wait(t)
       ELSE /\ IF Usable
               THEN Goto(t, "maxlevel") /\ UNCHANGED <<ffc, waiting>>
               ELSE Goto(t, "idle") /\ ffc' = FALSE /\ SignalAll
            /\ Unlock
            /\ UNCHANGED <<asleep, calls, writeVars, memVars, stateVars, manualVars,
                           level, maxlevel, fileVars, bgVars>>

\* The next level of ForceFullCompaction's loop.
NextLevel(t, l) == IF l <= maxlevel[t] /\ l < NumLevels - 1 THEN "level" ELSE "finish"

FullLevel(t) ==
    /\ At(t, "level")
    /\ \/ /\ Usable /\ nfiles[level[t]] = 0
          /\ level' = [level EXCEPT ![t] = @ + 1]
          /\ Goto(t, NextLevel(t, level[t] + 1))
       \/ /\ ~Usable \/ (nfiles[level[t]] > 0 /\ level[t] = maxlevel[t] /\ level[t] > 0)
          /\ Goto(t, "finish")
          /\ UNCHANGED level
       \/ /\ Usable /\ nfiles[level[t]] > 0
          /\ ~(level[t] = maxlevel[t] /\ level[t] > 0)
          /\ Goto(t, "manual")
          /\ UNCHANGED level
    /\ Unlock
    /\ UNCHANGED <<waiting, asleep, calls, writeVars, memVars, stateVars, manualVars,
                   maxlevel, ffc, fileVars, bgVars>>

\* The first loop of TEST_CompactRange and CompactWholeLevel: publish the
\* request when no other one is pending, and wait until it is done.
Manual(t) ==
    /\ At(t, "manual")
    /\ IF ~mdone[t] /\ Usable
       THEN /\ manual' = IF manual = None THEN t ELSE manual
            /\ scheduled' = IF manual = None
                            THEN MaybeSchedule(scheduled, err, ffc, imm, t, nfiles, seek)
                            ELSE scheduled
            /\ waiting' = waiting \cup {t}
            /\ Unlock
            /\ UNCHANGED pc
       ELSE /\ Goto(t, "bgwait")
            /\ Hold(t)
            /\ UNCHANGED <<waiting, scheduled, manual>>
    /\ UNCHANGED <<asleep, calls, writeVars, memVars, stateVars, mdone, mpart, fullVars,
                   fileVars, bgVars>>

\* Mutant of Cancel: the request stays published.
CancelNot(t) == manual

\* A request that nobody served is cancelled.
Cancel(t) == IF manual = t THEN None ELSE manual

\* Mutant of MoreLevels: CompactRange takes the deepest level too.
MoreLevelsOff(t, l) == l <= maxlevel[t]

\* The next level of CompactRange's loop.
MoreLevels(t, l) == l < maxlevel[t]

\* The second loop, the cancellation, and the step to the next level.
BgWait(t) ==
    /\ At(t, "bgwait")
    /\ IF scheduled
       THEN Wait(t)
       ELSE /\ manual' = Cancel(t)
            /\ mdone' = [mdone EXCEPT ![t] = FALSE]
            /\ mpart' = [mpart EXCEPT ![t] = t \in Compactors]
            /\ IF t \in FFCs
               THEN /\ Goto(t, IF Usable THEN NextLevel(t, level[t] + 1) ELSE "finish")
                    /\ level' = [level EXCEPT ![t] = @ + 1]
               ELSE IF MoreLevels(t, level[t] + 1)
               THEN Goto(t, "manual") /\ level' = [level EXCEPT ![t] = @ + 1]
               ELSE Goto(t, "idle") /\ level' = [level EXCEPT ![t] = 0]
            /\ Unlock
            /\ UNCHANGED <<waiting, asleep, calls, writeVars, memVars, stateVars, scheduled,
                           maxlevel, ffc, fileVars, bgVars>>

\* FinishFullCompaction
Finish(t) ==
    /\ At(t, "finish")
    /\ ffc' = FALSE
    /\ SignalAll
    /\ level' = [level EXCEPT ![t] = 0]
    /\ Goto(t, "idle")
    /\ Unlock
    /\ UNCHANGED <<asleep, calls, writeVars, memVars, stateVars, manualVars, maxlevel,
                   fileVars, bgVars>>

-----------------------------------------------------------------------------
(***************************************************************************)
(* Get, with the wait at its start and the seek statistics at its end, and *)
(* the destructor.                                                         *)
(***************************************************************************)
Read(t) ==
    /\ At(t, "read")
    /\ IF ShouldWait
       THEN Wait(t)
       ELSE /\ Goto(t, "readdone")
            /\ Unlock
            /\ UNCHANGED <<waiting, asleep, calls, writeVars, memVars, stateVars,
                           manualVars, fullVars, fileVars, bgVars>>

\* UpdateStats charges a seek only to a file with another one below it.
ReadDone(t) ==
    /\ At(t, "readdone")
    /\ \/ /\ ~seek /\ \E l \in 0 .. NumLevels - 2 : nfiles[l] > 0
          /\ seek' = TRUE
          /\ scheduled' = MaybeSchedule(scheduled, err, ffc, imm, manual, nfiles, TRUE)
       \/ UNCHANGED <<seek, scheduled>>
    /\ Goto(t, "idle")
    /\ Unlock
    /\ UNCHANGED <<waiting, asleep, calls, writeVars, memVars, stateVars, manual, mdone,
                   mpart, fullVars, nfiles, bgVars>>

Close(t) ==
    /\ At(t, "close")
    /\ shutting' = TRUE
    /\ Goto(t, "closing")
    /\ Hold(t)
    /\ UNCHANGED <<waiting, asleep, calls, writeVars, memVars, err, closed, manualVars,
                   fullVars, fileVars, bgVars>>

\* Mutant of Closing: the destructor only waits for the full compaction.
ClosingNoWait(t) ==
    /\ At(t, "closing")
    /\ ~ffc
    /\ closed' = TRUE
    /\ Goto(t, "idle")
    /\ Unlock
    /\ UNCHANGED <<waiting, asleep, calls, writeVars, memVars, err, shutting,
                   manualVars, fullVars, fileVars, bgVars>>

\* The destructor waits for background work and for the full compaction, and
\* then frees the state.
Closing(t) ==
    /\ At(t, "closing")
    /\ IF scheduled \/ ffc
       THEN Wait(t)
       ELSE /\ closed' = TRUE
            /\ Goto(t, "idle")
            /\ Unlock
            /\ UNCHANGED <<waiting, asleep, calls, writeVars, memVars, err, shutting,
                           manualVars, fullVars, fileVars, bgVars>>

-----------------------------------------------------------------------------
(***************************************************************************)
(* The background thread: BackgroundCall, BackgroundCompaction,            *)
(* CompactMemTable and DoCompactionWork.                                   *)
(***************************************************************************)
BgAt(l) == ~closed /\ mutex \in {None, Bg} /\ bgpc = l
Started == BgAt("none") /\ scheduled

\* No background work when shutting down or after an error.
BgSkip ==
    /\ Started /\ ~Usable
    /\ bgpc' = "end"
    /\ Hold(Bg)
    /\ UNCHANGED <<waiting, asleep, callVars, writeVars, memVars, stateVars, manualVars,
                   fullVars, fileVars, job, bgok>>

\* A pending memtable comes first.
BgFlush ==
    /\ Started /\ Usable /\ imm
    /\ bgpc' = "build"
    /\ Unlock
    /\ UNCHANGED <<waiting, asleep, callVars, writeVars, memVars, stateVars, manualVars,
                   fullVars, fileVars, job, bgok>>

\* Begin compaction c.  A trivial move goes straight to the manifest.
StartJob(c) ==
    /\ job' = c
    /\ bgok' = TRUE
    /\ bgpc' = IF c.move THEN "clog" ELSE "work"
    /\ Unlock
    /\ UNCHANGED <<waiting, asleep>>

\* A manual compaction: VersionSet::CompactRange finds no file and the
\* request is done, or it finds some.  Without bounds it takes level 0 whole.
BgManual ==
    /\ Started /\ Usable /\ ~imm /\ manual # None
    /\ LET l == level[manual]
       IN  \/ /\ nfiles[l] = 0 \/ mpart[manual]
              /\ mdone' = [mdone EXCEPT ![manual] = TRUE]
              /\ manual' = None
              /\ bgpc' = "end"
              /\ Hold(Bg)
              /\ UNCHANGED <<waiting, asleep, job, bgok>>
           \/ /\ nfiles[l] > 0
              /\ \E n \in 1 .. nfiles[l], mv \in BOOLEAN :
                   /\ l = 0 /\ ~mpart[manual] => n = nfiles[0]
                   /\ mv => ffc /\ n = 1
                   /\ StartJob([kind |-> "manual", level |-> l, n |-> n, move |-> mv])
              /\ UNCHANGED <<mdone, manual>>
    /\ UNCHANGED <<callVars, writeVars, memVars, stateVars, scheduled, mpart, fullVars,
                   fileVars>>

\* PickCompaction: a level whose score asks for it, else the seek file.
BgAuto ==
    /\ Started /\ Usable /\ ~imm /\ manual = None
    /\ LET bySize == {l \in 0 .. NumLevels - 2 :
                        nfiles[l] >= IF l = 0 THEN L0_CompactionTrigger ELSE MaxFiles}
           bySeek == IF seek THEN 0 .. NumLevels - 2 ELSE {}
           levels == {l \in IF bySize # {} THEN bySize ELSE bySeek : nfiles[l] > 0}
       IN  IF levels = {}
           THEN bgpc' = "end" /\ Hold(Bg) /\ UNCHANGED <<waiting, asleep, job, bgok>>
           ELSE \E l \in levels : \E n \in 1 .. nfiles[l], mv \in BOOLEAN :
                  /\ mv => n = 1
                  /\ StartJob([kind |-> "auto", level |-> l, n |-> n, move |-> mv])
    /\ UNCHANGED <<callVars, writeVars, memVars, stateVars, manualVars, fullVars, fileVars>>

\* An unlocked step that the environment may fail.
Unlocked(from, to) ==
    /\ ~closed /\ bgpc = from
    /\ bgok' \in {TRUE, ~IOErrors}
    /\ bgpc' = to
    /\ UNCHANGED <<lockVars, callVars, writeVars, memVars, stateVars, manualVars,
                   fullVars, fileVars, job>>

\* RecordBackgroundError, then the piece l with the mutex still held.
Fail(l) ==
    /\ err' = TRUE
    /\ waiting' = IF err THEN waiting ELSE {}
    /\ bgpc' = l
    /\ Hold(Bg)

\* WriteLevel0Table builds the table without the mutex.
BuildTable == Unlocked("build", "built")

Built ==
    /\ BgAt("built")
    /\ IF bgok /\ ~shutting
       THEN bgpc' = "flog" /\ Unlock /\ UNCHANGED <<waiting, err>>
       ELSE Fail("fdone")
    /\ UNCHANGED <<asleep, callVars, writeVars, memVars, shutting, closed, manualVars,
                   fullVars, fileVars, job, bgok>>

\* LogAndApply writes the manifest without the mutex.
LogFlush == Unlocked("flog", "flogged")

\* The new version has the table at level 0 or, if it overlaps nothing, at
\* one of the next two; an empty memtable leaves no table.
FlushedToLevel ==
    \/ \E l \in {0, 1, 2} \cap Level :
         /\ l = 0 \/ nfiles[l] < MaxFiles
         /\ nfiles' = [nfiles EXCEPT ![l] = @ + 1]
    \/ nfiles' = nfiles

\* imm_ is gone, and RemoveObsoleteFiles unlocks to delete files.
ApplyFlush ==
    /\ BgAt("flogged")
    /\ IF bgok
       THEN /\ FlushedToLevel
            /\ seek' = FALSE
            /\ imm' = FALSE
            /\ bgpc' = "fdone"
            /\ mutex' = IF err THEN Bg ELSE None
            /\ UNCHANGED <<waiting, err>>
       ELSE Fail("fdone") /\ UNCHANGED <<fileVars, imm>>
    /\ UNCHANGED <<asleep, callVars, writeVars, dirty, memfull, shutting, closed,
                   manualVars, fullVars, job, bgok>>

\* The end of CompactMemTable: back to BackgroundCall, or, inside
\* DoCompactionWork, wake the writers and go on with the compaction.
FlushDone ==
    /\ BgAt("fdone")
    /\ IF job = NoJob
       THEN bgpc' = "end" /\ Hold(Bg) /\ UNCHANGED waiting
       ELSE bgpc' = "work" /\ Unlock /\ SignalAll
    /\ bgok' = TRUE
    /\ UNCHANGED <<asleep, callVars, writeVars, memVars, stateVars, manualVars, fullVars,
                   fileVars, job>>

\* DoCompactionWork stops for an immutable memtable.
WorkFlush ==
    /\ BgAt("work") /\ imm
    /\ bgpc' = "build"
    /\ Unlock
    /\ UNCHANGED <<waiting, asleep, callVars, writeVars, memVars, stateVars, manualVars,
                   fullVars, fileVars, job, bgok>>

\* The end of its loop.  It fails if it sees shutting_down_.
WorkEnd ==
    /\ ~closed /\ bgpc = "work"
    /\ bgok' \in {~shutting, ~shutting /\ ~IOErrors}
    /\ bgpc' = "worked"
    /\ UNCHANGED <<lockVars, callVars, writeVars, memVars, stateVars, manualVars,
                   fullVars, fileVars, job>>

Worked ==
    /\ BgAt("worked")
    /\ IF bgok
       THEN bgpc' = "clog" /\ Unlock /\ UNCHANGED <<waiting, err>>
       ELSE Fail("cdone")
    /\ UNCHANGED <<asleep, callVars, writeVars, memVars, shutting, closed, manualVars,
                   fullVars, fileVars, job, bgok>>

LogCompaction == Unlocked("clog", "clogged")

\* InstallCompactionResults: the inputs are gone, and the next level has any
\* number of files, one more after a move.
ApplyCompaction ==
    /\ BgAt("clogged")
    /\ IF bgok
       THEN /\ \E m \in 0 .. MaxFiles :
                 /\ job.move => m = IF nfiles[job.level + 1] < MaxFiles
                                    THEN nfiles[job.level + 1] + 1 ELSE MaxFiles
                 /\ nfiles' = [nfiles EXCEPT ![job.level] = @ - job.n, ![job.level + 1] = m]
            /\ seek' = FALSE
            /\ bgpc' = "cdone"
            /\ mutex' = IF job.move \/ err THEN Bg ELSE None
            /\ UNCHANGED <<waiting, err>>
       ELSE Fail("cdone") /\ UNCHANGED fileVars
    /\ UNCHANGED <<asleep, callVars, writeVars, memVars, shutting, closed, manualVars,
                   fullVars, job, bgok>>

\* The end of BackgroundCompaction: a manual request is done if it failed,
\* else it goes on after the part that was compacted.  Either way it is
\* withdrawn, for its owner to publish again.
CompactionDone ==
    /\ BgAt("cdone")
    /\ IF job.kind = "manual"
       THEN /\ mdone' = [mdone EXCEPT ![manual] = @ \/ ~bgok]
            /\ mpart' = [mpart EXCEPT ![manual] = TRUE]
            /\ manual' = None
       ELSE UNCHANGED <<mdone, mpart, manual>>
    /\ job' = NoJob
    /\ bgok' = TRUE
    /\ bgpc' = "end"
    /\ Hold(Bg)
    /\ UNCHANGED <<waiting, asleep, callVars, writeVars, memVars, stateVars, scheduled, fullVars,
                   fileVars>>

\* The end of BackgroundCall.
BgEnd ==
    /\ BgAt("end")
    /\ scheduled' = MaybeSchedule(FALSE, err, ffc, imm, manual, nfiles, seek)
    /\ SignalAll
    /\ bgpc' = "none"
    /\ Unlock
    /\ UNCHANGED <<asleep, callVars, writeVars, memVars, stateVars, manual, mdone, mpart,
                   fullVars, fileVars, job, bgok>>

-----------------------------------------------------------------------------
\* A database that DB::Open has recovered from its logs: RecoverLogFile adds
\* any number of tables to level 0.  Open ends with MaybeScheduleCompaction.
Init ==
    /\ mutex = None /\ waiting = {} /\ asleep = {}
    /\ pc = [t \in Thread |-> "idle"]
    /\ queue = <<>> /\ sync = [t \in Thread |-> FALSE]
    /\ done = [t \in Thread |-> FALSE] /\ ok = [t \in Thread |-> TRUE]
    /\ force = FALSE /\ delay = FALSE /\ group = 0 /\ logged = "ok"
    /\ dirty = FALSE /\ memfull = FALSE /\ imm = FALSE
    /\ err = FALSE /\ shutting = FALSE /\ closed = FALSE
    /\ manual = None
    /\ mdone = [t \in Thread |-> FALSE] /\ mpart = [t \in Thread |-> t \in Compactors]
    /\ level = [t \in Thread |-> 0] /\ maxlevel = [t \in Thread |-> -1]
    /\ ffc = FALSE
    /\ \E s \in Scenarios :
        /\ calls = [t \in Thread |-> IF t \in s.threads THEN 0 ELSE MaxCalls]
        /\ nfiles = [l \in Level |-> IF l = 0 THEN s.l0 ELSE 0]
    /\ seek = FALSE
    /\ scheduled = MaybeSchedule(FALSE, FALSE, FALSE, FALSE, None, nfiles, FALSE)
    /\ bgpc = "none" /\ job = NoJob /\ bgok = TRUE

Calls(t) ==
    CallWrite(t) \/ CallCompactRange(t) \/ CallForceFullCompaction(t) \/ CallGet(t) \/ CallClose(t)

ThreadStep(t) ==
    \/ Gate(t) \/ Turn(t)
    \/ RoomError(t) \/ RoomDelay(t) \/ SleepForMicroseconds(t) \/ RoomReady(t)
    \/ RoomWait(t) \/ RoomSwitch(t) \/ WriteLog(t) \/ Logged(t)
    \/ MaxLevel(t) \/ Flushed(t) \/ Lockdown(t) \/ Drain(t) \/ FullLevel(t)
    \/ Manual(t) \/ BgWait(t) \/ Finish(t)
    \/ Read(t) \/ ReadDone(t) \/ Close(t) \/ Closing(t)

BgStep ==
    \/ BgSkip \/ BgFlush \/ BgManual \/ BgAuto
    \/ BuildTable \/ Built \/ LogFlush \/ ApplyFlush \/ FlushDone
    \/ WorkFlush \/ WorkEnd \/ Worked \/ LogCompaction \/ ApplyCompaction
    \/ CompactionDone \/ BgEnd

Next == (\E t \in Thread : Calls(t) \/ ThreadStep(t)) \/ BgStep

Spec == Init /\ [][Next]_vars

\* A thread in a call, and the background thread, go on when they can.
\* DoCompactionWork tries a flush that fails again before every key of its
\* input, and its input is finite.
Fairness ==
    /\ \A t \in Thread : WF_vars(ThreadStep(t))
    /\ WF_vars(BgStep)
    /\ SF_vars(WorkEnd)
FairSpec == Spec /\ Fairness

-----------------------------------------------------------------------------
(***************************************************************************)
(* Properties.                                                             *)
(***************************************************************************)
Pieces == {"idle", "gate", "turn", "room", "sleep", "log", "logged", "flushed",
           "maxlevel", "level", "manual", "bgwait", "lockdown", "drain", "finish",
           "read", "readdone", "close", "closing"}
BgPieces == {"none", "build", "built", "flog", "flogged", "fdone", "work", "worked",
             "clog", "clogged", "cdone", "end"}
InWrite == {"room", "sleep", "log", "logged"}
FullPcs == {"drain", "maxlevel", "level", "manual", "bgwait", "finish"}

\* Type invariant: the fields of DBImpl and the locals of the calls.  A level
\* that a compaction is asked for has a next one (the asserts at the start of
\* TEST_CompactRange and CompactWholeLevel).
TypeOK ==
    /\ mutex \in Thread \cup {None, Bg}
    /\ waiting \subseteq Thread /\ asleep \subseteq Thread
    /\ pc \in [Thread -> Pieces]
    /\ calls \in [Thread -> 0 .. MaxCalls]
    /\ queue \in Seq(Thread) /\ sync \in [Thread -> BOOLEAN]
    /\ done \in [Thread -> BOOLEAN] /\ ok \in [Thread -> BOOLEAN]
    /\ force \in BOOLEAN /\ delay \in BOOLEAN /\ group \in Nat
    /\ logged \in {"ok", "fail", "syncfail"}
    /\ dirty \in BOOLEAN /\ memfull \in BOOLEAN /\ imm \in BOOLEAN
    /\ err \in BOOLEAN /\ shutting \in BOOLEAN /\ closed \in BOOLEAN
    /\ scheduled \in BOOLEAN /\ manual \in Thread \cup {None}
    /\ mdone \in [Thread -> BOOLEAN] /\ mpart \in [Thread -> BOOLEAN]
    /\ level \in [Thread -> Nat] /\ maxlevel \in [Thread -> Level \cup {-1}]
    /\ ffc \in BOOLEAN
    /\ nfiles \in [Level -> Nat] /\ seek \in BOOLEAN
    /\ bgpc \in BgPieces
    /\ job \in Jobs \cup {NoJob} /\ bgok \in BOOLEAN

\* Write unlocks the mutex to log and to insert because "&w is currently
\* responsible for logging and protects against concurrent loggers and
\* concurrent writes into mem_": whoever is in MakeRoomForWrite or past it is
\* the front of writers_, however the groups before it were popped.
OneLogger == \A t \in Thread : pc[t] \in InWrite => queue # <<>> /\ t = Head(queue)

\* mem_ is used without the mutex by InsertInto: no step of another thread
\* switches or fills it in the meantime.
MemStable ==
    [][(\E t \in Thread : pc[t] = "log" /\ pc'[t] = "log")
        => UNCHANGED <<dirty, memfull>> /\ (imm' => imm)]_vars

\* A writer asleep in w.cv has really nothing to do: its batch is not written
\* and it is not at the front, so the signal that ends its sleep is still to
\* come from the writer that pops it or makes it the front.
NoLostSignal ==
    \A t \in asleep : ~done[t] /\ (\E i \in 2 .. Len(queue) : queue[i] = t)

\* A thread waits for background_work_finished_signal_ only while somebody is
\* left to signal it: the background call, or the thread that holds the flag
\* of ForceFullCompaction and does not wait itself.
NoLostWakeup ==
    \A t \in waiting :
        \/ scheduled
        \/ \E f \in FFCs \ waiting : ffc /\ pc[f] \in FullPcs

\* A memtable to flush, or a manual compaction, is never left without a
\* background call that will serve it.
NoLostWork == (imm \/ manual # None) /\ Usable => scheduled

\* manual_compaction_ points into the stack frame of TEST_CompactRange or
\* CompactWholeLevel, and BackgroundCompaction uses it again after it held the
\* mutex no more: the frame is still there, and it is the same request.
ManualOwned ==
    /\ manual # None => pc[manual] \in {"manual", "bgwait"}
    /\ job.kind = "manual" => manual # None /\ level[manual] = job.level

\* MakeRoomForWrite keeps level 0 at kL0_StopWritesTrigger files at most, the
\* one that the immutable memtable becomes included.  Only the tables that
\* RecoverLogFile adds at Open, without a limit, may be more than that, and
\* then no write adds to them.
L0Bound ==
    \/ nfiles[0] + (IF imm THEN 1 ELSE 0) <= L0_StopWritesTrigger
    \/ ~imm /\ \E s \in Scenarios : nfiles[0] <= s.l0

\* A sync write is only ever written by a front writer that syncs the log.
SyncRespected ==
    \A t \in Thread : pc[t] = "log" => \A i \in 1 .. group : sync[queue[i]] => sync[t]

\* force_full_compaction_in_progress_ has one owner at a time, and an owner as
\* long as it is set.
FullExclusive ==
    /\ ffc <=> \E f \in FFCs : pc[f] \in FullPcs
    /\ \A f, g \in FFCs : pc[f] \in FullPcs /\ pc[g] \in FullPcs => f = g

\* "unrelated automatic compactions should not be scheduled during this
\* window" (db_impl.h): once ForceFullCompaction has seen background work clear
\* out, none runs until it is finished.
NoAutomatic == (\E f \in FFCs : pc[f] \in FullPcs \ {"drain"}) => job.kind # "auto"

\* The destructor frees the state only when no background call is running, and
\* none is left in the queue of the environment to run on the freed object.  Of
\* the ForceFullCompaction calls this says nothing: see CloseWaitsForFull.
CloseSafe == closed => bgpc = "none" /\ ~scheduled

\* "Wait for both standard BG work AND ForceFullCompaction to safely exit"
\* (~DBImpl): when the destructor has freed the state, no ForceFullCompaction
\* that had entered the database, by the empty Write it starts with, is left in
\* it.  A call that has not locked the mutex yet cannot be known to anyone.
CloseWaitsForFull == closed => \A f \in FFCs : pc[f] \in {"idle", "gate"}

\* Every call returns: no write, flush or compaction waits for ever in a queue,
\* a stall or a condition variable.  The calls are bounded, so that it is
\* enough that the threads are all idle again.
CallsReturn == (\E t \in Thread : pc[t] # "idle") ~> (\A t \in Thread : pc[t] = "idle")
=============================================================================
