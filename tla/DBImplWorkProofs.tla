-------------------------- MODULE DBImplWorkProofs --------------------------
(***************************************************************************)
(* Proofs about the background work of DBImpl: it is scheduled when there  *)
(* is some, it keeps level 0 bounded, it is over when the destructor ends, *)
(* and ForceFullCompaction has the tree for itself.                        *)
(***************************************************************************)
EXTENDS DBImplBaseProofs

\* The step concerns no background work, and takes no error back.
WorkKept ==
    /\ UNCHANGED <<scheduled, manual, imm>>
    /\ err => err'
    /\ shutting => shutting'

\* What the step of a thread may do to the background work.
WorkStep ==
    /\ err => err'
    /\ shutting => shutting'
    /\ imm' /\ ~imm => nfiles[0] < L0_StopWritesTrigger
    /\ (imm' /\ ~imm) \/ (manual' # None /\ manual = None) => (Usable' => scheduled')
    /\ manual # None /\ manual' = None => ~scheduled'
    /\ ffc /\ scheduled' /\ ~scheduled => imm' \/ manual' # None

\* Every step of a thread is a WorkStep: it leaves the background work alone, or
\* it announces new work with MaybeScheduleCompaction, or it withdraws a
\* request when no background call is scheduled.
LEMMA ThreadWork ==
  ASSUME BaseInv, NEW t \in Thread, Calls(t) \/ ThreadStep(t) PROVE WorkStep
<1> USE DEF memVars, stateVars, manualVars
<1>0. /\ imm \in BOOLEAN /\ scheduled \in BOOLEAN /\ manual \in Thread \cup {None}
      /\ None \notin Thread /\ nfiles[0] \in Nat /\ L0_StopWritesTrigger \in Nat
  BY DBImplAssumption DEF BaseInv, TypeOK, Level
<1>1. ASSUME WorkKept PROVE WorkStep
  BY SMTT(30), <1>1 DEF WorkKept, WorkStep
<1>2. CASE Calls(t)
  BY <1>1, <1>2 DEF Calls, CallWrite, CallCompactRange, CallForceFullCompaction, CallGet,
     CallClose, Call, WorkKept
<1>3. CASE Gate(t)
  BY <1>1, <1>3 DEF Gate, Wait, WorkKept
<1>4. CASE Turn(t)
  BY <1>1, <1>4 DEF Turn, WorkKept
<1>5. CASE RoomError(t)
  BY <1>1, <1>5 DEF RoomError, WorkKept
<1>6. CASE RoomDelay(t)
  BY <1>1, <1>6 DEF RoomDelay, WorkKept
<1>7. CASE SleepForMicroseconds(t)
  BY <1>1, <1>7 DEF SleepForMicroseconds, WorkKept
<1>8. CASE RoomReady(t)
  BY <1>1, <1>8 DEF RoomReady, WorkKept
<1>9. CASE RoomWait(t)
  BY <1>1, <1>9 DEF RoomWait, Wait, WorkKept
<1>10. CASE WriteLog(t)
  BY <1>1, <1>10 DEF WriteLog, WorkKept
<1>11. CASE Logged(t)
  BY Zenon, <1>1, <1>11 DEF Logged, WorkKept
<1>12. CASE MaxLevel(t)
  BY <1>1, <1>12 DEF MaxLevel, WorkKept
<1>13. CASE Flushed(t)
  BY <1>1, <1>13 DEF Flushed, Wait, WorkKept
<1>14. CASE Lockdown(t)
  BY <1>1, <1>14 DEF Lockdown, Wait, WorkKept
<1>15. CASE Drain(t)
  BY <1>1, <1>15 DEF Drain, Wait, WorkKept
<1>16. CASE FullLevel(t)
  BY <1>1, <1>16 DEF FullLevel, WorkKept
<1>17. CASE Finish(t)
  BY <1>1, <1>17 DEF Finish, WorkKept
<1>18. CASE Read(t)
  BY <1>1, <1>18 DEF Read, Wait, WorkKept
<1>19. CASE Close(t)
  BY <1>1, <1>19 DEF Close, WorkKept
<1>20. CASE Closing(t)
  BY <1>1, <1>20 DEF Closing, Wait, WorkKept
<1>21. CASE RoomSwitch(t)
  <2>0. ~err /\ ~TooManyL0 /\ UNCHANGED <<shutting, manual>>
    BY <1>21 DEF RoomSwitch, Room
  <2>1. CASE UNCHANGED <<imm, err, scheduled>>
    BY <1>1, <2>0, <2>1 DEF WorkKept
  <2>2. CASE /\ imm'
             /\ scheduled' = MaybeSchedule(scheduled, err', ffc, TRUE, manual, nfiles, seek)
    <3>1. Usable' => scheduled'
      BY <2>0, <2>2 DEF MaybeSchedule, Usable
    <3>2. nfiles[0] < L0_StopWritesTrigger
      BY <1>0, <2>0 DEF TooManyL0
    <3> QED
      BY Zenon, <2>0, <2>2, <3>1, <3>2 DEF WorkStep
  <2> QED
    BY Zenon, <1>21, <2>1, <2>2 DEF RoomSwitch
<1>22. CASE Manual(t)
  <2>0. UNCHANGED <<err, shutting, imm, nfiles, seek, ffc>>
    BY <1>22 DEF Manual, fileVars, fullVars
  <2>1. CASE UNCHANGED <<scheduled, manual>>
    BY <1>1, <2>0, <2>1 DEF WorkKept
  <2>2. CASE /\ manual = None /\ manual' = t /\ Usable
             /\ scheduled' = MaybeSchedule(scheduled, err, ffc, imm, t, nfiles, seek)
    <3>1. t # None
      BY <1>0
    <3>2. scheduled'
      BY <2>2, <3>1 DEF MaybeSchedule, Usable
    <3> QED
      BY <2>0, <2>2, <3>1, <3>2 DEF WorkStep
  <2> QED
    BY <1>22, <2>1, <2>2 DEF Manual
<1>23. CASE BgWait(t)
  <2>1. UNCHANGED <<err, shutting, imm, scheduled>>
    BY <1>23 DEF BgWait, Wait
  <2>2. manual' = manual \/ (manual' = None /\ ~scheduled)
    BY <1>23 DEF BgWait, Wait, Cancel
  <2> QED
    BY <2>1, <2>2 DEF WorkStep
<1>24. CASE ReadDone(t)
  <2>1. UNCHANGED <<err, shutting, imm, manual>>
    BY <1>24 DEF ReadDone
  <2>2. \/ scheduled' = scheduled
        \/ scheduled' = MaybeSchedule(scheduled, err, ffc, imm, manual, nfiles, TRUE)
    BY Zenon, <1>24 DEF ReadDone
  <2>3. ffc /\ scheduled' /\ ~scheduled => imm \/ manual # None
    BY Zenon, <2>2 DEF MaybeSchedule
  <2> QED
    BY <2>1, <2>3 DEF WorkStep
<1> QED
  BY <1>2, <1>3, <1>4, <1>5, <1>6, <1>7, <1>8, <1>9, <1>10, <1>11, <1>12, <1>13, <1>14,
     <1>15, <1>16, <1>17, <1>18, <1>19, <1>20, <1>21, <1>22, <1>23, <1>24 DEF ThreadStep

\* What a step of the background thread may do outside of its own variables.
LEMMA BgWork ==
  ASSUME BgStep
  PROVE  /\ ~closed /\ UNCHANGED <<pc, shutting, closed, ffc>>
         /\ err => err'
         /\ imm' => imm
         /\ manual' \in {manual, None}
         /\ ~BgEnd => scheduled' = scheduled
<1> USE DEF lockVars, callVars, memVars, stateVars, manualVars, fullVars
<1>1. CASE BgSkip \/ BgFlush
  BY <1>1 DEF BgSkip, BgFlush, Started, BgAt
<1>2. CASE BgManual
  BY <1>2 DEF BgManual, Started, BgAt
<1>3. CASE BgAuto
  BY <1>3 DEF BgAuto, Started, BgAt
<1>4. CASE BuildTable \/ LogFlush \/ LogCompaction
  <2>1. ~closed /\ UNCHANGED <<pc, shutting, closed, ffc, err, imm, manual, scheduled>>
    BY Zenon, <1>4 DEF BuildTable, LogFlush, LogCompaction, Unlocked
  <2> QED
    BY <2>1
<1>5. CASE Built \/ Worked
  BY <1>5 DEF Built, Worked, BgAt, Fail
<1>6. CASE ApplyFlush
  BY <1>6 DEF ApplyFlush, BgAt, Fail
<1>7. CASE FlushDone \/ WorkFlush \/ WorkEnd
  BY <1>7 DEF FlushDone, WorkFlush, WorkEnd, BgAt
<1>8. CASE ApplyCompaction
  BY SMTT(30), <1>8 DEF ApplyCompaction, BgAt, Fail
<1>9. CASE CompactionDone
  BY <1>9 DEF CompactionDone, BgAt
<1>10. CASE BgEnd
  <2>1. ~closed /\ UNCHANGED <<pc, shutting, closed, ffc, err, imm, manual>>
    BY <1>10 DEF BgEnd, BgAt
  <2> QED
    BY <1>10, <2>1
<1> QED
  BY <1>1, <1>2, <1>3, <1>4, <1>5, <1>6, <1>7, <1>8, <1>9, <1>10 DEF BgStep

-----------------------------------------------------------------------------
\* Neither a memtable to flush nor a manual compaction is ever left without a
\* scheduled background call, whoever switched the memtable, published the
\* request, ended a background call or recorded an error.
THEOREM WorkScheduled == Spec => []NoLostWork
<1>1. Init => NoLostWork
  BY DEF Init, NoLostWork
<1>2. BaseInv /\ NoLostWork /\ [Next]_vars => NoLostWork'
  <2> SUFFICES ASSUME BaseInv, NoLostWork, [Next]_vars PROVE NoLostWork'
    OBVIOUS
  <2>1. ASSUME NEW t \in Thread, Calls(t) \/ ThreadStep(t) PROVE NoLostWork'
    <3>1. WorkStep /\ (scheduled => scheduled')
      BY <2>1, ThreadWork, ThreadKeeps DEF BaseInv
    <3> QED
      BY <3>1 DEF WorkStep, NoLostWork, Usable
  <2>2. CASE BgStep
    <3>1. CASE BgEnd
      <4>1. UNCHANGED <<imm, manual, err, shutting>>
        BY <3>1 DEF BgEnd, memVars, stateVars
      <4>2. scheduled' = MaybeSchedule(FALSE, err, ffc, imm, manual, nfiles, seek)
        BY <3>1 DEF BgEnd
      <4>3. (imm \/ manual # None) /\ Usable => scheduled'
        BY <4>2 DEF MaybeSchedule, Usable
      <4> QED
        BY <4>1, <4>3 DEF NoLostWork, Usable
    <3>2. CASE ~BgEnd
      BY <2>2, <3>2, BgWork DEF NoLostWork, Usable
    <3> QED
      BY <3>1, <3>2
  <2>3. CASE UNCHANGED vars
    BY <2>3 DEF vars, NoLostWork, Usable
  <2> QED
    BY <2>1, <2>2, <2>3 DEF Next
<1> QED
  BY <1>1, <1>2, Base, PTL DEF Spec

\* Level 0 never has more than kL0_StopWritesTrigger files, the one the
\* immutable memtable becomes included, or than a recovery left there: the
\* check of MakeRoomForWrite is enough, although flushes and compactions finish
\* between it and the flush.
THEOREM L0Bounded == Spec => []L0Bound
<1>1. Init => L0Bound
  <2> SUFFICES ASSUME Init PROVE L0Bound
    OBVIOUS
  <2>1. PICK s \in Scenarios : nfiles = [l \in Level |-> IF l = 0 THEN s.l0 ELSE 0]
    BY Zenon DEF Init
  <2>2. nfiles[0] = s.l0 /\ s.l0 \in Nat /\ ~imm
    BY <2>1, DBImplAssumption DEF Init, Level
  <2> QED
    BY <2>2 DEF L0Bound
<1>2. BaseInv /\ L0Bound /\ [Next]_vars => L0Bound'
  <2> SUFFICES ASSUME BaseInv, L0Bound, [Next]_vars PROVE L0Bound'
    OBVIOUS
  <2>0. /\ nfiles \in [Level -> Nat] /\ 0 \in Level /\ L0_StopWritesTrigger \in Nat
        /\ nfiles[0] \in Nat /\ \A s \in Scenarios : s.l0 \in Nat
    BY DBImplAssumption DEF BaseInv, TypeOK, Level
  <2>1. ASSUME NEW t \in Thread, Calls(t) \/ ThreadStep(t) PROVE L0Bound'
    <3>1. WorkStep /\ nfiles' = nfiles
      BY <2>1, ThreadWork, ThreadKeeps DEF BaseInv
    <3> QED
      BY <2>0, <3>1 DEF WorkStep, L0Bound
  <2>2. CASE ApplyFlush
    <3>1. CASE bgok
      <4>1. imm /\ ~imm'
        BY <2>2, <3>1 DEF ApplyFlush, BgAt, BaseInv, BgInv
      <4>2. nfiles' = nfiles \/ \E l \in Level : nfiles' = [nfiles EXCEPT ![l] = @ + 1]
        BY <2>2 DEF ApplyFlush, FlushedToLevel, fileVars
      <4>3. nfiles'[0] <= nfiles[0] + 1 /\ nfiles'[0] \in Nat
        BY <2>0, <4>2
      <4> QED
        BY <2>0, <4>1, <4>3 DEF L0Bound
    <3>2. CASE ~bgok
      BY <2>2, <3>2 DEF ApplyFlush, fileVars, L0Bound
    <3> QED
      BY <3>1, <3>2
  <2>3. CASE ApplyCompaction
    <3>1. imm' = imm
      BY <2>3 DEF ApplyCompaction, memVars
    <3>2. nfiles'[0] \in Nat /\ nfiles'[0] <= nfiles[0]
      <4>1. job \in Jobs /\ job.n <= nfiles[job.level]
        BY <2>3 DEF ApplyCompaction, BgAt, BaseInv, BgInv
      <4>2. /\ job.level \in Level /\ job.level + 1 \in Level /\ job.level + 1 # 0
            /\ job.level # job.level + 1
            /\ job.n \in Nat /\ nfiles[job.level] - job.n \in Nat
        BY SMTT(30), <2>0, <4>1, DBImplAssumption DEF Jobs, Level
      <4>3. CASE nfiles' = nfiles
        BY <2>0, <4>3
      <4>4. CASE \E m \in 0 .. MaxFiles :
                   nfiles' = [nfiles EXCEPT ![job.level] = @ - job.n, ![job.level + 1] = m]
        <5>1. PICK m \in 0 .. MaxFiles :
                   nfiles' = [nfiles EXCEPT ![job.level] = @ - job.n, ![job.level + 1] = m]
          BY Zenon, <4>4
        <5>2. nfiles'[0] = IF job.level = 0 THEN nfiles[0] - job.n ELSE nfiles[0]
          BY <2>0, <4>2, <5>1
        <5> QED
          BY <2>0, <4>2, <5>2
      <4> QED
        BY <2>3, <4>3, <4>4 DEF ApplyCompaction, fileVars
    <3> QED
      BY <2>0, <3>1, <3>2 DEF L0Bound
  <2>4. CASE BgStep /\ ~ApplyFlush /\ ~ApplyCompaction
    <3>1. nfiles' = nfiles
      BY Zenon, <2>4 DEF BgStep, BgSkip, BgFlush, BgManual, BgAuto, BuildTable, Built, LogFlush,
         FlushDone, WorkFlush, WorkEnd, Worked, LogCompaction, CompactionDone, BgEnd,
         Unlocked, fileVars
    <3>2. imm' => imm
      BY <2>4, BgWork
    <3> QED
      BY <2>0, <3>1, <3>2 DEF L0Bound
  <2>5. CASE UNCHANGED vars
    BY <2>5 DEF vars, L0Bound
  <2> QED
    BY <2>1, <2>2, <2>3, <2>4, <2>5 DEF Next
<1> QED
  BY <1>1, <1>2, Base, PTL DEF Spec

\* When the destructor has returned, no background call is running or left in
\* the queue of the environment.
THEOREM CloseIsSafe == Spec => []CloseSafe
<1>1. Init => CloseSafe
  BY DEF Init, CloseSafe
<1>2. BaseInv /\ CloseSafe /\ [Next]_vars => CloseSafe'
  <2> SUFFICES ASSUME BaseInv, CloseSafe, [Next]_vars PROVE CloseSafe'
    OBVIOUS
  <2>1. ASSUME NEW t \in Thread, Closing(t) PROVE CloseSafe'
    <3>1. bgpc' = bgpc /\ scheduled' = scheduled
      BY SMTT(30), <2>1 DEF Closing, Wait, bgVars, manualVars
    <3>2. CASE scheduled \/ ffc
      BY Zenon, <2>1, <3>1, <3>2 DEF Closing, At, Wait, stateVars, CloseSafe
    <3>3. CASE ~scheduled
      BY <3>1, <3>3 DEF CloseSafe, BaseInv, BgInv
    <3> QED
      BY <3>2, <3>3
  <2>2. ASSUME NEW t \in Thread, Calls(t) \/ ThreadStep(t), ~Closing(t) PROVE CloseSafe'
    <3> USE DEF stateVars
    <3>1. CASE Calls(t)
      BY ZenonT(30), <3>1 DEF Calls, CallWrite, CallCompactRange, CallForceFullCompaction, CallGet,
         CallClose, Call, CloseSafe
    <3>2. CASE \/ Gate(t) \/ Turn(t) \/ RoomError(t) \/ RoomDelay(t) \/ RoomReady(t)
               \/ RoomWait(t) \/ RoomSwitch(t) \/ Logged(t)
      BY Zenon, <3>2 DEF Gate, Turn, RoomError, RoomDelay, RoomReady, RoomWait, RoomSwitch, Logged,
         Room, At, Wait, CloseSafe
    <3>3. CASE SleepForMicroseconds(t) \/ WriteLog(t)
      BY ZenonT(30), <3>3 DEF SleepForMicroseconds, WriteLog, CloseSafe
    <3>4. CASE \/ MaxLevel(t) \/ Flushed(t) \/ Lockdown(t) \/ Drain(t) \/ FullLevel(t)
               \/ Manual(t) \/ BgWait(t) \/ Finish(t)
      BY ZenonT(30), <3>4 DEF MaxLevel, Flushed, Lockdown, Drain, FullLevel, Manual, BgWait, Finish, At,
         Wait, CloseSafe
    <3>5. CASE Read(t) \/ ReadDone(t) \/ Close(t)
      BY Zenon, <3>5 DEF Read, ReadDone, Close, At, Wait, CloseSafe
    <3> QED
      BY SMTT(30), <2>2, <3>1, <3>2, <3>3, <3>4, <3>5 DEF ThreadStep
  <2>3. CASE BgStep
    BY ZenonT(30), <2>3, BgWork DEF CloseSafe
  <2>4. CASE UNCHANGED vars
    BY <2>4 DEF vars, CloseSafe
  <2> QED
    BY <2>1, <2>2, <2>3, <2>4 DEF Next
<1> QED
  BY <1>1, <1>2, Base, PTL DEF Spec

-----------------------------------------------------------------------------
\* The step of a thread neither enters nor leaves the code that owns the flag
\* of ForceFullCompaction.
FullKept(t) ==
    /\ ffc' = ffc
    /\ t \in FFCs => (pc'[t] \in FullPcs <=> pc[t] \in FullPcs)

\* Only Lockdown enters that code, and only Drain and Finish leave it.
LEMMA FullSteps ==
  ASSUME BaseInv, NEW t \in Thread, Calls(t) \/ ThreadStep(t),
         ~Lockdown(t), ~Drain(t), ~Finish(t)
  PROVE  FullKept(t)
<1> USE DEF callVars, fullVars, FullKept, FullPcs
<1>1. pc \in [Thread -> Pieces] /\ (t \in FFCs => t \notin Compactors /\ t \notin Writers)
  BY SMTT(30), DBImplAssumption DEF BaseInv, TypeOK
<1>2. CASE Calls(t)
  BY ZenonT(30), <1>1, <1>2 DEF Calls, CallWrite, CallCompactRange, CallForceFullCompaction, CallGet,
     CallClose, Call, Goto
<1>3. CASE Gate(t)
  BY <1>1, <1>3 DEF Gate, Wait, Goto, At
<1>4. CASE Turn(t)
  BY SMTT(30), <1>1, <1>4 DEF Turn, AfterWrite, NullWriters, Goto, At
<1>5. CASE RoomError(t)
  BY Zenon, <1>1, <1>5 DEF RoomError, PopGroup, AfterWrite, NullWriters, Goto, At
<1>6. CASE RoomDelay(t)
  BY <1>1, <1>6 DEF RoomDelay, Goto, At
<1>7. CASE SleepForMicroseconds(t)
  BY SMTT(30), <1>1, <1>7 DEF SleepForMicroseconds, Goto
<1>8. CASE RoomReady(t)
  BY Zenon, <1>1, <1>8 DEF RoomReady, Room, PopGroup, AfterWrite, NullWriters, Goto, At
<1>9. CASE RoomWait(t)
  BY SMTT(30), <1>1, <1>9 DEF RoomWait, Room, Wait, At
<1>10. CASE RoomSwitch(t)
  BY Zenon, <1>1, <1>10 DEF RoomSwitch, Room, PopGroup, AfterWrite, NullWriters, Goto, At
<1>11. CASE WriteLog(t)
  BY SMTT(30), <1>1, <1>11 DEF WriteLog, Goto
<1>12. CASE Logged(t)
  BY ZenonT(30), <1>1, <1>12 DEF Logged, PopGroup, AfterWrite, NullWriters, Goto, At
<1>13. CASE MaxLevel(t)
  BY <1>1, <1>13 DEF MaxLevel, Goto, At
<1>14. CASE Flushed(t)
  BY <1>1, <1>14 DEF Flushed, Wait, Goto, At
<1>15. CASE FullLevel(t)
  BY <1>1, <1>15 DEF FullLevel, NextLevel, Goto, At
<1>16. CASE Manual(t)
  BY <1>1, <1>16 DEF Manual, Goto, At
<1>17. CASE BgWait(t)
  BY <1>1, <1>17 DEF BgWait, NextLevel, MoreLevels, Wait, Goto, At
<1>18. CASE Read(t)
  BY <1>1, <1>18 DEF Read, Wait, Goto, At
<1>19. CASE ReadDone(t)
  BY <1>1, <1>19 DEF ReadDone, Goto, At
<1>20. CASE Close(t)
  BY <1>1, <1>20 DEF Close, Goto, At
<1>21. CASE Closing(t)
  BY SMTT(30), <1>1, <1>21 DEF Closing, Wait, Goto, At
<1> QED
  BY ZenonT(30), <1>2, <1>3, <1>4, <1>5, <1>6, <1>7, <1>8, <1>9, <1>10, <1>11, <1>12, <1>13, <1>14,
     <1>15, <1>16, <1>17, <1>18, <1>19, <1>20, <1>21 DEF ThreadStep

\* At "drain" there is nothing but Drain.
LEMMA DrainOnly ==
  ASSUME NEW t \in Thread, Calls(t) \/ ThreadStep(t), pc[t] = "drain" PROVE Drain(t)
<1>1. ~Calls(t)
  <2>1. Calls(t) => pc[t] = "idle"
    BY ZenonT(30) DEF Calls, CallWrite, CallCompactRange, CallForceFullCompaction, CallGet,
       CallClose, Call
  <2> QED
    BY <2>1
<1> QED
  BY ZenonT(30), <1>1 DEF ThreadStep, Gate, Turn, RoomError, RoomDelay, SleepForMicroseconds,
     RoomReady, RoomWait, RoomSwitch, WriteLog, Logged, MaxLevel, Flushed, Lockdown,
     FullLevel, Manual, BgWait, Finish, Read, ReadDone, Close, Closing, Room, At

\* The flag of ForceFullCompaction is set exactly while one thread, and only
\* one, is in the code that it protects.
LEMMA FullStep == BaseInv /\ FullExclusive /\ [Next]_vars => FullExclusive'
<1> SUFFICES ASSUME BaseInv, FullExclusive, [Next]_vars PROVE FullExclusive'
  OBVIOUS
<1>0. pc \in [Thread -> Pieces] /\ ffc \in BOOLEAN /\ FFCs \subseteq Thread
  BY DEF BaseInv, TypeOK, Thread
<1>1. ASSUME NEW t \in Thread, Calls(t) \/ ThreadStep(t) PROVE FullExclusive'
  <2>0. \A x \in Thread : x # t => pc'[x] = pc[x]
    BY ZenonT(30), <1>1, Others DEF BaseInv
  <2>1. pc[t] \in {"lockdown", "drain", "finish"} => t \in FFCs
    BY DEF BaseInv, LevelInv, LevelOK, WriterPcs, Thread
  <2>2. CASE Lockdown(t)
    <3>1. pc[t] = "lockdown" /\ t \in FFCs
      BY <2>1, <2>2 DEF Lockdown, At
    <3>2. CASE ffc
      BY <2>2, <3>2 DEF Lockdown, Wait, callVars, fullVars, FullExclusive
    <3>3. CASE ~ffc
      <4>1. ffc' /\ pc'[t] = "drain"
        BY <1>0, <2>2, <3>3 DEF Lockdown, Goto
      <4> QED
        BY <1>0, <2>0, <3>1, <3>3, <4>1 DEF FullExclusive, FullPcs
    <3> QED
      BY <3>2, <3>3
  <2>3. CASE Drain(t) \/ Finish(t)
    <3>1. pc[t] \in FullPcs /\ t \in FFCs
      BY <2>1, <2>3 DEF Drain, Finish, At, FullPcs
    <3>2. CASE ffc' = FALSE /\ pc'[t] = "idle"
      BY <1>0, <2>0, <3>1, <3>2 DEF FullExclusive, FullPcs
    <3>3. CASE ffc' = ffc /\ pc'[t] \in FullPcs
      BY <1>0, <2>0, <3>1, <3>3 DEF FullExclusive
    <3> QED
      BY Zenon, <1>0, <2>3, <3>1, <3>2, <3>3 DEF Drain, Finish, Goto, Wait, callVars, fullVars, FullPcs
  <2>4. CASE ~Lockdown(t) /\ ~Drain(t) /\ ~Finish(t)
    <3>1. FullKept(t)
      BY <1>1, <2>4, FullSteps
    <3> QED
      BY <1>0, <2>0, <3>1 DEF FullKept, FullExclusive
  <2> QED
    BY SMTT(30), <2>2, <2>3, <2>4
<1>2. CASE BgStep
  BY <1>2, BgWork DEF FullExclusive
<1>3. CASE UNCHANGED vars
  BY <1>3 DEF vars, FullExclusive
<1> QED
  BY <1>1, <1>2, <1>3 DEF Next

\* force_full_compaction_in_progress_ is a lock: it is set as long as some
\* ForceFullCompaction owns it, and no two of them ever do.
THEOREM FullIsExclusive == Spec => []FullExclusive
<1>1. Init => FullExclusive
  <2> SUFFICES ASSUME Init PROVE FullExclusive
    OBVIOUS
  <2>1. ffc = FALSE /\ pc = [t \in Thread |-> "idle"]
    BY Zenon DEF Init
  <2>2. \A f \in FFCs : pc[f] = "idle"
    BY <2>1 DEF Thread
  <2> QED
    BY <2>1, <2>2 DEF FullExclusive, FullPcs
<1> QED
  BY <1>1, FullStep, Base, PTL DEF Spec

\* The background work that is left once ForceFullCompaction has drained it is
\* a flush or a manual compaction.
Drained ==
    (\E f \in FFCs : pc[f] \in FullPcs \ {"drain"})
    => /\ job.kind # "auto"
       /\ bgpc = "none" /\ scheduled /\ Usable => imm \/ manual # None

\* MaybeScheduleCompaction refuses automatic work while the flag is set, so the
\* background call never finds any.
LEMMA DrainedStep == BaseInv /\ FullExclusive /\ Drained /\ [Next]_vars => Drained'
<1> SUFFICES ASSUME BaseInv, FullExclusive, Drained, [Next]_vars,
                    NEW f \in FFCs, pc'[f] \in FullPcs \ {"drain"}
             PROVE  /\ job'.kind # "auto"
                    /\ bgpc' = "none" /\ scheduled' /\ Usable' => imm' \/ manual' # None
  BY SMTT(30) DEF Drained
<1>0. pc \in [Thread -> Pieces] /\ FFCs \subseteq Thread /\ NoJob.kind = "none" /\ BgInv
  BY DEF BaseInv, TypeOK, Thread, NoJob
<1>1. ASSUME NEW t \in Thread, Calls(t) \/ ThreadStep(t)
      PROVE  /\ job'.kind # "auto"
             /\ bgpc' = "none" /\ scheduled' /\ Usable' => imm' \/ manual' # None
  <2>1. /\ WorkStep /\ UNCHANGED <<bgpc, job>>
        /\ imm => imm'
        /\ scheduled => scheduled'
    BY <1>1, ThreadWork, ThreadKeeps DEF BaseInv
  <2>2. CASE pc[f] \in FullPcs \ {"drain"}
    <3>1. ffc
      BY <2>2 DEF FullExclusive
    <3>2. /\ job.kind # "auto"
          /\ bgpc = "none" /\ scheduled /\ Usable => imm \/ manual # None
      BY <2>2 DEF Drained
    <3> QED
      BY <2>1, <3>1, <3>2 DEF WorkStep, Usable
  <2>3. CASE pc[f] \notin FullPcs \ {"drain"}
    <3>1. t = f
      BY <1>0, <1>1, <2>3, Others DEF BaseInv
    <3>2. Drain(f)
      <4>1. CASE Lockdown(f)
        BY <1>0, <2>3, <4>1 DEF Lockdown, Goto, Wait, callVars, FullPcs
      <4>2. CASE Finish(f)
        BY SMTT(30), <1>0, <4>2 DEF Finish, Goto, FullPcs
      <4>3. CASE ~Lockdown(f) /\ ~Finish(f) /\ ~Drain(f)
        <5>1. pc[f] = "drain"
          BY <1>1, <2>3, <3>1, <4>3, FullSteps DEF FullKept
        <5> QED
          BY SMTT(30), <1>1, <3>1, <4>3, <5>1, DrainOnly
      <4> QED
        BY <4>1, <4>2, <4>3
    <3>3. ~scheduled /\ scheduled' = scheduled
      BY SMTT(30), <1>0, <2>3, <3>2 DEF Drain, Goto, Wait, callVars, manualVars, FullPcs
    <3>4. job = NoJob
      BY <1>0, <3>3 DEF BgInv
    <3> QED
      BY SMTT(30), <1>0, <2>1, <3>3, <3>4
  <2> QED
    BY <2>2, <2>3
<1>2. CASE BgStep
  <2>1. /\ pc' = pc /\ UNCHANGED <<shutting, ffc>>
        /\ err => err'
    BY <1>2, BgWork
  <2>2. /\ job.kind # "auto" /\ ffc
        /\ bgpc = "none" /\ scheduled /\ Usable => imm \/ manual # None
    BY SMTT(30), <2>1 DEF Drained, FullExclusive
  <2>3. ~BgAuto
    BY <2>2 DEF BgAuto, Started, BgAt
  <2>4. job'.kind # "auto"
    <3>1. CASE BgManual
      <4>0. \/ job' = job
            \/ \E n \in 1 .. nfiles[level[manual]], mv \in BOOLEAN :
                 job' = [kind |-> "manual", level |-> level[manual], n |-> n, move |-> mv]
        BY <3>1 DEF BgManual, StartJob
      <4>1. CASE job' = job
        BY <2>2, <4>1
      <4>2. CASE job' # job
        <5>1. PICK n, mv :
                job' = [kind |-> "manual", level |-> level[manual], n |-> n, move |-> mv]
          BY <4>0, <4>2
        <5>2. job'.kind = "manual"
          BY <5>1
        <5> QED
          BY SMTT(30), <5>2
      <4> QED
        BY SMTT(30), <4>1, <4>2
    <3>2. CASE ~BgManual
      <4>1. job' = job \/ job' = NoJob
        BY Zenon, <1>2, <2>3, <3>2 DEF BgStep, BgSkip, BgFlush, BuildTable, Built, LogFlush, ApplyFlush,
           FlushDone, WorkFlush, WorkEnd, Worked, LogCompaction, ApplyCompaction,
           CompactionDone, BgEnd, Unlocked
      <4> QED
        BY SMTT(30), <1>0, <2>2, <4>1
    <3> QED
      BY <3>1, <3>2
  <2>5. CASE BgEnd
    <3>1. UNCHANGED <<imm, manual>>
      BY <2>5 DEF BgEnd, memVars
    <3>2. scheduled' = MaybeSchedule(FALSE, err, ffc, imm, manual, nfiles, seek)
      BY <2>5 DEF BgEnd
    <3>3. scheduled' => imm \/ manual # None
      BY Zenon, <2>2, <3>2 DEF MaybeSchedule
    <3> QED
      BY <2>4, <3>1, <3>3
  <2>6. CASE ~BgEnd
    <3>1. bgpc' # "none"
      BY ZenonT(30), <1>2, <2>3, <2>6 DEF BgStep, BgSkip, BgFlush, BgManual, BuildTable, Built, LogFlush,
         ApplyFlush, FlushDone, WorkFlush, WorkEnd, Worked, LogCompaction, ApplyCompaction,
         CompactionDone, Unlocked, Fail, StartJob
    <3> QED
      BY <2>4, <3>1
  <2> QED
    BY <2>5, <2>6
<1>3. CASE UNCHANGED vars
  BY <1>3 DEF vars, Drained, Usable
<1> QED
  BY SMTT(30), <1>1, <1>2, <1>3 DEF Next

\* From the moment ForceFullCompaction has seen background work clear out
\* until it gives the flag back, no automatic compaction runs, whatever
\* writers, readers and CompactRange callers schedule in the meantime.
THEOREM NoAutomaticCompaction == Spec => []NoAutomatic
<1>1. Init => FullExclusive
  <2> SUFFICES ASSUME Init PROVE FullExclusive
    OBVIOUS
  <2>1. ffc = FALSE /\ pc = [t \in Thread |-> "idle"]
    BY Zenon DEF Init
  <2>2. \A f \in FFCs : pc[f] = "idle"
    BY <2>1 DEF Thread
  <2> QED
    BY <2>1, <2>2 DEF FullExclusive, FullPcs
<1>2. Init => Drained
  <2> SUFFICES ASSUME Init PROVE Drained
    OBVIOUS
  <2>1. pc = [t \in Thread |-> "idle"]
    BY Zenon DEF Init
  <2>2. \A f \in FFCs : pc[f] = "idle"
    BY <2>1 DEF Thread
  <2> QED
    BY <2>2 DEF Drained, FullPcs
<1>3. Drained => NoAutomatic
  BY DEF Drained, NoAutomatic
<1> QED
  BY <1>1, <1>2, <1>3, FullStep, DrainedStep, Base, PTL DEF Spec
=============================================================================
