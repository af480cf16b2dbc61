-------------------------- MODULE DBImplBaseProofs --------------------------
(***************************************************************************)
(* The base invariant of DBImpl is inductive, and what follows from it.    *)
(***************************************************************************)
EXTENDS DBImplTypeProofs

-----------------------------------------------------------------------------
\* A step of one thread leaves the place and the levels of the others alone.
LEMMA Others ==
  ASSUME TypeOK, NEW t \in Thread, Calls(t) \/ ThreadStep(t), NEW x \in Thread, x # t
  PROVE  pc'[x] = pc[x] /\ level'[x] = level[x] /\ maxlevel'[x] = maxlevel[x]
<1> USE DEF callVars, fullVars
<1>1. /\ pc \in [Thread -> Pieces] /\ level \in [Thread -> Nat]
      /\ maxlevel \in [Thread -> Level \cup {-1}]
  BY SMTT(30) DEF TypeOK
<1>2. CASE Calls(t)
  BY <1>1, <1>2 DEF Calls, CallWrite, CallCompactRange, CallForceFullCompaction, CallGet,
     CallClose, Call, Goto
<1>3. CASE Gate(t)
  BY <1>1, <1>3 DEF Gate, Wait, Goto
<1>4. CASE Turn(t)
  BY <1>1, <1>4 DEF Turn, Goto
<1>5. CASE RoomError(t)
  BY <1>1, <1>5 DEF RoomError, PopGroup, Goto
<1>6. CASE RoomDelay(t)
  BY <1>1, <1>6 DEF RoomDelay, Goto
<1>7. CASE SleepForMicroseconds(t)
  BY <1>1, <1>7 DEF SleepForMicroseconds, Goto
<1>8. CASE RoomReady(t)
  BY Zenon, <1>1, <1>8 DEF RoomReady, PopGroup, Goto
<1>9. CASE RoomWait(t)
  BY <1>1, <1>9 DEF RoomWait, Wait
<1>10. CASE RoomSwitch(t)
  BY Zenon, <1>1, <1>10 DEF RoomSwitch, PopGroup, Goto
<1>11. CASE WriteLog(t)
  BY <1>1, <1>11 DEF WriteLog, Goto
<1>12. CASE Logged(t)
  BY <1>1, <1>12 DEF Logged, PopGroup, Goto
<1>13. CASE MaxLevel(t)
  BY <1>1, <1>13 DEF MaxLevel, Goto
<1>14. CASE Flushed(t)
  BY <1>1, <1>14 DEF Flushed, Wait, Goto
<1>15. CASE Lockdown(t)
  BY <1>1, <1>15 DEF Lockdown, Wait, Goto
<1>16. CASE Drain(t)
  BY <1>1, <1>16 DEF Drain, Wait, Goto
<1>17. CASE FullLevel(t)
  BY <1>1, <1>17 DEF FullLevel, Goto
<1>18. CASE Manual(t)
  BY <1>1, <1>18 DEF Manual, Goto
<1>19. CASE BgWait(t)
  BY <1>1, <1>19 DEF BgWait, Wait, Goto
<1>20. CASE Finish(t)
  BY <1>1, <1>20 DEF Finish, Goto
<1>21. CASE Read(t)
  BY <1>1, <1>21 DEF Read, Wait, Goto
<1>22. CASE ReadDone(t)
  BY <1>1, <1>22 DEF ReadDone, Goto
<1>23. CASE Close(t)
  BY <1>1, <1>23 DEF Close, Goto
<1>24. CASE Closing(t)
  BY <1>1, <1>24 DEF Closing, Wait, Goto
<1> QED
  BY <1>2, <1>3, <1>4, <1>5, <1>6, <1>7, <1>8, <1>9, <1>10, <1>11, <1>12, <1>13, <1>14,
     <1>15, <1>16, <1>17, <1>18, <1>19, <1>20, <1>21, <1>22, <1>23, <1>24 DEF ThreadStep

\* The callers keep to their code and to the levels of the tree.
LEMMA LevelStep ==
  ASSUME TypeOK, LevelInv, NEW t \in Thread, Calls(t) \/ ThreadStep(t)
  PROVE  LevelInv'
<1> USE DEF callVars, fullVars, LevelOK, WriterPcs
<1>1. /\ pc \in [Thread -> Pieces] /\ level \in [Thread -> Nat]
      /\ maxlevel \in [Thread -> Level \cup {-1}]
  BY DEF TypeOK
<1>2. LevelOK(t)
  BY DEF LevelInv
<1>3. /\ Writers \cap (NullWriters \cup Readers \cup Closers) = {}
      /\ Compactors \cap (FFCs \cup Readers \cup Closers) = {}
      /\ FFCs \cap (Readers \cup Closers) = {} /\ Readers \cap Closers = {}
      /\ NumLevels \in Nat /\ NumLevels > 1
  BY SMTT(30), DBImplAssumption DEF NullWriters
<1>4. LevelOK(t)'
  <2> USE <1>1, <1>2, <1>3
  <2>2. CASE Calls(t)
    <3>1. CASE CallWrite(t)
      <4>1. /\ t \in Writers /\ pc[t] = "idle" /\ pc' = [pc EXCEPT ![t] = "gate"]
            /\ UNCHANGED <<level, maxlevel>>
        BY <3>1 DEF CallWrite, Call, Goto
      <4> QED
        BY <4>1 DEF NullWriters
    <3>2. CASE CallCompactRange(t)
      <4>1. /\ t \in Compactors /\ pc[t] = "idle" /\ pc' = [pc EXCEPT ![t] = "maxlevel"]
            /\ UNCHANGED <<level, maxlevel>>
        BY <3>2 DEF CallCompactRange, Call, Goto
      <4> QED
        BY <4>1 DEF NullWriters
    <3>3. CASE CallForceFullCompaction(t)
      BY <3>3 DEF CallForceFullCompaction, Call, Goto
    <3>4. CASE CallGet(t)
      BY <3>4 DEF CallGet, Call, Goto
    <3>5. CASE CallClose(t)
      BY <3>5 DEF CallClose, Call, Goto
    <3> QED
      BY <2>2, <3>1, <3>2, <3>3, <3>4, <3>5 DEF Calls
  <2>3. CASE Gate(t)
    BY <2>3 DEF Gate, Wait, Goto, At
  <2>4. CASE Turn(t)
    <3>1. /\ pc[t] = "turn" /\ UNCHANGED <<level, maxlevel>>
          /\ \/ pc' = [pc EXCEPT ![t] = AfterWrite(t, ok[t])]
             \/ pc' = [pc EXCEPT ![t] = "room"]
             \/ pc' = pc
      BY <2>4 DEF Turn, Goto, At
    <3>2. pc'[t] \in {AfterWrite(t, ok[t]), "room", "turn"}
      BY <3>1
    <3>3. AfterWrite(t, ok[t]) \in {"flushed", "manual", "idle"}
      BY DEF AfterWrite
    <3>4. t \in Writers => AfterWrite(t, ok[t]) = "idle"
      BY DEF AfterWrite, NullWriters
    <3>5. t \in Compactors => AfterWrite(t, ok[t]) # "idle"
      BY DEF AfterWrite, NullWriters
    <3>6. t \in FFCs => AfterWrite(t, ok[t]) # "manual"
      BY DEF AfterWrite
    <3> QED
      BY <3>1, <3>2, <3>3, <3>4, <3>5, <3>6 DEF NullWriters
  <2>5. CASE RoomError(t)
    BY <2>5 DEF RoomError, PopGroup, AfterWrite, NullWriters, Goto, At
  <2>6. CASE RoomDelay(t)
    BY <2>6 DEF RoomDelay, Goto, At
  <2>7. CASE SleepForMicroseconds(t)
    BY SMTT(30), <2>7 DEF SleepForMicroseconds, Goto
  <2>8. CASE RoomReady(t)
    BY Zenon, <2>8 DEF RoomReady, Room, PopGroup, AfterWrite, NullWriters, Goto, At
  <2>9. CASE RoomWait(t)
    BY <2>9 DEF RoomWait, Room, Wait, At
  <2>10. CASE RoomSwitch(t)
    BY ZenonT(30), <2>10 DEF RoomSwitch, Room, PopGroup, AfterWrite, NullWriters, Goto, At
  <2>11. CASE WriteLog(t)
    BY <2>11 DEF WriteLog, Goto
  <2>12. CASE Logged(t)
    BY <2>12 DEF Logged, PopGroup, AfterWrite, NullWriters, Goto, At
  <2>13. CASE MaxLevel(t)
    <3>1. pc[t] = "maxlevel" /\ level' = level
      BY <2>13 DEF MaxLevel, At
    <3>2. CASE t \in Compactors
      <4>1. PICK m \in Level : m > 0 /\ maxlevel' = [maxlevel EXCEPT ![t] = m]
        BY <2>13, <3>2 DEF MaxLevel, Level
      <4>2. Goto(t, "gate")
        BY <2>13, <3>2 DEF MaxLevel
      <4> QED
        BY <3>1, <3>2, <4>1, <4>2 DEF Goto, Level
    <3>3. CASE t \notin Compactors
      <4>1. CASE \A l \in Level : ~(nfiles[l] > 0)
        <5>1. Goto(t, "finish")
          BY <2>13, <3>3, <4>1 DEF MaxLevel
        <5> QED
          BY <3>1, <3>3, <5>1 DEF Goto
      <4>2. CASE \E l \in Level : nfiles[l] > 0
        <5>1. Goto(t, "level")
          BY <2>13, <3>3, <4>2 DEF MaxLevel
        <5>2. PICK m \in Level : maxlevel' = [maxlevel EXCEPT ![t] = m]
          BY <2>13, <3>3, <4>2 DEF MaxLevel
        <5> QED
          BY <3>1, <3>3, <5>1, <5>2 DEF Goto, Level
      <4> QED
        BY <4>1, <4>2
    <3> QED
      BY <3>2, <3>3
  <2>14. CASE Flushed(t)
    BY <2>14 DEF Flushed, Wait, Goto, At
  <2>15. CASE Lockdown(t)
    BY <2>15 DEF Lockdown, Wait, Goto, At
  <2>16. CASE Drain(t)
    BY <2>16 DEF Drain, Wait, Goto, At
  <2>17. CASE FullLevel(t)
    BY SMTT(30), <2>17 DEF FullLevel, NextLevel, Goto, At
  <2>18. CASE Manual(t)
    BY SMTT(30), <2>18 DEF Manual, Goto, At
  <2>19. CASE BgWait(t)
    <3>0. pc[t] = "bgwait" /\ maxlevel' = maxlevel
      BY <2>19 DEF BgWait, Wait, At
    <3>1. CASE scheduled
      BY <2>19, <3>1 DEF BgWait, Wait
    <3>2. CASE ~scheduled /\ t \in FFCs
      <4>1. level' = [level EXCEPT ![t] = @ + 1]
        BY <2>19, <3>2 DEF BgWait
      <4>2. \/ pc' = [pc EXCEPT ![t] = NextLevel(t, level[t] + 1)]
            \/ pc' = [pc EXCEPT ![t] = "finish"]
        BY SMTT(30), <2>19, <3>2 DEF BgWait, Goto
      <4> QED
        BY <3>0, <3>2, <4>1, <4>2 DEF NextLevel, NullWriters
    <3>3. CASE ~scheduled /\ t \in Compactors
      <4>1. CASE level[t] + 1 < maxlevel[t]
        <5>1. pc' = [pc EXCEPT ![t] = "manual"] /\ level' = [level EXCEPT ![t] = @ + 1]
          BY <2>19, <3>3, <4>1 DEF BgWait, MoreLevels, Goto
        <5> QED
          BY <3>0, <3>3, <4>1, <5>1 DEF NullWriters
      <4>2. CASE ~(level[t] + 1 < maxlevel[t])
        <5>1. pc' = [pc EXCEPT ![t] = "idle"] /\ level' = [level EXCEPT ![t] = 0]
          BY <2>19, <3>3, <4>2 DEF BgWait, MoreLevels, Goto
        <5> QED
          BY <3>0, <3>3, <5>1 DEF NullWriters
      <4> QED
        BY <4>1, <4>2
    <3>4. t \in FFCs \/ t \in Compactors
      BY <3>0 DEF Thread
    <3> QED
      BY <3>1, <3>2, <3>3, <3>4
  <2>20. CASE Finish(t)
    BY <2>20 DEF Finish, Goto, At
  <2>21. CASE Read(t)
    BY <2>21 DEF Read, Wait, Goto, At
  <2>22. CASE ReadDone(t)
    BY <2>22 DEF ReadDone, Goto, At
  <2>23. CASE Close(t)
    BY <2>23 DEF Close, Goto, At
  <2>24. CASE Closing(t)
    BY <2>24 DEF Closing, Wait, Goto, At
  <2> QED
    BY ZenonT(30), <2>2, <2>3, <2>4, <2>5, <2>6, <2>7, <2>8, <2>9, <2>10, <2>11, <2>12, <2>13,
       <2>14, <2>15, <2>16, <2>17, <2>18, <2>19, <2>20, <2>21, <2>22, <2>23, <2>24 DEF
       ThreadStep
<1>5. ASSUME NEW x \in Thread, x # t PROVE LevelOK(x)'
  BY SMTT(30), <1>5, Others DEF LevelInv
<1> QED
  BY <1>4, <1>5 DEF LevelInv

\* What the background thread relies on while it does not hold the mutex: the
\* other threads leave its compaction and the files alone, withdraw neither
\* the immutable memtable nor the background call.
LEMMA ThreadKeeps ==
  ASSUME TypeOK, NEW t \in Thread, Calls(t) \/ ThreadStep(t)
  PROVE  /\ UNCHANGED <<nfiles, bgpc, job, bgok>>
         /\ scheduled => scheduled'
         /\ imm => imm'
<1> USE DEF memVars, manualVars, fileVars, bgVars
<1>2. CASE Calls(t)
  <2>1. PICK l \in Pieces : Call(t, l)
    BY <1>2 DEF Calls, CallWrite, CallCompactRange, CallForceFullCompaction, CallGet, CallClose,
       Pieces
  <2> QED
    BY <2>1 DEF Call
<1>3. CASE Gate(t)
  BY <1>3 DEF Gate, Wait
<1>4. CASE Turn(t)
  BY <1>4 DEF Turn
<1>5. CASE RoomError(t)
  BY <1>5 DEF RoomError
<1>6. CASE RoomDelay(t)
  BY <1>6 DEF RoomDelay
<1>7. CASE SleepForMicroseconds(t)
  BY <1>7 DEF SleepForMicroseconds
<1>8. CASE RoomReady(t)
  BY <1>8 DEF RoomReady
<1>9. CASE RoomWait(t)
  BY <1>9 DEF RoomWait, Wait
<1>10. CASE RoomSwitch(t)
  <2>1. UNCHANGED <<nfiles, bgpc, job, bgok>> /\ ~imm
    BY <1>10 DEF RoomSwitch
  <2>2. \/ scheduled' = scheduled
        \/ scheduled' = MaybeSchedule(scheduled, err', ffc, TRUE, manual, nfiles, seek)
    BY Zenon, <1>10 DEF RoomSwitch
  <2>3. scheduled => scheduled'
    BY Zenon, <2>2 DEF MaybeSchedule
  <2> QED
    BY <2>1, <2>3
<1>11. CASE WriteLog(t)
  BY <1>11 DEF WriteLog
<1>12. CASE Logged(t)
  BY <1>12 DEF Logged
<1>13. CASE MaxLevel(t)
  BY <1>13 DEF MaxLevel
<1>14. CASE Flushed(t)
  BY <1>14 DEF Flushed, Wait
<1>15. CASE Lockdown(t)
  BY <1>15 DEF Lockdown, Wait
<1>16. CASE Drain(t)
  BY <1>16 DEF Drain, Wait
<1>17. CASE FullLevel(t)
  BY <1>17 DEF FullLevel
<1>18. CASE Manual(t)
  BY Zenon, <1>18 DEF Manual, MaybeSchedule
<1>19. CASE BgWait(t)
  BY <1>19 DEF BgWait, Wait
<1>20. CASE Finish(t)
  BY <1>20 DEF Finish
<1>21. CASE Read(t)
  BY <1>21 DEF Read, Wait
<1>22. CASE ReadDone(t)
  <2>1. UNCHANGED <<nfiles, bgpc, job, bgok, imm>>
    BY <1>22 DEF ReadDone
  <2>2. \/ scheduled' = scheduled
        \/ scheduled' = MaybeSchedule(scheduled, err, ffc, imm, manual, nfiles, TRUE)
    BY Zenon, <1>22 DEF ReadDone
  <2>3. scheduled => scheduled'
    BY Zenon, <2>2 DEF MaybeSchedule
  <2> QED
    BY <2>1, <2>3
<1>23. CASE Close(t)
  BY <1>23 DEF Close
<1>24. CASE Closing(t)
  BY <1>24 DEF Closing, Wait
<1> QED
  BY ZenonT(30), <1>2, <1>3, <1>4, <1>5, <1>6, <1>7, <1>8, <1>9, <1>10, <1>11, <1>12, <1>13, <1>14,
     <1>15, <1>16, <1>17, <1>18, <1>19, <1>20, <1>21, <1>22, <1>23, <1>24 DEF ThreadStep

\* Only the two loops of a manual compaction touch manual_compaction_.
LEMMA ManualKept ==
  ASSUME NEW t \in Thread, Calls(t) \/ ThreadStep(t), ~Manual(t), ~BgWait(t)
  PROVE  manual' = manual /\ pc[t] \notin {"manual", "bgwait"}
<1> USE DEF manualVars
<1>2. CASE Calls(t)
  <2>1. PICK l \in Pieces : Call(t, l)
    BY <1>2 DEF Calls, CallWrite, CallCompactRange, CallForceFullCompaction, CallGet, CallClose,
       Pieces
  <2> QED
    BY <2>1 DEF Call
<1>3. CASE Gate(t)
  BY <1>3 DEF Gate, Wait, At
<1>4. CASE Turn(t)
  BY <1>4 DEF Turn, At
<1>5. CASE RoomError(t)
  BY <1>5 DEF RoomError, At
<1>6. CASE RoomDelay(t)
  BY <1>6 DEF RoomDelay, At
<1>7. CASE SleepForMicroseconds(t)
  BY <1>7 DEF SleepForMicroseconds
<1>8. CASE RoomReady(t)
  BY <1>8 DEF RoomReady, Room, At
<1>9. CASE RoomWait(t)
  BY <1>9 DEF RoomWait, Wait, Room, At
<1>10. CASE RoomSwitch(t)
  BY <1>10 DEF RoomSwitch, Room, At
<1>11. CASE WriteLog(t)
  BY <1>11 DEF WriteLog
<1>12. CASE Logged(t)
  BY <1>12 DEF Logged, At
<1>13. CASE MaxLevel(t)
  BY <1>13 DEF MaxLevel, At
<1>14. CASE Flushed(t)
  BY <1>14 DEF Flushed, Wait, At
<1>15. CASE Lockdown(t)
  BY <1>15 DEF Lockdown, Wait, At
<1>16. CASE Drain(t)
  BY SMTT(30), <1>16 DEF Drain, Wait, At
<1>17. CASE FullLevel(t)
  BY <1>17 DEF FullLevel, At
<1>18. CASE Finish(t)
  BY <1>18 DEF Finish, At
<1>19. CASE Read(t)
  BY <1>19 DEF Read, Wait, At
<1>20. CASE ReadDone(t)
  BY <1>20 DEF ReadDone, At
<1>21. CASE Close(t)
  BY <1>21 DEF Close, At
<1>22. CASE Closing(t)
  BY <1>22 DEF Closing, Wait, At
<1> QED
  BY SMTT(30), <1>2, <1>3, <1>4, <1>5, <1>6, <1>7, <1>8, <1>9, <1>10, <1>11, <1>12, <1>13, <1>14,
     <1>15, <1>16, <1>17, <1>18, <1>19, <1>20, <1>21, <1>22 DEF ThreadStep

\* The manual request of a thread outlives every step of the threads.
LEMMA ManualStep ==
  ASSUME BaseInv, NEW t \in Thread, Calls(t) \/ ThreadStep(t)
  PROVE  ManualOwned'
<1>1. /\ pc \in [Thread -> Pieces] /\ manual \in Thread \cup {None}
      /\ level \in [Thread -> Nat] /\ None \notin Thread
      /\ ManualOwned /\ job' = job
  BY SMTT(30), DBImplAssumption, ThreadKeeps DEF TypeOK, BaseInv
<1>2. \A x \in Thread : x # t => pc'[x] = pc[x] /\ level'[x] = level[x]
  BY ZenonT(30), Others DEF BaseInv
<1>3. CASE ~Manual(t) /\ ~BgWait(t)
  <2>1. manual' = manual /\ pc[t] \notin {"manual", "bgwait"}
    BY <1>3, ManualKept
  <2> QED
    BY <1>1, <1>2, <2>1 DEF ManualOwned
<1>4. CASE Manual(t)
  <2>1. /\ manual' = manual \/ (manual = None /\ manual' = t /\ pc' = pc)
        /\ pc' = pc \/ pc' = [pc EXCEPT ![t] = "bgwait"]
        /\ pc[t] = "manual" /\ level' = level
    BY <1>4 DEF Manual, Goto, fullVars, At
  <2> QED
    BY <1>1, <2>1 DEF ManualOwned
<1>5. CASE BgWait(t)
  <2>1. CASE scheduled
    BY SMTT(30), <1>1, <1>5, <2>1 DEF BgWait, Wait, ManualOwned, callVars, manualVars, fullVars
  <2>2. CASE ~scheduled
    <3>1. job = NoJob
      BY <2>2 DEF BaseInv, BgInv
    <3>2. manual' = IF manual = t THEN None ELSE manual
      BY <1>5, <2>2 DEF BgWait, Cancel
    <3> QED
      BY ZenonT(30), <1>1, <1>2, <3>1, <3>2 DEF ManualOwned, NoJob
  <2> QED
    BY <2>1, <2>2
<1> QED
  BY SMTT(30), <1>3, <1>4, <1>5

\* What the background thread relies on holds again after each of its steps.
LEMMA BgInvStep ==
  ASSUME BaseInv, BgStep PROVE BgInv'
<1> USE DEF memVars, manualVars, fileVars, bgVars
<1>0. /\ BgInv /\ bgpc \in BgPieces /\ job \in Jobs \cup {NoJob}
      /\ NoJob \notin Jobs
  BY SMTT(30) DEF BaseInv, TypeOK, NoJob, Jobs
<1>1. CASE BgSkip
  BY ZenonT(30), <1>0, <1>1 DEF BgSkip, Started, BgAt, BgInv
<1>2. CASE BgFlush
  BY <1>0, <1>2 DEF BgFlush, Started, BgAt, BgInv
<1>3. CASE BuildTable
  BY <1>0, <1>3 DEF BuildTable, Unlocked, BgInv
<1>4. CASE Built
  BY SMTT(30), <1>0, <1>4 DEF Built, BgAt, Fail, BgInv
<1>5. CASE LogFlush
  BY <1>0, <1>5 DEF LogFlush, Unlocked, BgInv
<1>6. CASE FlushDone
  BY <1>0, <1>6 DEF FlushDone, BgAt, BgInv
<1>7. CASE WorkFlush
  BY <1>0, <1>7 DEF WorkFlush, BgAt, BgInv
<1>8. CASE WorkEnd
  BY <1>0, <1>8 DEF WorkEnd, BgInv
<1>9. CASE Worked
  BY <1>0, <1>9 DEF Worked, BgAt, Fail, BgInv
<1>10. CASE LogCompaction
  BY SMTT(30), <1>0, <1>10 DEF LogCompaction, Unlocked, BgInv
<1>11. CASE BgManual
  <2>1. CASE bgpc' = "end" /\ job' = job
    BY <1>0, <1>11, <2>1 DEF BgManual, Started, BgAt, BgInv
  <2>2. CASE \E n \in 1 .. nfiles[level[manual]], mv \in BOOLEAN :
               StartJob([kind |-> "manual", level |-> level[manual], n |-> n, move |-> mv])
    <3>1. PICK n \in 1 .. nfiles[level[manual]], mv \in BOOLEAN :
               StartJob([kind |-> "manual", level |-> level[manual], n |-> n, move |-> mv])
      BY SMTT(30), <2>2
    <3>2. job' \in Jobs /\ job'.n <= nfiles[job'.level]
      <4>1. manual \in Thread /\ pc[manual] \in {"manual", "bgwait"}
        BY <1>11 DEF BgManual, BaseInv, ManualOwned, TypeOK
      <4>2. level[manual] \in 0 .. NumLevels - 2
        BY <4>1, JobLevel DEF BaseInv
      <4>3. nfiles[level[manual]] \in Nat
        BY SMTT(30), <4>2, FilesNat DEF BaseInv
      <4> QED
        BY SMTT(30), <3>1, <4>2, <4>3 DEF StartJob, Jobs
    <3>3. bgpc' \in {"clog", "work"} /\ scheduled' /\ nfiles' = nfiles
      <4>1. bgpc' \in {"clog", "work"}
        BY <3>1 DEF StartJob
      <4>2. scheduled' /\ nfiles' = nfiles
        BY <1>11 DEF BgManual, Started
      <4> QED
        BY Zenon, <4>1, <4>2
    <3> QED
      BY SMTT(30), <3>2, <3>3 DEF BgInv
  <2>3. \/ bgpc' = "end" /\ UNCHANGED <<waiting, asleep, job, bgok>>
        \/ \E n \in 1 .. nfiles[level[manual]], mv \in BOOLEAN :
              StartJob([kind |-> "manual", level |-> level[manual], n |-> n, move |-> mv])
    BY Zenon, <1>11 DEF BgManual
  <2> QED
    BY Zenon, <2>1, <2>2, <2>3
<1>12. CASE BgAuto
  <2>1. CASE bgpc' = "end" /\ job' = job
    BY <1>0, <1>12, <2>1 DEF BgAuto, Started, BgAt, BgInv
  <2>2. CASE \E l \in 0 .. NumLevels - 2 : \E n \in 1 .. nfiles[l], mv \in BOOLEAN :
               StartJob([kind |-> "auto", level |-> l, n |-> n, move |-> mv])
    <3>0. PICK l \in 0 .. NumLevels - 2 : \E n \in 1 .. nfiles[l], mv \in BOOLEAN :
               StartJob([kind |-> "auto", level |-> l, n |-> n, move |-> mv])
      BY <2>2
    <3>1. PICK n \in 1 .. nfiles[l], mv \in BOOLEAN :
               StartJob([kind |-> "auto", level |-> l, n |-> n, move |-> mv])
      BY <3>0
    <3>2. job' \in Jobs /\ job'.n <= nfiles[job'.level]
      <4>1. nfiles[l] \in Nat
        BY FilesNat DEF BaseInv
      <4> QED
        BY <3>1, <4>1 DEF StartJob, Jobs
    <3>3. bgpc' \in {"clog", "work"} /\ scheduled' /\ nfiles' = nfiles
      BY <3>1, <1>12 DEF StartJob, BgAuto, Started
    <3> QED
      BY <3>2, <3>3 DEF BgInv
  <2> QED
    BY Zenon, <1>12, <2>1, <2>2 DEF BgAuto
<1>13. CASE ApplyFlush
  <2>1. /\ bgpc = "flogged" /\ bgpc' = "fdone" /\ scheduled' = scheduled /\ job' = job
    BY <1>13 DEF ApplyFlush, BgAt, Fail
  <2>2. nfiles' = nfiles \/ \E l \in Level : nfiles' = [nfiles EXCEPT ![l] = @ + 1]
    BY <1>13 DEF ApplyFlush, FlushedToLevel
  <2>3. ASSUME job \in Jobs PROVE job.n <= nfiles'[job.level]
    <3>1. /\ nfiles \in [Level -> Nat] /\ job.level \in Level /\ job.n \in Nat
          /\ job.n <= nfiles[job.level]
      <4>1. job.level \in 0 .. NumLevels - 2 /\ job.n \in Nat
        BY <2>3 DEF Jobs
      <4>2. nfiles \in [Level -> Nat] /\ job.level \in Level
        BY SMTT(30), <4>1, FilesNat DEF BaseInv, TypeOK
      <4> QED
        BY <1>0, <2>1, <2>3, <4>1, <4>2 DEF BgInv
    <3> QED
      BY <2>2, <3>1
  <2> QED
    BY <1>0, <2>1, <2>3 DEF BgInv
<1>14. CASE ApplyCompaction
  <2>1. bgpc = "clogged" /\ bgpc' = "cdone" /\ scheduled' = scheduled /\ job' = job
    BY <1>14 DEF ApplyCompaction, BgAt, Fail
  <2> QED
    BY <1>0, <2>1 DEF BgInv
<1>15. CASE CompactionDone
  BY SMTT(30), <1>0, <1>15 DEF CompactionDone, BgAt, BgInv
<1>16. CASE BgEnd
  BY <1>0, <1>16 DEF BgEnd, BgAt, BgInv
<1> QED
  BY SMTT(30), <1>1, <1>2, <1>3, <1>4, <1>5, <1>6, <1>7, <1>8, <1>9,
     <1>10, <1>11, <1>12, <1>13, <1>14, <1>15, <1>16 DEF BgStep

\* The background thread withdraws the manual request it has served, and no
\* other; the request it works on keeps its level.
LEMMA ManualBg ==
  ASSUME BaseInv, BgStep PROVE ManualOwned'
<1> USE DEF callVars, manualVars, fullVars, bgVars
<1>0. /\ ManualOwned /\ BgInv /\ job \in Jobs \cup {NoJob} /\ NoJob.kind = "none"
      /\ None \notin Thread
  BY SMTT(30), DBImplAssumption DEF BaseInv, TypeOK, NoJob
<1>1. UNCHANGED <<pc, level>>
  BY ZenonT(30) DEF BgStep, BgSkip, BgFlush, BgManual, BgAuto, BuildTable, Built, LogFlush, ApplyFlush,
     FlushDone, WorkFlush, WorkEnd, Worked, LogCompaction, ApplyCompaction, CompactionDone,
     BgEnd, Unlocked
<1>2. CASE BgManual
  <2>1. bgpc = "none" /\ job = NoJob /\ manual # None
    BY <1>0, <1>2 DEF BgManual, Started, BgAt, BgInv
  <2>2. CASE manual' = None /\ job' = job
    BY SMTT(30), <1>0, <2>1, <2>2 DEF ManualOwned
  <2>3. CASE /\ \E n \in 1 .. nfiles[level[manual]], mv \in BOOLEAN :
                  StartJob([kind |-> "manual", level |-> level[manual], n |-> n, move |-> mv])
             /\ manual' = manual
    <3>1. PICK n \in 1 .. nfiles[level[manual]], mv \in BOOLEAN :
               job' = [kind |-> "manual", level |-> level[manual], n |-> n, move |-> mv]
      BY ZenonT(30), <2>3 DEF StartJob
    <3>2. job'.level = level[manual]
      BY ZenonT(30), <3>1
    <3> QED
      BY SMTT(30), <1>0, <1>1, <2>1, <2>3, <3>2 DEF ManualOwned
  <2> QED
    BY ZenonT(30), <1>2, <2>2, <2>3 DEF BgManual
<1>3. CASE BgAuto
  <2>0. /\ manual' = None
        /\ \/ job' = job
           \/ \E l \in 0 .. NumLevels - 2 : \E n \in 1 .. nfiles[l], mv \in BOOLEAN :
                job' = [kind |-> "auto", level |-> l, n |-> n, move |-> mv]
    BY <1>3 DEF BgAuto, StartJob
  <2>1. manual' = None /\ (job' = job \/ job'.kind = "auto")
    BY SMTT(30), <2>0
  <2>2. job = NoJob
    BY <1>0, <1>3 DEF BgAuto, Started, BgAt, BgInv
  <2> QED
    BY ZenonT(30), <1>0, <2>1, <2>2 DEF ManualOwned
<1>4. CASE CompactionDone
  <2>1. job' = NoJob /\ (manual' = None \/ manual' = manual)
    BY SMTT(30), <1>4 DEF CompactionDone
  <2> QED
    BY <1>0, <1>1, <2>1 DEF ManualOwned
<1>5. CASE ~BgManual /\ ~BgAuto /\ ~CompactionDone
  <2>1. UNCHANGED <<manual, job>>
    BY Zenon, <1>5 DEF BgStep, BgSkip, BgFlush, BuildTable, Built, LogFlush, ApplyFlush, FlushDone,
       WorkFlush, WorkEnd, Worked, LogCompaction, ApplyCompaction, BgEnd, Unlocked
  <2> QED
    BY SMTT(30), <1>0, <1>1, <2>1 DEF ManualOwned
<1> QED
  BY SMTT(30), <1>2, <1>3, <1>4, <1>5

\* BaseInv is inductive.
LEMMA BaseStep == BaseInv /\ [Next]_vars => BaseInv'
<1> SUFFICES ASSUME BaseInv, [Next]_vars PROVE BaseInv'
  OBVIOUS
<1>1. CASE BgStep
  <2>1. LevelInv'
    <3>1. UNCHANGED <<pc, level, maxlevel>>
      BY Zenon, <1>1 DEF BgStep, BgSkip, BgFlush, BgManual, BgAuto, BuildTable, Built, LogFlush,
         ApplyFlush, FlushDone, WorkFlush, WorkEnd, Worked, LogCompaction, ApplyCompaction, CompactionDone,
         BgEnd, Unlocked, callVars, fullVars
    <3> QED
      BY SMTT(30), <3>1 DEF BaseInv, LevelInv, LevelOK
  <2> QED
    BY SMTT(30), <1>1, <2>1, TypeBg, BgInvStep, ManualBg DEF BaseInv
<1>2. ASSUME NEW t \in Thread, Calls(t) \/ ThreadStep(t) PROVE BaseInv'
  <2>1. TypeOK'
    BY SMTT(30), <1>2, TypeCalls, TypeWrite, TypeFull DEF BaseInv, ThreadStep
  <2>2. BgInv'
    <3>1. /\ UNCHANGED <<nfiles, bgpc, job, bgok>>
          /\ scheduled => scheduled'
          /\ imm => imm'
      BY <1>2, ThreadKeeps DEF BaseInv
    <3> QED
      BY Zenon, <3>1 DEF BaseInv, BgInv
  <2> QED
    BY SMTT(30), <1>2, <2>1, <2>2, LevelStep, ManualStep DEF BaseInv
<1>3. CASE UNCHANGED vars
  <2>1. TypeOK'
    <3>1. UNCHANGED <<lockVars, callVars, writeVars, memVars, stateVars, manualVars, fullVars,
                      fileVars, bgVars>>
      BY SMTT(30), <1>3 DEF vars, lockVars, callVars, writeVars, memVars, stateVars, manualVars, fullVars,
         fileVars, bgVars
    <3> QED
      BY SMTT(30), <3>1, Frames, TypeGroups DEF BaseInv
  <2>2. LevelInv' /\ BgInv' /\ ManualOwned'
    BY Zenon, <1>3 DEF vars, BaseInv, LevelInv, LevelOK, BgInv, ManualOwned
  <2> QED
    BY <2>1, <2>2 DEF BaseInv
<1> QED
  BY <1>1, <1>2, <1>3 DEF Next

\* BaseInv holds in every state of the program.
LEMMA Base == Spec => []BaseInv
  BY InitBase, BaseStep, PTL DEF Spec

\* Every variable of DBImpl keeps its type, the levels of the callers, the
\* files a compaction takes and the compaction of the background thread
\* included.
THEOREM TypeCorrect == Spec => []TypeOK
<1>1. BaseInv => TypeOK
  BY DEF BaseInv
<1> QED
  BY Base, <1>1, PTL

\* manual_compaction_ never dangles: its owner is still in TEST_CompactRange or
\* CompactWholeLevel, and the request that BackgroundCompaction finishes is the
\* one it started with.
THEOREM ManualRequestOwned == Spec => []ManualOwned
<1>1. BaseInv => ManualOwned
  BY DEF BaseInv
<1> QED
  BY Base, <1>1, PTL
=============================================================================
