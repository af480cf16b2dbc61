-------------------------- MODULE DBImplTypeProofs --------------------------
(***************************************************************************)
(* The steps of DBImpl keep the types of its variables, for every number   *)
(* of threads, calls, levels and files.                                    *)
(***************************************************************************)
EXTENDS DBImpl, TLAPS

(***************************************************************************)
(* The base invariant: types, the levels the callers walk through, and     *)
(* what the background thread may assume at each of its pieces.            *)
(***************************************************************************)
WriterPcs == {"idle", "gate", "turn", "room", "sleep", "log", "logged"}

LevelOK(t) ==
    /\ t \in Writers => pc[t] \in WriterPcs
    /\ t \in Compactors =>
         /\ pc[t] \in WriterPcs \cup {"maxlevel", "flushed", "manual", "bgwait"}
         /\ IF pc[t] \in {"idle", "maxlevel"} THEN level[t] = 0 ELSE level[t] < maxlevel[t]
    /\ t \in FFCs =>
         /\ pc[t] \notin {"read", "readdone", "close", "closing"}
         /\ IF pc[t] \in {"level", "manual", "bgwait"}
            THEN level[t] <= maxlevel[t] /\ level[t] < NumLevels - 1
            ELSE pc[t] # "finish" => level[t] = 0
    /\ t \in Readers => pc[t] \in {"idle", "read", "readdone"}
    /\ t \in Closers => pc[t] \in {"idle", "close", "closing"}

LevelInv == \A t \in Thread : LevelOK(t)

BgInv ==
    /\ bgpc # "none" => scheduled
    /\ bgpc \in {"build", "built", "flog", "flogged"} => imm
    /\ bgpc \in {"none", "end"} => job = NoJob
    /\ bgpc \in {"work", "worked", "clog", "clogged", "cdone"} => job \in Jobs
    /\ bgpc # "cdone" /\ job \in Jobs => job.n <= nfiles[job.level]

BaseInv == TypeOK /\ LevelInv /\ BgInv /\ ManualOwned

-----------------------------------------------------------------------------
(***************************************************************************)
(* TypeOK, group by group of variables.                                    *)
(***************************************************************************)
LockType ==
    /\ mutex \in Thread \cup {None, Bg}
    /\ waiting \subseteq Thread /\ asleep \subseteq Thread
CallType == pc \in [Thread -> Pieces] /\ calls \in [Thread -> 0 .. MaxCalls]
WriteType ==
    /\ queue \in Seq(Thread) /\ sync \in [Thread -> BOOLEAN]
    /\ done \in [Thread -> BOOLEAN] /\ ok \in [Thread -> BOOLEAN]
    /\ force \in BOOLEAN /\ delay \in BOOLEAN /\ group \in Nat
    /\ logged \in {"ok", "fail", "syncfail"}
MemType ==
    /\ dirty \in BOOLEAN /\ memfull \in BOOLEAN /\ imm \in BOOLEAN
StateType == err \in BOOLEAN /\ shutting \in BOOLEAN /\ closed \in BOOLEAN
ManualType ==
    /\ scheduled \in BOOLEAN /\ manual \in Thread \cup {None}
    /\ mdone \in [Thread -> BOOLEAN] /\ mpart \in [Thread -> BOOLEAN]
FullType ==
    /\ level \in [Thread -> Nat] /\ maxlevel \in [Thread -> Level \cup {-1}]
    /\ ffc \in BOOLEAN
FileType == nfiles \in [Level -> Nat] /\ seek \in BOOLEAN
BgType == bgpc \in BgPieces /\ job \in Jobs \cup {NoJob} /\ bgok \in BOOLEAN

\* The groups make up TypeOK, before a step and after it.
LEMMA TypeGroups ==
    /\ TypeOK <=> /\ LockType /\ CallType /\ WriteType /\ MemType /\ StateType
                  /\ ManualType /\ FullType /\ FileType /\ BgType
    /\ TypeOK' <=> /\ LockType' /\ CallType' /\ WriteType' /\ MemType' /\ StateType'
                   /\ ManualType' /\ FullType' /\ FileType' /\ BgType'
  BY DEF TypeOK, LockType, CallType, WriteType, MemType, StateType, ManualType, FullType,
     FileType, BgType

\* A group that a step leaves alone keeps its type.
LEMMA Frames ==
    /\ LockType /\ UNCHANGED lockVars => LockType'
    /\ CallType /\ UNCHANGED callVars => CallType'
    /\ WriteType /\ UNCHANGED writeVars => WriteType'
    /\ MemType /\ UNCHANGED memVars => MemType'
    /\ StateType /\ UNCHANGED stateVars => StateType'
    /\ ManualType /\ UNCHANGED manualVars => ManualType'
    /\ FullType /\ UNCHANGED fullVars => FullType'
    /\ FileType /\ UNCHANGED fileVars => FileType'
    /\ BgType /\ UNCHANGED bgVars => BgType'
<1>1. LockType /\ UNCHANGED lockVars => LockType'
  BY DEF LockType, lockVars
<1>2. CallType /\ UNCHANGED callVars => CallType'
  BY DEF CallType, callVars
<1>3. WriteType /\ UNCHANGED writeVars => WriteType'
  BY DEF WriteType, writeVars
<1>4. MemType /\ UNCHANGED memVars => MemType'
  BY DEF MemType, memVars
<1>5. StateType /\ UNCHANGED stateVars => StateType'
  BY DEF StateType, stateVars
<1>6. ManualType /\ UNCHANGED manualVars => ManualType'
  BY DEF ManualType, manualVars
<1>7. FullType /\ UNCHANGED fullVars => FullType'
  BY DEF FullType, fullVars
<1>8. FileType /\ UNCHANGED fileVars => FileType'
  BY DEF FileType, fileVars
<1>9. BgType /\ UNCHANGED bgVars => BgType'
  BY DEF BgType, bgVars
<1> QED
  BY <1>1, <1>2, <1>3, <1>4, <1>5, <1>6, <1>7, <1>8, <1>9


\* A database that was just opened has the right types.
LEMMA InitType == Init => TypeOK
<1> SUFFICES ASSUME Init PROVE TypeOK
  OBVIOUS
<1>0. PICK s \in Scenarios :
        /\ calls = [t \in Thread |-> IF t \in s.threads THEN 0 ELSE MaxCalls]
        /\ nfiles = [l \in Level |-> IF l = 0 THEN s.l0 ELSE 0]
  BY Zenon DEF Init
<1>00. s.l0 \in Nat /\ MaxCalls \in Nat
  BY DBImplAssumption
<1> USE DBImplAssumption DEF Init
<1>1. mutex \in Thread \cup {None, Bg} /\ waiting \subseteq Thread /\ asleep \subseteq Thread
  OBVIOUS
<1>2. pc \in [Thread -> Pieces] /\ calls \in [Thread -> 0 .. MaxCalls]
  <2>1. pc \in [Thread -> Pieces]
    BY DEF Pieces
  <2>2. calls \in [Thread -> 0 .. MaxCalls]
    BY <1>0, <1>00
  <2> QED
    BY <2>1, <2>2
<1>3. /\ queue \in Seq(Thread) /\ sync \in [Thread -> BOOLEAN]
      /\ done \in [Thread -> BOOLEAN] /\ ok \in [Thread -> BOOLEAN]
  OBVIOUS
<1>4. force \in BOOLEAN /\ delay \in BOOLEAN
  BY Zenon
<1>5. group \in Nat /\ logged \in {"ok", "fail", "syncfail"}
  OBVIOUS
<1>6. dirty \in BOOLEAN /\ memfull \in BOOLEAN /\ imm \in BOOLEAN
  BY Zenon
<1>7. err \in BOOLEAN /\ shutting \in BOOLEAN /\ closed \in BOOLEAN
  BY Zenon
<1>8. scheduled \in BOOLEAN /\ ffc \in BOOLEAN /\ seek \in BOOLEAN /\ bgok \in BOOLEAN
  BY Zenon DEF MaybeSchedule
<1>9. /\ manual \in Thread \cup {None}
      /\ mdone \in [Thread -> BOOLEAN] 
  OBVIOUS
<1>10. mpart \in [Thread -> BOOLEAN]
  OBVIOUS
<1>11. level \in [Thread -> Nat] /\ maxlevel \in [Thread -> Level \cup {-1}]
  OBVIOUS
<1>13. nfiles \in [Level -> Nat]
  BY <1>0, <1>00
<1>12. bgpc \in BgPieces /\ job \in Jobs \cup {NoJob}
  BY DEF BgPieces
<1> QED
  BY <1>1, <1>2, <1>3, <1>4, <1>5, <1>6, <1>7, <1>8, <1>9, <1>10, <1>11, <1>12, <1>13
  DEF TypeOK

\* It satisfies the base invariant: all threads are idle.
LEMMA InitBase == Init => BaseInv
<1>1. Init => LevelInv
  BY DEF Init, LevelInv, LevelOK, WriterPcs
<1>2. Init => BgInv
  BY DEF Init, BgInv, NoJob, Jobs
<1>3. Init => ManualOwned
  BY DEF Init, ManualOwned, NoJob
<1> QED
  BY InitType, <1>1, <1>2, <1>3 DEF BaseInv

\* The types of the variables that PopGroup assigns.
PoppedOK ==
    /\ queue \in Seq(Thread) /\ sync \in [Thread -> BOOLEAN]
    /\ done \in [Thread -> BOOLEAN] /\ ok \in [Thread -> BOOLEAN]
    /\ force \in BOOLEAN /\ delay \in BOOLEAN
    /\ group \in Nat /\ logged \in {"ok", "fail", "syncfail"}
    /\ asleep \subseteq Thread /\ waiting \subseteq Thread
    /\ mutex \in Thread \cup {None, Bg}
    /\ pc \in [Thread -> Pieces]

\* The end of Write by the front writer keeps the types.
LEMMA PopGroupType ==
  ASSUME TypeOK, NEW t \in Thread, NEW n \in Nat, NEW s \in BOOLEAN, PopGroup(t, n, s)
  PROVE  PoppedOK'
<1>1. queue' \in Seq(Thread)
  BY DEF TypeOK, PopGroup
<1>2. sync' \in [Thread -> BOOLEAN] /\ done' \in [Thread -> BOOLEAN]
  BY DEF TypeOK, PopGroup
<1>3. ok' \in [Thread -> BOOLEAN]
  BY DEF TypeOK, PopGroup
<1>4. force' \in BOOLEAN /\ delay' \in BOOLEAN
  BY Zenon DEF PopGroup
<1>5. /\ group' \in Nat /\ logged' \in {"ok", "fail", "syncfail"}
      /\ asleep' \subseteq Thread /\ waiting' \subseteq Thread
      /\ mutex' \in Thread \cup {None, Bg}
  BY DEF TypeOK, PopGroup, SignalAll, Unlock
<1>6. pc' \in [Thread -> Pieces]
  BY DEF TypeOK, PopGroup, Goto, AfterWrite, Pieces
<1> QED
  BY <1>1, <1>2, <1>3, <1>4, <1>5, <1>6 DEF PoppedOK

\* So does the start of a call.
LEMMA TypeCalls ==
  ASSUME TypeOK, NEW t \in Thread, Calls(t) PROVE TypeOK'
<1>1. ASSUME NEW l \in Pieces, Call(t, l)
      PROVE  pc' \in [Thread -> Pieces] /\ calls' \in [Thread -> 0 .. MaxCalls]
  BY <1>1, DBImplAssumption DEF TypeOK, Call, Goto
<1>2. CASE CallWrite(t)
  <2>1. sync' \in [Thread -> BOOLEAN]
    BY SMTT(30), <1>2 DEF CallWrite, TypeOK
  <2> QED
    BY <1>2, <1>1, <2>1, Frames, TypeGroups DEF CallWrite, Call, Pieces, CallType,
       WriteType, MemType
<1>3. CASE CallForceFullCompaction(t)
  <2>1. sync' \in [Thread -> BOOLEAN]
    BY SMTT(30), <1>3 DEF CallForceFullCompaction, TypeOK
  <2> QED
    BY <1>3, <1>1, <2>1, Frames, TypeGroups DEF CallForceFullCompaction, Call, Pieces,
       CallType, WriteType, MemType
<1>4. CASE CallCompactRange(t)
  BY SMTT(30), <1>4, <1>1, Frames, TypeGroups DEF CallCompactRange, Call, Pieces, CallType, WriteType,
     MemType
<1>5. CASE CallGet(t)
  BY SMTT(30), <1>5, <1>1, Frames, TypeGroups DEF CallGet, Call, Pieces, CallType, WriteType, MemType
<1>6. CASE CallClose(t)
  BY <1>6, <1>1, Frames, TypeGroups DEF CallClose, Call, Pieces, CallType, WriteType,
     MemType
<1> QED
  BY <1>2, <1>3, <1>4, <1>5, <1>6 DEF Calls

\* So does a wait on background_work_finished_signal_.
LEMMA TypeWait ==
  ASSUME TypeOK, NEW t \in Thread, Wait(t) PROVE TypeOK'
  BY Frames, TypeGroups DEF Wait, Unlock, LockType

\* MaybeScheduleCompaction yields a Boolean.
LEMMA MaybeScheduleType ==
  ASSUME NEW sched \in BOOLEAN, NEW e, NEW f, NEW i, NEW m, NEW nf, NEW sk
  PROVE  MaybeSchedule(sched, e, f, i, m, nf, sk) \in BOOLEAN
  BY DEF MaybeSchedule

\* The steps of Write.
LEMMA TypeWrite ==
  ASSUME TypeOK, NEW t \in Thread,
         \/ Gate(t) \/ Turn(t) \/ RoomError(t) \/ RoomDelay(t) \/ SleepForMicroseconds(t)
         \/ RoomReady(t) \/ RoomWait(t) \/ RoomSwitch(t) \/ WriteLog(t) \/ Logged(t)
  PROVE  TypeOK'
<1>1. CASE Gate(t)
  <2>1. CASE t \in Writers /\ ShouldWait
    BY SMTT(30), <1>1, <2>1, TypeWait DEF Gate
  <2>2. CASE ~(t \in Writers /\ ShouldWait)
    <3>1. /\ queue' = Append(queue, t) /\ done' = [done EXCEPT ![t] = FALSE]
          /\ Goto(t, "turn") /\ Hold(t)
          /\ UNCHANGED <<waiting, asleep, calls, sync, ok, force, delay, group, logged, memVars,
                         stateVars, manualVars, fullVars, fileVars, bgVars>>
      BY <1>1, <2>2 DEF Gate
    <3>2. done' \in [Thread -> BOOLEAN]
      BY <3>1 DEF TypeOK
    <3>3. pc' \in [Thread -> Pieces]
      BY SMTT(30), <3>1 DEF TypeOK, Goto, Pieces
    <3> QED
      BY <3>1, <3>2, <3>3, Frames, TypeGroups DEF Hold, LockType, CallType, WriteType
  <2> QED
    BY <2>1, <2>2
<1>2. CASE Turn(t)
  <2>1. pc' \in [Thread -> Pieces]
    BY Zenon, <1>2 DEF TypeOK, Turn, Goto, Pieces, AfterWrite
  <2>2. mutex' \in Thread \cup {None, Bg} /\ asleep' \subseteq Thread
    BY <1>2 DEF TypeOK, Turn, Hold, Unlock
  <2>3. done' \in [Thread -> BOOLEAN] /\ ok' \in [Thread -> BOOLEAN]
    BY Zenon, <1>2 DEF TypeOK, Turn
  <2>4. force' \in BOOLEAN /\ delay' \in BOOLEAN
    <3>1. (t \in NullWriters) \in BOOLEAN /\ (t \notin NullWriters) \in BOOLEAN
      OBVIOUS
    <3> QED
      BY Zenon, <1>2, <3>1 DEF TypeOK, Turn
  <2>5. /\ UNCHANGED <<waiting, calls, queue, sync, group, logged>>
        /\ UNCHANGED memVars /\ UNCHANGED stateVars /\ UNCHANGED manualVars
        /\ UNCHANGED fullVars /\ UNCHANGED fileVars /\ UNCHANGED bgVars
    BY <1>2 DEF Turn
  <2>6. LockType' /\ CallType'
    BY <2>1, <2>2, <2>5 DEF TypeOK, LockType, CallType
  <2>7. WriteType'
    BY <2>3, <2>4, <2>5 DEF TypeOK, WriteType
  <2> QED
    BY Zenon, <2>5, <2>6, <2>7, Frames, TypeGroups
<1>3. CASE RoomError(t)
  <2>1. PoppedOK'
    BY ZenonT(30), <1>3, PopGroupType DEF RoomError
  <2> QED
    BY <1>3, <2>1, Frames, TypeGroups DEF RoomError, PoppedOK, LockType, CallType, WriteType
<1>4. CASE RoomDelay(t)
  <2>1. pc' \in [Thread -> Pieces]
    BY <1>4 DEF TypeOK, RoomDelay, Goto, Pieces
  <2> QED
    BY <1>4, <2>1, Frames, TypeGroups DEF RoomDelay, Unlock, LockType, CallType
<1>5. CASE SleepForMicroseconds(t)
  <2>1. pc' \in [Thread -> Pieces]
    BY <1>5 DEF TypeOK, SleepForMicroseconds, Goto, Pieces
  <2>2. delay' \in BOOLEAN
    BY Zenon, <1>5 DEF SleepForMicroseconds
  <2> QED
    BY <1>5, <2>1, <2>2, Frames, TypeGroups DEF SleepForMicroseconds, CallType, WriteType
<1>6. CASE RoomReady(t)
  <2>0. UNCHANGED <<calls, memVars, stateVars, manualVars, fullVars, fileVars, bgVars>>
    BY <1>6 DEF RoomReady
  <2>1. CASE PopGroup(t, 1, TRUE)
    <3>1. PoppedOK'
      BY Zenon, <2>1, PopGroupType
    <3> QED
      BY <2>0, <3>1, Frames, TypeGroups DEF PoppedOK, LockType, CallType, WriteType
  <2>2. CASE ~PopGroup(t, 1, TRUE)
    <3>0. /\ group' \in BuildBatchGroup(t) /\ delay' = FALSE /\ Goto(t, "log") /\ Unlock
          /\ UNCHANGED <<waiting, asleep, queue, sync, done, ok, force, logged>>
      BY Zenon, <1>6, <2>2 DEF RoomReady
    <3>1. pc' \in [Thread -> Pieces]
      BY <3>0 DEF TypeOK, Goto, Pieces
    <3>2. delay' \in BOOLEAN
      BY Zenon, <3>0
    <3>3. group' \in Nat
      BY <3>0 DEF BuildBatchGroup, TypeOK
    <3> QED
      BY <2>0, <3>0, <3>1, <3>2, <3>3, Frames, TypeGroups DEF Unlock, LockType, CallType,
         WriteType
  <2> QED
    BY ZenonT(30), <2>1, <2>2
<1>7. CASE RoomWait(t)
  BY <1>7, TypeWait DEF RoomWait
<1>8. CASE RoomSwitch(t)
  <2>0. /\ UNCHANGED <<calls, shutting, closed, manual, mdone, mpart, fullVars, fileVars, bgVars>>
        /\ scheduled \in BOOLEAN
    BY <1>8 DEF RoomSwitch, TypeOK
  <2>1. CASE PopGroup(t, 1, FALSE) /\ UNCHANGED <<memVars, err, scheduled>>
    <3>1. PoppedOK'
      BY Zenon, <2>1, PopGroupType
    <3> QED
      BY <2>0, <2>1, <3>1, Frames, TypeGroups DEF PoppedOK, LockType, CallType, WriteType,
         StateType, ManualType
  <2>2. CASE ~(PopGroup(t, 1, FALSE) /\ UNCHANGED <<memVars, err, scheduled>>)
    <3>0. /\ err' \in {FALSE, IOErrors} /\ waiting' = IF err' THEN {} ELSE waiting
          /\ imm' = TRUE /\ dirty' = FALSE /\ memfull' = FALSE /\ force' = FALSE
          /\ scheduled' = MaybeSchedule(scheduled, err', ffc, TRUE, manual, nfiles, seek)
          /\ Hold(t)
          /\ UNCHANGED <<asleep, pc, queue, sync, done, ok, delay, group, logged>>
      BY Zenon, <1>8, <2>2 DEF RoomSwitch
    <3>1. err' \in BOOLEAN /\ force' \in BOOLEAN
      BY Zenon, <3>0, DBImplAssumption
    <3>2. imm' \in BOOLEAN /\ dirty' \in BOOLEAN /\ memfull' \in BOOLEAN
      BY Zenon, <3>0
    <3>3. scheduled' \in BOOLEAN
      BY <2>0, <3>0, MaybeScheduleType, Zenon
    <3>5. waiting' \subseteq Thread /\ mutex' \in Thread \cup {None, Bg}
      BY <3>0 DEF TypeOK, Hold
    <3> QED
      BY ZenonT(30), <2>0, <3>0, <3>1, <3>2, <3>3, <3>5, Frames, TypeGroups DEF LockType,
         CallType, WriteType, MemType, StateType, ManualType
  <2> QED
    BY Zenon, <2>1, <2>2
<1>9. CASE WriteLog(t)
  <2>1. dirty' \in BOOLEAN /\ memfull' \in BOOLEAN
    BY Zenon, <1>9 DEF WriteLog, TypeOK
  <2>2. pc' \in [Thread -> Pieces] /\ logged' \in {"ok", "fail", "syncfail"}
    BY Zenon, <1>9 DEF WriteLog, TypeOK, Goto, Pieces
  <2>3. /\ UNCHANGED <<calls, queue, sync, done, ok, force, delay, group, imm>>
        /\ UNCHANGED lockVars /\ UNCHANGED stateVars /\ UNCHANGED manualVars
        /\ UNCHANGED fullVars /\ UNCHANGED fileVars /\ UNCHANGED bgVars
    BY <1>9 DEF WriteLog
  <2>4. CallType' /\ MemType'
    BY <2>1, <2>2, <2>3 DEF TypeOK, CallType, MemType
  <2>5. WriteType'
    BY <2>2, <2>3 DEF TypeOK, WriteType
  <2> QED
    BY Zenon, <2>3, <2>4, <2>5, Frames, TypeGroups
<1>10. CASE Logged(t)
  <2>1. PoppedOK'
    <3>1. PopGroup(t, group, logged = "ok") /\ group \in Nat /\ (logged = "ok") \in BOOLEAN
      BY <1>10 DEF Logged, TypeOK
    <3> QED
      BY ZenonT(30), <3>1, PopGroupType
  <2>2. err' \in BOOLEAN
    BY <1>10 DEF Logged, TypeOK
  <2> QED
    BY Zenon, <1>10, <2>1, <2>2, Frames, TypeGroups DEF Logged, PoppedOK, LockType, CallType,
       WriteType, StateType
<1> QED
  BY <1>1, <1>2, <1>3, <1>4, <1>5, <1>6, <1>7, <1>8, <1>9, <1>10

\* The steps of CompactRange, ForceFullCompaction, Get and the destructor.
LEMMA TypeFull ==
  ASSUME TypeOK, NEW t \in Thread,
         \/ MaxLevel(t) \/ Flushed(t) \/ Lockdown(t) \/ Drain(t) \/ FullLevel(t) \/ Manual(t)
         \/ BgWait(t) \/ Finish(t) \/ Read(t) \/ ReadDone(t) \/ Close(t) \/ Closing(t)
  PROVE  TypeOK'
<1>1. CASE MaxLevel(t)
  <2>1. pc' \in [Thread -> Pieces]
    BY ZenonT(30), <1>1 DEF MaxLevel, TypeOK, Goto, Pieces
  <2>2. PICK m \in Level \cup {-1} : maxlevel' = [maxlevel EXCEPT ![t] = m]
    <3>1. 1 \in Level
      BY DBImplAssumption DEF Level
    <3>2. CASE t \in Compactors
      BY <1>1, <3>1, <3>2 DEF MaxLevel
    <3>3. CASE t \notin Compactors
      BY <1>1, <3>3 DEF MaxLevel
    <3> QED
      BY <3>2, <3>3
  <2>3. maxlevel' \in [Thread -> Level \cup {-1}]
    BY <2>2 DEF TypeOK
  <2> QED
    BY SMTT(30), <1>1, <2>1, <2>3, Frames, TypeGroups DEF MaxLevel, Unlock, LockType, CallType,
       FullType
<1>2. CASE Flushed(t)
  <2>1. CASE imm /\ Usable
    BY SMTT(30), <1>2, <2>1, TypeWait DEF Flushed
  <2>2. CASE ~(imm /\ Usable)
    <3>1. pc' \in [Thread -> Pieces]
      BY ZenonT(30), <1>2, <2>2 DEF Flushed, TypeOK, Goto, Pieces
    <3>2. /\ Unlock
          /\ UNCHANGED <<waiting, asleep, calls, writeVars, memVars, stateVars, manualVars,
                         fullVars, fileVars, bgVars>>
      BY <1>2, <2>2 DEF Flushed
    <3> QED
      BY SMTT(30), <3>1, <3>2, Frames, TypeGroups DEF Unlock, LockType, CallType
  <2> QED
    BY <2>1, <2>2
<1>3. CASE Lockdown(t)
  <2>1. CASE ffc
    BY <1>3, <2>1, TypeWait DEF Lockdown
  <2>2. CASE ~ffc
    <3>1. pc' \in [Thread -> Pieces] /\ mutex' = t
      BY ZenonT(30), <1>3, <2>2 DEF Lockdown, TypeOK, Goto, Pieces, Hold
    <3>2. ffc' \in BOOLEAN
      BY <1>3, <2>2 DEF Lockdown
    <3> QED
      BY <1>3, <2>2, <3>1, <3>2, Frames, TypeGroups DEF Lockdown, LockType, CallType,
         FullType
  <2> QED
    BY <2>1, <2>2
<1>4. CASE Drain(t)
  <2>1. CASE (scheduled \/ manual # None) /\ Usable
    BY <1>4, <2>1, TypeWait DEF Drain
  <2>2. CASE ~((scheduled \/ manual # None) /\ Usable)
    <3>0. /\ \/ Goto(t, "maxlevel") /\ UNCHANGED <<ffc, waiting>>
             \/ Goto(t, "idle") /\ ffc' = FALSE /\ SignalAll
          /\ Unlock
          /\ UNCHANGED <<asleep, calls, writeVars, memVars, stateVars, manualVars, level,
                         maxlevel, fileVars, bgVars>>
      BY SMTT(30), <1>4, <2>2 DEF Drain
    <3>1. pc' \in [Thread -> Pieces]
      BY Zenon, <3>0 DEF TypeOK, Goto, Pieces
    <3>2. ffc' \in BOOLEAN
      BY ZenonT(30), <3>0 DEF TypeOK
    <3> QED
      BY <3>0, <3>1, <3>2, Frames, TypeGroups DEF Unlock, SignalAll, LockType, CallType,
         FullType
  <2> QED
    BY <2>1, <2>2
<1>5. CASE FullLevel(t)
  <2>1. pc' \in [Thread -> Pieces]
    BY ZenonT(30), <1>5 DEF FullLevel, TypeOK, Goto, Pieces, NextLevel
  <2>2. level' = level \/ level' = [level EXCEPT ![t] = @ + 1]
    BY <1>5 DEF FullLevel
  <2>3. level' \in [Thread -> Nat]
    <3>1. level \in [Thread -> Nat]
      BY DEF TypeOK
    <3> QED
      BY <2>2, <3>1
  <2> QED
    BY Zenon, <1>5, <2>1, <2>3, Frames, TypeGroups DEF FullLevel, Unlock, LockType, CallType, FullType
<1>6. CASE Manual(t)
  <2>0. UNCHANGED <<asleep, calls, writeVars, memVars, stateVars, mdone, mpart, fullVars,
                    fileVars, bgVars>>
    BY SMTT(30), <1>6 DEF Manual
  <2>1. CASE ~mdone[t] /\ Usable
    <3>0. /\ manual' = IF manual = None THEN t ELSE manual
          /\ scheduled' = IF manual = None
                          THEN MaybeSchedule(scheduled, err, ffc, imm, t, nfiles, seek)
                          ELSE scheduled
          /\ waiting' = waiting \cup {t} /\ Unlock /\ UNCHANGED pc
      BY <1>6, <2>1 DEF Manual
    <3>1. scheduled' \in BOOLEAN
      BY <3>0, MaybeScheduleType, Zenon DEF TypeOK
    <3> QED
      BY SMTT(30), <2>0, <3>0, <3>1, Frames, TypeGroups DEF Unlock, LockType, CallType, ManualType
  <2>2. CASE ~(~mdone[t] /\ Usable)
    <3>0. Goto(t, "bgwait") /\ Hold(t) /\ UNCHANGED <<waiting, scheduled, manual>>
      BY SMTT(30), <1>6, <2>2 DEF Manual
    <3>1. pc' \in [Thread -> Pieces]
      BY SMTT(30), <3>0 DEF TypeOK, Goto, Pieces
    <3> QED
      BY SMTT(30), <2>0, <3>0, <3>1, Frames, TypeGroups DEF Hold, LockType, CallType, ManualType
  <2> QED
    BY <2>1, <2>2
<1>7. CASE BgWait(t)
  <2>1. CASE scheduled
    BY SMTT(30), <1>7, <2>1, TypeWait DEF BgWait
  <2>2. CASE ~scheduled
    <3>0. /\ manual' = Cancel(t)
          /\ mdone' = [mdone EXCEPT ![t] = FALSE]
          /\ mpart' = [mpart EXCEPT ![t] = t \in Compactors]
          /\ level' = [level EXCEPT ![t] = @ + 1] \/ level' = [level EXCEPT ![t] = 0]
          /\ \E l \in {"level", "finish", "manual", "idle"} : Goto(t, l)
          /\ Unlock
          /\ UNCHANGED <<waiting, asleep, calls, writeVars, memVars, stateVars, scheduled,
                         maxlevel, ffc, fileVars, bgVars>>
      <4>1. NextLevel(t, level[t] + 1) \in {"level", "finish"}
        BY ZenonT(30) DEF NextLevel
      <4> QED
        BY SMTT(30), <1>7, <2>2, <4>1 DEF BgWait
    <3>1. pc' \in [Thread -> Pieces]
      BY <3>0 DEF TypeOK, Goto, Pieces
    <3>2. level' \in [Thread -> Nat]
      <4>1. level \in [Thread -> Nat]
        BY DEF TypeOK
      <4> QED
        BY SMTT(30), <3>0, <4>1
    <3>3. mdone' \in [Thread -> BOOLEAN] /\ manual' \in Thread \cup {None}
      BY SMTT(30), <3>0 DEF TypeOK, Cancel
    <3>4. mpart' \in [Thread -> BOOLEAN]
      BY <3>0 DEF TypeOK
    <3>5. /\ Unlock
          /\ UNCHANGED <<waiting, asleep, calls, writeVars, memVars, stateVars, scheduled,
                         maxlevel, ffc, fileVars, bgVars>>
      BY SMTT(30), <3>0
    <3> QED
      BY ZenonT(30), <3>1, <3>2, <3>3, <3>4, <3>5, Frames, TypeGroups DEF Unlock, LockType, CallType,
         ManualType, FullType
  <2> QED
    BY <2>1, <2>2
<1>8. CASE Finish(t)
  <2>1. pc' \in [Thread -> Pieces] /\ level' \in [Thread -> Nat]
    BY <1>8 DEF Finish, TypeOK, Goto, Pieces
  <2>2. ffc' \in BOOLEAN
    BY ZenonT(30), <1>8 DEF Finish
  <2> QED
    BY ZenonT(30), <1>8, <2>1, <2>2, Frames, TypeGroups DEF Finish, Unlock, SignalAll, LockType,
       CallType, FullType
<1>9. CASE Read(t)
  <2>1. CASE ShouldWait
    BY <1>9, <2>1, TypeWait DEF Read
  <2>2. CASE ~ShouldWait
    <3>0. /\ Goto(t, "readdone") /\ Unlock
          /\ UNCHANGED <<waiting, asleep, calls, writeVars, memVars, stateVars, manualVars,
                         fullVars, fileVars, bgVars>>
      BY SMTT(30), <1>9, <2>2 DEF Read
    <3>1. pc' \in [Thread -> Pieces]
      BY SMTT(30), <3>0 DEF TypeOK, Goto, Pieces
    <3> QED
      BY <3>0, <3>1, Frames, TypeGroups DEF Unlock, LockType, CallType
  <2> QED
    BY <2>1, <2>2
<1>10. CASE ReadDone(t)
  <2>1. pc' \in [Thread -> Pieces]
    BY SMTT(30), <1>10 DEF ReadDone, TypeOK, Goto, Pieces
  <2>2. seek' \in BOOLEAN
    BY Zenon, <1>10 DEF ReadDone, TypeOK
  <2>3. scheduled' \in BOOLEAN
    <3>1. \/ scheduled' = MaybeSchedule(scheduled, err, ffc, imm, manual, nfiles, TRUE)
          \/ scheduled' = scheduled
      BY ZenonT(30), <1>10 DEF ReadDone
    <3>2. scheduled \in BOOLEAN
      BY DEF TypeOK
    <3>3. MaybeSchedule(scheduled, err, ffc, imm, manual, nfiles, TRUE) \in BOOLEAN
      BY <3>2, MaybeScheduleType, Zenon
    <3> QED
      BY Zenon, <3>1, <3>2, <3>3
  <2>4. /\ Unlock
        /\ UNCHANGED <<waiting, asleep, calls, writeVars, memVars, stateVars, manual, mdone,
                       mpart, fullVars, nfiles, bgVars>>
    BY <1>10 DEF ReadDone
  <2> QED
    BY ZenonT(30), <2>1, <2>2, <2>3, <2>4, Frames, TypeGroups DEF Unlock, LockType, CallType,
       ManualType, FileType
<1>11. CASE Close(t)
  <2>1. pc' \in [Thread -> Pieces]
    BY <1>11 DEF Close, TypeOK, Goto, Pieces
  <2>2. shutting' \in BOOLEAN
    BY <1>11 DEF Close
  <2> QED
    BY SMTT(30), <1>11, <2>1, <2>2, Frames, TypeGroups DEF Close, Hold, LockType, CallType, StateType
<1>12. CASE Closing(t)
  <2>1. CASE scheduled \/ ffc
    BY SMTT(30), <1>12, <2>1, TypeWait DEF Closing
  <2>2. CASE ~(scheduled \/ ffc)
    <3>1. pc' \in [Thread -> Pieces]
      BY ZenonT(30), <1>12, <2>2 DEF Closing, TypeOK, Goto, Pieces
    <3>2. closed' \in BOOLEAN
      BY <1>12, <2>2 DEF Closing
    <3>3. /\ Unlock
          /\ UNCHANGED <<waiting, asleep, calls, writeVars, memVars, err, shutting, manualVars,
                         fullVars, fileVars, bgVars>>
      BY <1>12, <2>2 DEF Closing
    <3> QED
      BY SMTT(30), <3>1, <3>2, <3>3, Frames, TypeGroups DEF Unlock, LockType, CallType, StateType
  <2> QED
    BY <2>1, <2>2
<1> QED
  BY <1>1, <1>2, <1>3, <1>4, <1>5, <1>6, <1>7, <1>8, <1>9, <1>10, <1>11, <1>12

\* CompactRange and ForceFullCompaction ask for a level that has another one
\* below it: assert(level + 1 < config::kNumLevels) holds in both.
LEMMA JobLevel ==
  ASSUME TypeOK, LevelInv, NEW t \in Thread, pc[t] \in {"manual", "bgwait"}
  PROVE  level[t] \in 0 .. NumLevels - 2
<1>1. t \in Compactors \/ t \in FFCs
  BY DEF LevelInv, LevelOK, WriterPcs, Thread
<1>2. level[t] \in Nat /\ maxlevel[t] \in Level \cup {-1}
  BY DEF TypeOK
<1>3. CASE t \in Compactors
  <2>1. level[t] < maxlevel[t]
    BY <1>3 DEF LevelInv, LevelOK
  <2> QED
    BY SMTT(30), <1>2, <2>1, DBImplAssumption DEF Level
<1>4. CASE t \in FFCs
  <2>1. level[t] < NumLevels - 1
    BY <1>4 DEF LevelInv, LevelOK
  <2>2. level[t] \in Nat /\ NumLevels \in Nat
    BY <1>2, DBImplAssumption
  <2> QED
    BY <2>1, <2>2
<1> QED
  BY <1>1, <1>3, <1>4

\* A level that a compaction starts from has a number of files.
LEMMA FilesNat ==
  ASSUME TypeOK, NEW l \in 0 .. NumLevels - 2
  PROVE  l \in Level /\ nfiles[l] \in Nat
<1>1. NumLevels \in Nat
  BY DBImplAssumption
<1>2. l \in Level
  BY <1>1 DEF Level
<1>3. nfiles \in [Level -> Nat]
  BY DEF TypeOK
<1> QED
  BY <1>2, <1>3

\* The steps of the background thread.
LEMMA TypeBg ==
  ASSUME BaseInv, BgStep PROVE TypeOK'
<1> USE DEF BaseInv
<1>1. CASE BgSkip
  BY SMTT(30), <1>1, Frames, TypeGroups DEF BgSkip, Hold, BgPieces, LockType, BgType
<1>2. CASE BgFlush
  BY <1>2, Frames, TypeGroups DEF BgFlush, Unlock, BgPieces, LockType, BgType
<1>3. ASSUME NEW c \in Jobs, StartJob(c)
      PROVE  /\ job' \in Jobs \cup {NoJob} /\ bgok' \in BOOLEAN /\ bgpc' \in BgPieces
             /\ mutex' = None /\ UNCHANGED <<waiting, asleep>>
  <2>1. bgok' \in BOOLEAN
    BY SMTT(30), <1>3 DEF StartJob
  <2> QED
    BY <1>3, <2>1 DEF StartJob, Unlock, BgPieces
<1>4. CASE BgManual
  <2>0. UNCHANGED <<callVars, writeVars, memVars, stateVars, scheduled, mpart, fullVars, fileVars>>
    BY ZenonT(30), <1>4 DEF BgManual
  <2>1. CASE /\ mdone' = [mdone EXCEPT ![manual] = TRUE] /\ manual' = None
             /\ bgpc' = "end" /\ Hold(Bg) /\ UNCHANGED <<waiting, asleep, job, bgok>>
    <3>1. mdone' \in [Thread -> BOOLEAN]
      BY ZenonT(30), <2>1 DEF TypeOK
    <3> QED
      BY SMTT(30), <2>0, <2>1, <3>1, Frames, TypeGroups DEF Hold, BgPieces, LockType, ManualType,
         BgType
  <2>2. CASE \E n \in 1 .. nfiles[level[manual]], mv \in BOOLEAN :
               /\ StartJob([kind |-> "manual", level |-> level[manual], n |-> n, move |-> mv])
               /\ UNCHANGED <<mdone, manual>>
    <3>1. PICK n \in 1 .. nfiles[level[manual]], mv \in BOOLEAN :
               /\ StartJob([kind |-> "manual", level |-> level[manual], n |-> n, move |-> mv])
               /\ UNCHANGED <<mdone, manual>>
      BY ZenonT(30), <2>2
    <3>2. manual \in Thread /\ pc[manual] \in {"manual", "bgwait"}
      <4>1. manual # None
        BY Zenon, <1>4 DEF BgManual
      <4>2. manual \in Thread
        BY Zenon, <4>1 DEF TypeOK
      <4> QED
        BY Zenon, <4>1, <4>2 DEF ManualOwned
    <3>3. level[manual] \in 0 .. NumLevels - 2
      BY <3>2, JobLevel DEF TypeOK
    <3>4. n \in Nat
      BY SMTT(30), <3>1, <3>3, FilesNat
    <3>5. [kind |-> "manual", level |-> level[manual], n |-> n, move |-> mv] \in Jobs
      BY SMTT(30), <3>1, <3>3, <3>4 DEF Jobs
    <3>6. /\ job' \in Jobs \cup {NoJob} /\ bgok' \in BOOLEAN /\ bgpc' \in BgPieces
          /\ mutex' = None /\ UNCHANGED <<waiting, asleep>>
      BY SMTT(30), <3>1, <3>5, <1>3
    <3>7. UNCHANGED <<mdone, manual>>
      BY ZenonT(30), <3>1
    <3> QED
      BY Zenon, <2>0, <3>6, <3>7, Frames, TypeGroups DEF LockType, ManualType, BgType
  <2> QED
    BY ZenonT(30), <1>4, <2>1, <2>2 DEF BgManual
<1>5. CASE BgAuto
  <2>0. UNCHANGED <<callVars, writeVars, memVars, stateVars, manualVars, fullVars, fileVars>>
    BY <1>5 DEF BgAuto
  <2>1. CASE bgpc' = "end" /\ Hold(Bg) /\ UNCHANGED <<waiting, asleep, job, bgok>>
    BY <2>0, <2>1, Frames, TypeGroups DEF Hold, BgPieces, LockType, BgType
  <2>2. CASE \E l \in 0 .. NumLevels - 2 : \E n \in 1 .. nfiles[l], mv \in BOOLEAN :
               StartJob([kind |-> "auto", level |-> l, n |-> n, move |-> mv])
    <3>0. PICK l \in 0 .. NumLevels - 2 : \E n \in 1 .. nfiles[l], mv \in BOOLEAN :
               StartJob([kind |-> "auto", level |-> l, n |-> n, move |-> mv])
      BY <2>2
    <3>1. PICK n \in 1 .. nfiles[l], mv \in BOOLEAN :
               StartJob([kind |-> "auto", level |-> l, n |-> n, move |-> mv])
      BY <3>0
    <3>2. n \in Nat
      BY <3>1, FilesNat
    <3>3. [kind |-> "auto", level |-> l, n |-> n, move |-> mv] \in Jobs
      BY <3>1, <3>2 DEF Jobs
    <3>4. /\ job' \in Jobs \cup {NoJob} /\ bgok' \in BOOLEAN /\ bgpc' \in BgPieces
          /\ mutex' = None /\ UNCHANGED <<waiting, asleep>>
      BY SMTT(30), <3>1, <3>3, <1>3
    <3> QED
      BY <2>0, <3>4, Frames, TypeGroups DEF LockType, BgType
  <2> QED
    BY ZenonT(30), <1>5, <2>1, <2>2 DEF BgAuto
<1>6. ASSUME NEW a, NEW b \in BgPieces, Unlocked(a, b) PROVE TypeOK'
  <2>1. bgok' \in BOOLEAN
    BY ZenonT(30), <1>6, DBImplAssumption DEF Unlocked
  <2> QED
    BY <1>6, <2>1, Frames, TypeGroups DEF Unlocked, BgType
<1>7. CASE BuildTable \/ LogFlush \/ LogCompaction
  BY <1>6, <1>7 DEF BuildTable, LogFlush, LogCompaction, BgPieces
<1>8. ASSUME NEW l \in BgPieces, Fail(l)
      PROVE  /\ err' \in BOOLEAN /\ waiting' \subseteq Thread /\ bgpc' \in BgPieces /\ mutex' = Bg
  <2>1. err' \in BOOLEAN
    BY <1>8 DEF Fail
  <2> QED
    BY <1>8, <2>1 DEF Fail, TypeOK, Hold
<1>9. CASE Built
  <2>1. CASE bgok /\ ~shutting
    BY <1>9, <2>1, Frames, TypeGroups DEF Built, Unlock, BgPieces, LockType, StateType, BgType
  <2>2. CASE ~(bgok /\ ~shutting)
    <3>1. Fail("fdone")
      BY <1>9, <2>2 DEF Built
    <3> QED
      BY <1>9, <3>1, <1>8, Frames, TypeGroups DEF Built, BgPieces, LockType, StateType,
         BgType
  <2> QED
    BY <2>1, <2>2
<1>10. CASE ApplyFlush
  <2>1. CASE bgok
    <3>1. seek' \in BOOLEAN /\ imm' \in BOOLEAN
      BY Zenon, <1>10, <2>1 DEF ApplyFlush
    <3>2. nfiles' \in [Level -> Nat]
      <4>1. \/ \E l \in Level : nfiles' = [nfiles EXCEPT ![l] = @ + 1]
            \/ nfiles' = nfiles
        BY <1>10, <2>1 DEF ApplyFlush, FlushedToLevel
      <4>2. nfiles \in [Level -> Nat]
        BY DEF TypeOK
      <4> QED
        BY <4>1, <4>2
    <3> QED
      BY <1>10, <2>1, <3>1, <3>2, Frames, TypeGroups DEF ApplyFlush, BgPieces, LockType, MemType,
         StateType, FileType, BgType
  <2>2. CASE ~bgok
    <3>1. Fail("fdone")
      BY SMTT(30), <1>10, <2>2 DEF ApplyFlush
    <3> QED
      BY ZenonT(30), <1>10, <2>2, <3>1, <1>8, Frames, TypeGroups DEF ApplyFlush, BgPieces, LockType,
         MemType, StateType, BgType
  <2> QED
    BY SMTT(30), <2>1, <2>2
<1>11. CASE FlushDone
  <2>1. bgok' \in BOOLEAN
    BY SMTT(30), <1>11 DEF FlushDone
  <2> QED
    BY <1>11, <2>1, Frames, TypeGroups DEF FlushDone, Hold, Unlock, SignalAll, BgPieces,
       LockType, BgType
<1>12. CASE WorkFlush
  BY SMTT(30), <1>12, Frames, TypeGroups DEF WorkFlush, Unlock, BgPieces, LockType, BgType
<1>13. CASE WorkEnd
  <2>1. bgok' \in BOOLEAN
    BY Zenon, <1>13, DBImplAssumption DEF WorkEnd, TypeOK
  <2> QED
    BY SMTT(30), <1>13, <2>1, Frames, TypeGroups DEF WorkEnd, BgPieces, BgType
<1>14. CASE Worked
  <2>1. CASE bgok
    BY <1>14, <2>1, Frames, TypeGroups DEF Worked, Unlock, BgPieces, LockType, StateType, BgType
  <2>2. CASE ~bgok
    <3>1. Fail("cdone")
      BY SMTT(30), <1>14, <2>2 DEF Worked
    <3> QED
      BY <1>14, <3>1, <1>8, Frames, TypeGroups DEF Worked, BgPieces, LockType, StateType,
         BgType
  <2> QED
    BY <2>1, <2>2
<1>15. CASE ApplyCompaction
  <2>1. CASE bgok
    <3>1. seek' \in BOOLEAN
      BY Zenon, <1>15, <2>1 DEF ApplyCompaction
    <3>2. nfiles' \in [Level -> Nat]
      <4>1. job \in Jobs /\ job.n <= nfiles[job.level]
        BY <1>15 DEF ApplyCompaction, BgAt, BgInv
      <4>0. nfiles \in [Level -> Nat]
        BY DEF TypeOK
      <4>2. /\ job.level \in Level /\ job.level + 1 \in Level
            /\ nfiles[job.level] - job.n \in Nat
        BY SMTT(30), <4>0, <4>1, DBImplAssumption DEF Jobs, Level
      <4>3. PICK m \in 0 .. MaxFiles :
              nfiles' = [nfiles EXCEPT ![job.level] = @ - job.n, ![job.level + 1] = m]
        BY SMTT(30), <1>15, <2>1 DEF ApplyCompaction
      <4> QED
        BY <4>0, <4>2, <4>3
    <3> QED
      BY <1>15, <2>1, <3>1, <3>2, Frames, TypeGroups DEF ApplyCompaction, BgPieces, LockType,
         StateType, FileType, BgType
  <2>2. CASE ~bgok
    <3>1. Fail("cdone")
      BY SMTT(30), <1>15, <2>2 DEF ApplyCompaction
    <3> QED
      BY ZenonT(30), <1>15, <2>2, <3>1, <1>8, Frames, TypeGroups DEF ApplyCompaction, BgPieces,
         LockType, StateType, BgType
  <2> QED
    BY <2>1, <2>2
<1>16. CASE CompactionDone
  <2>1. mdone' \in [Thread -> BOOLEAN] /\ mpart' \in [Thread -> BOOLEAN]
    BY Zenon, <1>16 DEF CompactionDone, TypeOK
  <2>2. bgok' \in BOOLEAN
    BY <1>16 DEF CompactionDone
  <2> QED
    BY ZenonT(30), <1>16, <2>1, <2>2, Frames, TypeGroups DEF CompactionDone, Hold, BgPieces, LockType,
       ManualType, BgType
<1>17. CASE BgEnd
  <2>1. scheduled' \in BOOLEAN
    BY <1>17, MaybeScheduleType, Zenon DEF BgEnd
  <2>2. /\ SignalAll /\ bgpc' = "none" /\ Unlock
        /\ UNCHANGED <<asleep, callVars, writeVars, memVars, stateVars, manual, mdone, mpart,
                       fullVars, fileVars, job, bgok>>
    BY <1>17 DEF BgEnd
  <2> QED
    BY <2>1, <2>2, Frames, TypeGroups DEF Unlock, SignalAll, BgPieces, LockType, ManualType,
       BgType
<1> QED
  BY SMTT(30), <1>1, <1>2, <1>4, <1>5, <1>7, <1>9, <1>10, <1>11, <1>12, <1>13, <1>14, <1>15, <1>16, <1>17
  DEF BgStep
=============================================================================
