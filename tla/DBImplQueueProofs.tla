-------------------------- MODULE DBImplQueueProofs -------------------------
(***************************************************************************)
(* Proofs about the write queue of DBImpl: the front writer is alone in    *)
(* the unlocked part of Write, no writer sleeps through its signal, and a  *)
(* sync write is always synced.                                            *)
(***************************************************************************)
EXTENDS DBImplWorkProofs

Queued(t) == \E i \in 1 .. Len(queue) : queue[i] = t

\* writers_ holds, once each, the threads between their push_back and the pop
\* of the group that writes for them; whoever is past the wait is the front,
\* and whoever sleeps is not.
QueueInv ==
    /\ \A i, j \in 1 .. Len(queue) : queue[i] = queue[j] => i = j
    /\ \A t \in Thread : Queued(t) <=> pc[t] \in InWrite \/ (pc[t] = "turn" /\ ~done[t])
    /\ \A t \in Thread : pc[t] \in InWrite => t = queue[1]
    /\ \A t \in Thread : pc[t] \in {"log", "logged"} => group \in 1 .. Len(queue)
    /\ \A t \in asleep : pc[t] = "turn" /\ ~done[t] /\ t # queue[1]

\* The types these proofs use.
QueueTypes ==
    /\ pc \in [Thread -> Pieces] /\ queue \in Seq(Thread) /\ done \in [Thread -> BOOLEAN]
    /\ asleep \subseteq Thread

\* They are part of TypeOK.
LEMMA QueueTyped == BaseInv => QueueTypes
  BY DEF BaseInv, TypeOK, QueueTypes

\* QueueInv says what the runs check about the queue.
LEMMA QueueImplies == BaseInv /\ QueueInv => OneLogger /\ NoLostSignal
<1> SUFFICES ASSUME QueueTypes, QueueInv PROVE OneLogger /\ NoLostSignal
  BY QueueTyped
<1>1. OneLogger
  BY DEF QueueTypes, QueueInv, OneLogger, Queued
<1>2. ASSUME NEW t \in asleep PROVE ~done[t] /\ \E i \in 2 .. Len(queue) : queue[i] = t
  <2>1. t \in Thread /\ ~done[t] /\ t # queue[1] /\ Queued(t)
    BY DEF QueueTypes, QueueInv
  <2>2. PICK i \in 1 .. Len(queue) : queue[i] = t
    BY <2>1 DEF Queued
  <2>3. i \in 2 .. Len(queue)
    BY <2>1, <2>2 DEF QueueTypes
  <2> QED
    BY <2>1, <2>2, <2>3
<1> QED
  BY <1>1, <1>2 DEF NoLostSignal

\* The end of Write keeps the order of the queue, whatever the size of the
\* group, and the new front does not sleep.
LEMMA PopGroupQueue ==
  ASSUME QueueTypes, QueueInv, NEW t \in Thread, pc[t] \in InWrite,
         NEW n \in 1 .. Len(queue), NEW s \in BOOLEAN, PopGroup(t, n, s)
  PROVE  QueueInv'
<1> DEFINE members == {queue[i] : i \in 1 .. n}
           rest == SubSeq(queue, n + 1, Len(queue))
<1>1. /\ queue' = rest
      /\ done' = [x \in Thread |-> done[x] \/ (x \in members /\ x # t)]
      /\ asleep' = asleep \ Woken(members, rest)
      /\ pc' = [pc EXCEPT ![t] = AfterWrite(t, s)]
  BY DEF PopGroup, Goto
<1>2. /\ rest \in Seq(Thread) /\ Len(rest) = Len(queue) - n
      /\ \A i \in 1 .. Len(rest) : rest[i] = queue[n + i]
      /\ Len(queue) \in Nat
  BY DEF QueueTypes
<1>3. t = queue[1] /\ t \in members
  BY DEF QueueInv
<1>4. pc'[t] \in {"idle", "manual", "flushed"}
  BY <1>1 DEF QueueTypes, AfterWrite
<1>5. \A x \in Thread : x # t => pc'[x] = pc[x] /\ pc[x] \notin InWrite
  BY <1>1, <1>3 DEF QueueTypes, QueueInv
<1>6. \A x \in Thread : pc'[x] \notin InWrite
  BY <1>4, <1>5 DEF InWrite
<1>7. ASSUME NEW x \in Thread
      PROVE  (\E i \in 1 .. Len(rest) : rest[i] = x) <=> Queued(x) /\ x \notin members
  <2>1. ASSUME NEW i \in 1 .. Len(rest), rest[i] = x PROVE Queued(x) /\ x \notin members
    <3>1. n + i \in 1 .. Len(queue) /\ queue[n + i] = x
      BY <1>2, <2>1
    <3>2. ASSUME NEW j \in 1 .. n, queue[j] = x PROVE FALSE
      BY <1>2, <3>1, <3>2 DEF QueueInv
    <3> QED
      BY <3>1, <3>2 DEF Queued
  <2>2. ASSUME NEW i \in 1 .. Len(queue), queue[i] = x, x \notin members
        PROVE  \E j \in 1 .. Len(rest) : rest[j] = x
    <3>1. i > n
      BY <2>2
    <3>2. i - n \in 1 .. Len(rest) /\ rest[i - n] = queue[i]
      BY <1>2, <3>1
    <3> QED
      BY Zenon, <2>2, <3>2
  <2> QED
    BY Zenon, <2>1, <2>2 DEF Queued
<1>8. \A i, j \in 1 .. Len(queue') : queue'[i] = queue'[j] => i = j
  BY <1>1, <1>2 DEF QueueInv
<1>9. ASSUME NEW x \in Thread
      PROVE  Queued(x)' <=> pc'[x] \in InWrite \/ (pc'[x] = "turn" /\ ~done'[x])
  <2>1. Queued(x)' <=> Queued(x) /\ x \notin members
    BY Zenon, <1>1, <1>7 DEF Queued
  <2>2. CASE x = t
    BY <1>3, <1>4, <1>6, <2>1, <2>2
  <2>3. CASE x # t
    <3>1. done'[x] <=> done[x] \/ x \in members
      BY Zenon, <1>1, <2>3
    <3>2. Queued(x) <=> pc[x] = "turn" /\ ~done[x]
      BY <1>5, <2>3 DEF QueueInv
    <3> QED
      BY <1>5, <1>6, <2>1, <2>3, <3>1, <3>2
  <2> QED
    BY <2>2, <2>3
<1>10. ASSUME NEW x \in asleep' PROVE pc'[x] = "turn" /\ ~done'[x] /\ x # queue'[1]
  <2>1. x \in Thread /\ x \in asleep /\ x \notin Woken(members, rest)
    BY <1>1, <1>10 DEF QueueTypes
  <2>2. pc[x] = "turn" /\ ~done[x] /\ Queued(x)
    BY <2>1 DEF QueueInv
  <2>3. x # t /\ x \notin members
    BY <1>3, <2>1 DEF Woken
  <2>4. ~done'[x]
    BY Zenon, <1>1, <2>1, <2>2, <2>3
  <2>5. rest # <<>>
    BY <1>2, <1>7, <2>1, <2>2, <2>3
  <2>6. x # rest[1]
    BY <1>2, <2>1, <2>5 DEF Woken
  <2> QED
    BY Zenon, <1>1, <1>5, <2>1, <2>2, <2>3, <2>4, <2>6
<1>11. \A x \in Thread : pc'[x] \notin {"log", "logged"}
  BY <1>6 DEF InWrite
<1> QED
  BY <1>6, <1>8, <1>9, <1>10, <1>11 DEF QueueInv

\* The step keeps the queue, and its thread stays where it is in Write.
QueueKept(t) ==
    /\ UNCHANGED <<queue, done, asleep, group>>
    /\ pc'[t] \in InWrite <=> pc[t] \in InWrite
    /\ pc'[t] = "turn" <=> pc[t] = "turn"
    /\ pc'[t] \in {"log", "logged"} => pc[t] \in {"log", "logged"}

\* Such a step preserves QueueInv.
LEMMA QueueKeptInv ==
  ASSUME QueueTypes, QueueInv, NEW t \in Thread, QueueKept(t),
         \A x \in Thread : x # t => pc'[x] = pc[x]
  PROVE  QueueInv'
<1>1. UNCHANGED <<queue, done, asleep, group>>
  BY DEF QueueKept
<1>2. \A x \in Thread : /\ pc'[x] \in InWrite <=> pc[x] \in InWrite
                        /\ pc'[x] = "turn" <=> pc[x] = "turn"
                        /\ pc'[x] \in {"log", "logged"} => pc[x] \in {"log", "logged"}
  BY SMTT(30) DEF QueueKept
<1> QED
  BY <1>1, <1>2 DEF QueueTypes, QueueInv, Queued

\* All the steps but those of Gate, Turn and the pops keep the queue.
LEMMA QueueSteps ==
  ASSUME QueueTypes, NEW t \in Thread, Calls(t) \/ ThreadStep(t),
         ~Gate(t), ~Turn(t), ~RoomError(t), ~RoomReady(t), ~RoomSwitch(t), ~Logged(t)
  PROVE  QueueKept(t)
<1> USE DEF lockVars, callVars, writeVars, QueueKept, InWrite
<1>1. pc \in [Thread -> Pieces]
  BY SMTT(30) DEF QueueTypes
<1>2. CASE Calls(t)
  BY Zenon, <1>1, <1>2 DEF Calls, CallWrite, CallCompactRange, CallForceFullCompaction, CallGet,
     CallClose, Call, Goto
<1>3. CASE RoomDelay(t)
  BY <1>1, <1>3 DEF RoomDelay, Goto, At
<1>4. CASE SleepForMicroseconds(t)
  BY <1>1, <1>4 DEF SleepForMicroseconds, Goto
<1>5. CASE RoomWait(t)
  BY <1>1, <1>5 DEF RoomWait, Room, Wait, At
<1>6. CASE WriteLog(t)
  BY <1>1, <1>6 DEF WriteLog, Goto
<1>7. CASE MaxLevel(t)
  BY <1>1, <1>7 DEF MaxLevel, Goto, At
<1>8. CASE Flushed(t)
  BY <1>1, <1>8 DEF Flushed, Wait, Goto, At
<1>9. CASE Lockdown(t)
  BY <1>1, <1>9 DEF Lockdown, Wait, Goto, At
<1>10. CASE Drain(t)
  BY <1>1, <1>10 DEF Drain, Wait, Goto, At
<1>11. CASE FullLevel(t)
  BY <1>1, <1>11 DEF FullLevel, NextLevel, Goto, At
<1>12. CASE Manual(t)
  BY <1>1, <1>12 DEF Manual, Goto, At
<1>13. CASE BgWait(t)
  BY <1>1, <1>13 DEF BgWait, NextLevel, Wait, Goto, At
<1>14. CASE Finish(t)
  BY <1>1, <1>14 DEF Finish, Goto, At
<1>15. CASE Read(t)
  BY <1>1, <1>15 DEF Read, Wait, Goto, At
<1>16. CASE ReadDone(t)
  BY <1>1, <1>16 DEF ReadDone, Goto, At
<1>17. CASE Close(t)
  BY <1>1, <1>17 DEF Close, Goto, At
<1>18. CASE Closing(t)
  BY <1>1, <1>18 DEF Closing, Wait, Goto, At
<1> QED
  BY ZenonT(30), <1>2, <1>3, <1>4, <1>5, <1>6, <1>7, <1>8, <1>9, <1>10, <1>11, <1>12, <1>13, <1>14,
     <1>15, <1>16, <1>17, <1>18 DEF ThreadStep

\* QueueInv is inductive relative to BaseInv.
LEMMA QueueStep == BaseInv /\ QueueInv /\ [Next]_vars => QueueInv'
<1> SUFFICES ASSUME BaseInv, QueueTypes, QueueInv, [Next]_vars PROVE QueueInv'
  BY QueueTyped
<1>1. ASSUME NEW t \in Thread, Calls(t) \/ ThreadStep(t) PROVE QueueInv'
  <2>0. \A x \in Thread : x # t => pc'[x] = pc[x]
    BY <1>1, Others DEF BaseInv
  <2>1. ASSUME pc[t] \in InWrite PROVE 1 \in 1 .. Len(queue)
    <3>1. Queued(t)
      BY <2>1 DEF QueueInv
    <3> QED
      BY <3>1 DEF Queued, QueueTypes
  <2>2. CASE Gate(t)
    <3>1. CASE t \in Writers /\ ShouldWait
      <4>1. QueueKept(t)
        BY <2>2, <3>1 DEF Gate, Wait, QueueKept, callVars, writeVars
      <4> QED
        BY <2>0, <4>1, QueueKeptInv
    <3>2. CASE ~(t \in Writers /\ ShouldWait)
      <4>1. /\ pc[t] = "gate" /\ pc' = [pc EXCEPT ![t] = "turn"]
            /\ queue' = Append(queue, t) /\ done' = [done EXCEPT ![t] = FALSE]
            /\ UNCHANGED <<asleep, group>>
        BY <2>2, <3>2 DEF Gate, At, Goto
      <4>2. /\ Len(queue') = Len(queue) + 1 /\ queue'[Len(queue) + 1] = t
            /\ \A i \in 1 .. Len(queue) : queue'[i] = queue[i]
            /\ Len(queue) \in Nat
        BY <4>1 DEF QueueTypes
      <4>3. ~Queued(t) /\ pc'[t] = "turn" /\ ~done'[t] /\ pc'[t] \notin InWrite
        BY SMTT(30), <4>1 DEF QueueInv, QueueTypes, InWrite
      <4>4. \A i, j \in 1 .. Len(queue') : queue'[i] = queue'[j] => i = j
        BY <4>2, <4>3 DEF QueueInv, Queued
      <4>5. ASSUME NEW x \in Thread PROVE Queued(x)' <=> x = t \/ Queued(x)
        BY <4>2 DEF Queued
      <4>6. ASSUME NEW x \in Thread, x # t PROVE done'[x] = done[x] /\ pc'[x] = pc[x]
        BY <4>1, <4>6 DEF QueueTypes
      <4>7. ASSUME NEW x \in Thread
            PROVE  Queued(x)' <=> pc'[x] \in InWrite \/ (pc'[x] = "turn" /\ ~done'[x])
        BY <4>3, <4>5, <4>6 DEF QueueInv
      <4>8. ASSUME NEW x \in Thread, x # t, Queued(x) PROVE queue'[1] = queue[1]
        BY <4>2, <4>8 DEF Queued
      <4>9. \A x \in Thread : pc'[x] \in InWrite => x = queue'[1]
        BY <4>3, <4>6, <4>8 DEF QueueInv
      <4>10. \A x \in Thread : pc'[x] \in {"log", "logged"} => group' \in 1 .. Len(queue')
        BY <4>1, <4>2, <4>3, <4>6 DEF QueueInv, InWrite
      <4>11. \A x \in asleep' : pc'[x] = "turn" /\ ~done'[x] /\ x # queue'[1]
        <5> SUFFICES ASSUME NEW x \in asleep PROVE pc'[x] = "turn" /\ ~done'[x] /\ x # queue'[1]
          BY <4>1
        <5>1. x \in Thread /\ pc[x] = "turn" /\ ~done[x] /\ x # queue[1] /\ Queued(x)
          BY DEF QueueTypes, QueueInv
        <5>2. x # t
          BY <4>3, <5>1
        <5> QED
          BY <4>6, <4>8, <5>1, <5>2
      <4> QED
        BY <4>4, <4>7, <4>9, <4>10, <4>11 DEF QueueInv
    <3> QED
      BY <3>1, <3>2
  <2>3. CASE Turn(t)
    <3>0. pc[t] = "turn" /\ UNCHANGED <<queue, group>>
      BY <2>3 DEF Turn, At
    <3>1. CASE done[t]
      <4>1. /\ pc' = [pc EXCEPT ![t] = AfterWrite(t, ok[t])] /\ asleep' = asleep
            /\ done' = [done EXCEPT ![t] = FALSE]
        BY <2>3, <3>1 DEF Turn, Goto
      <4>2. pc'[t] \in {"idle", "manual", "flushed"}
        BY <4>1 DEF QueueTypes, AfterWrite
      <4>3. ~Queued(t) /\ t \notin asleep /\ pc'[t] \notin InWrite
        BY <3>0, <3>1, <4>2 DEF QueueInv, InWrite
      <4>4. \A x \in Thread : x # t => done'[x] = done[x]
        BY <4>1 DEF QueueTypes
      <4> QED
        BY <2>0, <3>0, <4>1, <4>2, <4>3, <4>4 DEF QueueInv, Queued, QueueTypes
    <3>2. CASE ~done[t] /\ InFront(t)
      <4>1. pc' = [pc EXCEPT ![t] = "room"] /\ UNCHANGED <<asleep, done>>
        BY <2>3, <3>2 DEF Turn, Goto
      <4>2. Queued(t) /\ t = queue[1] /\ t \notin asleep /\ pc'[t] = "room"
        <5>1. Queued(t)
          BY <3>0, <3>2 DEF QueueInv
        <5> QED
          BY SMTT(30), <3>2, <4>1, <5>1 DEF QueueInv, InFront, QueueTypes, Queued
      <4>3. \A x \in Thread : x # t => pc[x] \notin InWrite
        BY <4>2 DEF QueueInv
      <4> QED
        BY <2>0, <3>0, <4>1, <4>2, <4>3 DEF QueueInv, Queued, QueueTypes, InWrite
    <3>3. CASE ~done[t] /\ ~InFront(t)
      <4>1. asleep' = asleep \cup {t} /\ UNCHANGED <<pc, done>>
        BY <2>3, <3>3 DEF Turn
      <4>2. t # queue[1]
        <5>1. Queued(t)
          BY <3>0, <3>3 DEF QueueInv
        <5> QED
          BY <3>3, <5>1 DEF InFront, QueueTypes, Queued
      <4> QED
        BY <3>0, <3>3, <4>1, <4>2 DEF QueueInv, Queued
    <3> QED
      BY <3>1, <3>2, <3>3
  <2>4. CASE RoomError(t)
    <3>1. pc[t] \in InWrite /\ PopGroup(t, 1, FALSE)
      BY Zenon, <2>4 DEF RoomError, At, InWrite
    <3> QED
      BY Zenon, <2>1, <3>1, PopGroupQueue
  <2>5. CASE RoomReady(t)
    <3>1. pc[t] = "room" /\ pc[t] \in InWrite
      BY <2>5 DEF RoomReady, Room, At, InWrite
    <3>2. CASE PopGroup(t, 1, TRUE)
      BY Zenon, <2>1, <3>1, <3>2, PopGroupQueue
    <3>3. CASE /\ group' \in BuildBatchGroup(t) /\ Goto(t, "log")
               /\ UNCHANGED <<asleep, queue, done>>
      <4>1. group' \in 1 .. Len(queue)
        BY <3>3 DEF BuildBatchGroup
      <4>2. pc'[t] = "log"
        BY <3>3 DEF Goto, QueueTypes
      <4>3. pc'[t] \in InWrite
        BY <4>2 DEF InWrite
      <4> QED
        BY <2>0, <3>1, <3>3, <4>1, <4>2, <4>3 DEF QueueInv, Queued, QueueTypes
    <3> QED
      BY Zenon, <2>5, <3>2, <3>3 DEF RoomReady
  <2>6. CASE RoomSwitch(t)
    <3>1. pc[t] = "room" /\ pc[t] \in InWrite
      BY <2>6 DEF RoomSwitch, Room, At, InWrite
    <3>2. CASE PopGroup(t, 1, FALSE)
      BY Zenon, <2>1, <3>1, <3>2, PopGroupQueue
    <3>3. CASE UNCHANGED <<pc, queue, done, asleep, group>>
      BY <3>3 DEF QueueInv, Queued
    <3> QED
      BY Zenon, <2>6, <3>2, <3>3 DEF RoomSwitch
  <2>7. CASE Logged(t)
    <3>1. pc[t] \in InWrite /\ group \in 1 .. Len(queue)
      BY <2>7 DEF Logged, At, InWrite, QueueInv
    <3>2. (logged = "ok") \in BOOLEAN /\ PopGroup(t, group, logged = "ok")
      BY <2>7 DEF Logged
    <3> QED
      BY ZenonT(30), <3>1, <3>2, PopGroupQueue
  <2>8. CASE /\ ~Gate(t) /\ ~Turn(t) /\ ~RoomError(t) /\ ~RoomReady(t) /\ ~RoomSwitch(t)
             /\ ~Logged(t)
    <3>1. QueueKept(t)
      BY <1>1, <2>8, QueueSteps
    <3> QED
      BY <2>0, <3>1, QueueKeptInv
  <2> QED
    BY SMTT(30), <2>2, <2>3, <2>4, <2>5, <2>6, <2>7, <2>8
<1>2. CASE BgStep
  <2>1. UNCHANGED <<pc, queue, done, asleep, group>>
    BY ZenonT(30), <1>2 DEF BgStep, BgSkip, BgFlush, BgManual, BgAuto, BuildTable, Built, LogFlush,
       ApplyFlush, FlushDone, WorkFlush, WorkEnd, Worked, LogCompaction, ApplyCompaction,
       CompactionDone, BgEnd, Unlocked, StartJob, lockVars, callVars, writeVars
  <2> QED
    BY <2>1 DEF QueueInv, Queued
<1>3. CASE UNCHANGED vars
  BY <1>3 DEF vars, QueueInv, Queued
<1> QED
  BY <1>1, <1>2, <1>3 DEF Next

\* QueueInv holds in every state of the program.
LEMMA Queue == Spec => []QueueInv
<1>1. Init => QueueInv
  <2> SUFFICES ASSUME Init PROVE QueueInv
    OBVIOUS
  <2>1. asleep = {} /\ queue = <<>> /\ pc = [t \in Thread |-> "idle"]
    BY Zenon DEF Init
  <2>2. Len(queue) = 0 /\ \A t \in Thread : pc[t] = "idle"
    BY <2>1
  <2> QED
    BY <2>1, <2>2 DEF QueueInv, Queued, InWrite
<1> QED
  BY <1>1, QueueStep, Base, PTL DEF Spec

\* Only the front of writers_ is ever in MakeRoomForWrite, in the log or in
\* mem_, for any number of writers and any sequence of groups.
THEOREM LoggerIsAlone == Spec => []OneLogger
  BY Queue, Base, QueueImplies, PTL

\* No writer sleeps in w.cv when its batch is written or it is the front: every
\* signal that Write owes is given.
THEOREM SignalsReachWriters == Spec => []NoLostSignal
  BY Queue, Base, QueueImplies, PTL

-----------------------------------------------------------------------------
\* The step of a thread that is not past the wait in Write.
OutsideStep(t) ==
    /\ UNCHANGED <<group, dirty, memfull, imm>>
    /\ queue' = queue \/ queue' = Append(queue, t)
    /\ sync' = sync \/ (pc[t] = "idle" /\ \E s \in BOOLEAN : sync' = [sync EXCEPT ![t] = s])
    /\ pc'[t] # "log"

\* Whoever is not past the wait touches neither mem_ nor the group that the
\* front writer writes.
LEMMA OutsideSteps ==
  ASSUME QueueTypes, NEW t \in Thread, Calls(t) \/ ThreadStep(t), pc[t] \notin InWrite
  PROVE  OutsideStep(t)
<1> USE DEF writeVars, memVars, callVars, InWrite, OutsideStep
<1>1. pc \in [Thread -> Pieces]
  BY DEF QueueTypes
<1>2. CASE CallWrite(t)
  BY Zenon, <1>1, <1>2 DEF CallWrite, Call, Goto
<1>3. CASE CallCompactRange(t)
  BY <1>1, <1>3 DEF CallCompactRange, Call, Goto
<1>4. CASE CallForceFullCompaction(t)
  BY ZenonT(30), <1>1, <1>4 DEF CallForceFullCompaction, Call, Goto
<1>5. CASE CallGet(t)
  BY <1>1, <1>5 DEF CallGet, Call, Goto
<1>6. CASE CallClose(t)
  BY <1>1, <1>6 DEF CallClose, Call, Goto
<1>7. CASE Gate(t)
  BY <1>1, <1>7 DEF Gate, Wait, Goto, At
<1>8. CASE Turn(t)
  BY <1>1, <1>8 DEF Turn, AfterWrite, Goto, At
<1>9. CASE MaxLevel(t)
  BY <1>1, <1>9 DEF MaxLevel, Goto, At
<1>10. CASE Flushed(t)
  BY <1>1, <1>10 DEF Flushed, Wait, Goto, At
<1>11. CASE Lockdown(t)
  BY <1>1, <1>11 DEF Lockdown, Wait, Goto, At
<1>12. CASE Drain(t)
  BY <1>1, <1>12 DEF Drain, Wait, Goto, At
<1>13. CASE FullLevel(t)
  BY <1>1, <1>13 DEF FullLevel, NextLevel, Goto, At
<1>14. CASE Manual(t)
  BY SMTT(30), <1>1, <1>14 DEF Manual, Goto, At
<1>15. CASE BgWait(t)
  BY <1>1, <1>15 DEF BgWait, NextLevel, Wait, Goto, At
<1>16. CASE Finish(t)
  BY <1>1, <1>16 DEF Finish, Goto, At
<1>17. CASE Read(t)
  BY <1>1, <1>17 DEF Read, Wait, Goto, At
<1>18. CASE ReadDone(t)
  BY <1>1, <1>18 DEF ReadDone, Goto, At
<1>19. CASE Close(t)
  BY <1>1, <1>19 DEF Close, Goto, At
<1>20. CASE Closing(t)
  BY SMTT(30), <1>1, <1>20 DEF Closing, Wait, Goto, At
<1>21. /\ ~RoomError(t) /\ ~RoomDelay(t) /\ ~SleepForMicroseconds(t) /\ ~RoomReady(t)
       /\ ~RoomWait(t) /\ ~RoomSwitch(t) /\ ~WriteLog(t) /\ ~Logged(t)
  BY ZenonT(30) DEF RoomError, RoomDelay, SleepForMicroseconds, RoomReady, RoomWait, RoomSwitch, WriteLog,
     Logged, Room, At
<1> QED
  BY ZenonT(30), <1>2, <1>3, <1>4, <1>5, <1>6, <1>7, <1>8, <1>9, <1>10, <1>11, <1>12, <1>13, <1>14,
     <1>15, <1>16, <1>17, <1>18, <1>19, <1>20, <1>21 DEF Calls, ThreadStep

\* A thread in the unlocked part of Write is alone there, and only its own step
\* takes it further.
LEMMA LogSteps ==
  ASSUME QueueTypes, QueueInv, NEW t \in Thread, Calls(t) \/ ThreadStep(t),
         \A x \in Thread : x # t => pc'[x] = pc[x],
         NEW x \in Thread, pc'[x] = "log"
  PROVE  (x = t /\ RoomReady(t)) \/ (x # t /\ pc[x] = "log" /\ OutsideStep(t))
<1>1. CASE x # t
  <2>1. pc[x] = "log" /\ pc[t] \notin InWrite
    BY SMTT(30), <1>1 DEF QueueInv, InWrite
  <2> QED
    BY SMTT(30), <1>1, <2>1, OutsideSteps
<1>2. CASE x = t
  <2>1. pc[t] \in InWrite
    BY SMTT(30), <1>2, OutsideSteps DEF OutsideStep
  <2>2. ~Calls(t)
    BY ZenonT(30), <2>1 DEF Calls, CallWrite, CallCompactRange, CallForceFullCompaction, CallGet,
       CallClose, Call, InWrite
  <2>3. \/ RoomError(t) \/ RoomDelay(t) \/ SleepForMicroseconds(t) \/ RoomReady(t)
        \/ RoomWait(t) \/ RoomSwitch(t) \/ WriteLog(t) \/ Logged(t)
    BY ZenonT(30), <2>1, <2>2 DEF ThreadStep, Gate, Turn, MaxLevel, Flushed, Lockdown, Drain, FullLevel,
       Manual, BgWait, Finish, Read, ReadDone, Close, Closing, At, InWrite
  <2>4. ~RoomError(t) /\ ~Logged(t)
    BY ZenonT(30), <1>2 DEF RoomError, Logged, PopGroup, Goto, AfterWrite, QueueTypes
  <2>5. ~RoomDelay(t) /\ ~SleepForMicroseconds(t) /\ ~WriteLog(t) /\ ~RoomWait(t)
    BY Zenon, <1>2 DEF RoomDelay, SleepForMicroseconds, WriteLog, RoomWait, Room, At, Wait, Goto,
       callVars, QueueTypes
  <2>6. ~RoomSwitch(t)
    BY Zenon, <1>2 DEF RoomSwitch, Room, At, PopGroup, Goto, AfterWrite, QueueTypes
  <2> QED
    BY ZenonT(30), <1>2, <2>3, <2>4, <2>5, <2>6
<1> QED
  BY ZenonT(30), <1>1, <1>2

\* A batch that asked for sync is never in a group whose front writer does not
\* sync the log, whatever joins or leaves the queue while the group is written.
THEOREM SyncIsRespected == Spec => []SyncRespected
<1>1. Init => SyncRespected
  BY DEF Init, SyncRespected
<1>2. BaseInv /\ QueueInv /\ SyncRespected /\ [Next]_vars => SyncRespected'
  <2> SUFFICES ASSUME BaseInv, QueueTypes, QueueInv, SyncRespected, [Next]_vars
               PROVE  SyncRespected'
    BY QueueTyped
  <2>0. sync \in [Thread -> BOOLEAN]
    BY SMTT(30) DEF BaseInv, TypeOK
  <2>1. ASSUME NEW t \in Thread, Calls(t) \/ ThreadStep(t) PROVE SyncRespected'
    <3> SUFFICES ASSUME NEW x \in Thread, pc'[x] = "log", NEW i \in 1 .. group', sync'[queue'[i]]
                 PROVE  sync'[x]
      BY DEF SyncRespected
    <3>0. \A y \in Thread : y # t => pc'[y] = pc[y]
      BY <2>1, Others DEF BaseInv
    <3>1. CASE x = t /\ RoomReady(t)
      <4>1. pc[t] = "room"
        BY <3>1 DEF RoomReady, Room, At
      <4>2. t = queue[1]
        BY SMTT(30), <4>1 DEF QueueInv, InWrite
      <4>3. ~PopGroup(t, 1, TRUE)
        BY Zenon, <3>1 DEF PopGroup, Goto, AfterWrite, QueueTypes
      <4>4. group' \in BuildBatchGroup(t) /\ UNCHANGED <<queue, sync>>
        BY Zenon, <3>1, <4>3 DEF RoomReady
      <4>5. group' \in Nat /\ \A j \in 2 .. group' : ~Excluded(t, j)
        BY <4>4 DEF BuildBatchGroup, QueueTypes
      <4>6. CASE i = 1
        BY <3>1, <4>2, <4>4, <4>6
      <4>7. CASE i # 1
        <5>1. i \in 2 .. group'
          BY <4>5, <4>7
        <5> QED
          BY <3>1, <4>4, <4>5, <5>1 DEF Excluded
      <4> QED
        BY SMTT(30), <4>6, <4>7
    <3>2. CASE x # t /\ pc[x] = "log" /\ OutsideStep(t)
      <4>1. group \in 1 .. Len(queue) /\ group' = group
        BY <3>2 DEF QueueInv, OutsideStep
      <4>2. i \in 1 .. Len(queue) /\ queue'[i] = queue[i] /\ queue[i] \in Thread
        <5>1. i \in 1 .. Len(queue)
          BY SMTT(30), <4>1 DEF QueueTypes
        <5> QED
          BY <3>2, <5>1 DEF OutsideStep, QueueTypes
      <4>3. sync'[queue[i]] = sync[queue[i]] /\ sync'[x] = sync[x]
        <5>1. CASE sync' = sync
          BY <5>1
        <5>2. CASE pc[t] = "idle" /\ \E s \in BOOLEAN : sync' = [sync EXCEPT ![t] = s]
          <6>1. queue[i] # t
            BY SMTT(30), <4>2, <5>2 DEF QueueInv, Queued, InWrite
          <6> QED
            BY SMTT(30), <2>0, <3>2, <4>2, <5>2, <6>1
        <5> QED
          BY <3>2, <5>1, <5>2 DEF OutsideStep
      <4> QED
        BY SMTT(30), <3>2, <4>1, <4>2, <4>3 DEF SyncRespected
    <3> QED
      BY ZenonT(30), <2>1, <3>0, <3>1, <3>2, LogSteps
  <2>2. CASE BgStep
    <3>1. UNCHANGED <<pc, queue, sync, group>>
      BY ZenonT(30), <2>2 DEF BgStep, BgSkip, BgFlush, BgManual, BgAuto, BuildTable, Built, LogFlush,
         ApplyFlush, FlushDone, WorkFlush, WorkEnd, Worked, LogCompaction, ApplyCompaction,
         CompactionDone, BgEnd, Unlocked, callVars, writeVars
    <3> QED
      BY SMTT(30), <3>1 DEF SyncRespected
  <2>3. CASE UNCHANGED vars
    BY Zenon, <2>3 DEF vars, SyncRespected
  <2> QED
    BY <2>1, <2>2, <2>3 DEF Next
<1> QED
  BY <1>1, <1>2, Queue, Base, PTL DEF Spec

\* InsertInto is safe without the mutex: while a writer is in the unlocked part
\* of Write, no step of any other thread adds to mem_ or switches it.
THEOREM MemIsStable == Spec => MemStable
<1> DEFINE Stable == (\E t \in Thread : pc[t] = "log" /\ pc'[t] = "log")
                     => UNCHANGED <<dirty, memfull>> /\ (imm' => imm)
<1>1. BaseInv /\ QueueInv /\ [Next]_vars => [Stable]_vars
  <2> SUFFICES ASSUME BaseInv, QueueTypes, QueueInv, Next,
                      NEW x \in Thread, pc[x] = "log", pc'[x] = "log"
               PROVE  UNCHANGED <<dirty, memfull>> /\ (imm' => imm)
    BY SMTT(30), QueueTyped
  <2>1. ASSUME NEW t \in Thread, Calls(t) \/ ThreadStep(t)
        PROVE  UNCHANGED <<dirty, memfull>> /\ (imm' => imm)
    <3>1. \A y \in Thread : y # t => pc'[y] = pc[y]
      BY SMTT(30), <2>1, Others DEF BaseInv
    <3>2. ~(x = t /\ RoomReady(t))
      BY Zenon DEF RoomReady, Room, At
    <3> QED
      BY <2>1, <3>1, <3>2, LogSteps DEF OutsideStep
  <2>2. CASE BgStep
    <3>1. UNCHANGED <<dirty, memfull>>
      BY Zenon, <2>2 DEF BgStep, BgSkip, BgFlush, BgManual, BgAuto, BuildTable, Built, LogFlush,
         ApplyFlush, FlushDone, WorkFlush, WorkEnd, Worked, LogCompaction, ApplyCompaction,
         CompactionDone, BgEnd, Unlocked, memVars
    <3> QED
      BY SMTT(30), <2>2, <3>1, BgWork
  <2> QED
    BY <2>1, <2>2 DEF Next
<1>2. [][Stable]_vars <=> MemStable
  BY PTL DEF MemStable
<1> QED
  BY <1>1, <1>2, Queue, Base, PTL DEF Spec
=============================================================================
