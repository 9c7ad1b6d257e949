-------------------------- MODULE DiskWriterProofs --------------------------
(***************************************************************************)
(* The safety of the disk writer, for any torrent, any bound of the queue, *)
(* writes that may fail and processes that are killed and started again.   *)
(*                                                                         *)
(* The mutex plays no part in it: what a thread does to the queue is one   *)
(* step.  The argument follows a piece from hand to hand (Custody), and    *)
(* what the flag and the end of the writer mean as long as no write has    *)
(* failed (Drained).                                                       *)
(***************************************************************************)
EXTENDS DiskWriter, TLAPS

Elems(s) == {s[i] : i \in 1 .. Len(s)}

-----------------------------------------------------------------------------
(* The elements of a queue that grows at one end and shrinks at the other. *)

LEMMA AppendElems ==
  ASSUME NEW S, NEW s \in Seq(S), NEW x \in S
  PROVE  /\ Append(s, x) \in Seq(S)
         /\ Len(Append(s, x)) = Len(s) + 1
         /\ Elems(Append(s, x)) = Elems(s) \cup {x}
         /\ \A i \in 1 .. Len(s) : Append(s, x)[i] = s[i]
         /\ Append(s, x)[Len(s) + 1] = x
<1>1. /\ Append(s, x) \in Seq(S)
      /\ Len(Append(s, x)) = Len(s) + 1
      /\ \A i \in 1 .. Len(s) : Append(s, x)[i] = s[i]
      /\ Append(s, x)[Len(s) + 1] = x
  OBVIOUS
<1>2. Elems(Append(s, x)) \subseteq Elems(s) \cup {x}
  BY <1>1 DEF Elems
<1>3. Elems(s) \cup {x} \subseteq Elems(Append(s, x))
  <2>1. Len(s) \in Nat
    OBVIOUS
  <2>2. 1 .. Len(s) \subseteq 1 .. Len(s) + 1 /\ Len(s) + 1 \in 1 .. Len(s) + 1
    BY <2>1
  <2> QED
    BY <1>1, <2>2 DEF Elems
<1> QED
  BY <1>1, <1>2, <1>3

(* The queue without its first piece.                                      *)
LEMMA TailElems ==
  ASSUME NEW S, NEW s \in Seq(S), s # <<>>
  PROVE  /\ Tail(s) \in Seq(S)
         /\ Len(Tail(s)) = Len(s) - 1
         /\ Len(s) \in Nat \ {0}
         /\ Head(s) \in S /\ Head(s) = s[1]
         /\ Elems(s) = {Head(s)} \cup Elems(Tail(s))
         /\ \A i \in 1 .. Len(s) - 1 : Tail(s)[i] = s[i + 1]
<1>1. /\ Tail(s) \in Seq(S)
      /\ Len(Tail(s)) = Len(s) - 1
      /\ Len(s) \in Nat \ {0}
      /\ Head(s) \in S /\ Head(s) = s[1]
      /\ \A i \in 1 .. Len(s) - 1 : Tail(s)[i] = s[i + 1]
  OBVIOUS
<1>2. Elems(s) \subseteq {Head(s)} \cup Elems(Tail(s))
  <2> SUFFICES ASSUME NEW i \in 1 .. Len(s), i # 1 PROVE s[i] \in Elems(Tail(s))
    BY <1>1 DEF Elems
  <2>1. i - 1 \in 1 .. Len(s) - 1 /\ Tail(s)[i - 1] = s[i]
    BY <1>1
  <2> QED
    BY <1>1, <2>1 DEF Elems
<1>3. {Head(s)} \cup Elems(Tail(s)) \subseteq Elems(s)
  BY <1>1 DEF Elems
<1> QED
  BY <1>1, <1>2, <1>3

-----------------------------------------------------------------------------
(* Types.                                                                  *)

LEMMA StartingPlaces ==
  ASSUME NEW p, p = [main |-> "loop", writer |-> "lock"]
  PROVE  /\ p["main"] = "loop" /\ p["writer"] = "lock"
         /\ p \in [Threads -> MainPC \cup WriterPC]
<1>1. p = [t \in Threads |-> IF t = "main" THEN "loop" ELSE "lock"]
  BY DEF Threads
<1> QED
  BY <1>1 DEF Threads, MainPC, WriterPC

(* The queue at the start of a process.                                    *)
LEMMA EmptyQueue == <<>> \in Seq(Pieces) /\ Len(<<>>) = 0 /\ Elems(<<>>) = {}
  BY DEF Elems

(* Every variable starts within its type.                                  *)
LEMMA TypeInit == Init => TypeOK
<1> SUFFICES ASSUME Init PROVE TypeOK
  OBVIOUS
<1>1. pc \in [Threads -> MainPC \cup WriterPC] /\ pc["main"] = "loop" /\ pc["writer"] = "lock"
  BY StartingPlaces DEF Init
<1>2. tasks \in Seq(Pieces) /\ Len(tasks) <= MAX_QUEUE
  BY EmptyQueue, QueuePositive DEF Init
<1>3. inHand \in [Threads -> SUBSET Pieces] /\ mutex \in Threads \cup {"free"} /\ waiting \in SUBSET Threads
  BY DEF Init
<1>4. /\ exitCondition \in BOOLEAN /\ joinable \in BOOLEAN /\ failed \in BOOLEAN
  BY DEF Init
<1>5. haves \in SUBSET Pieces /\ tempFile \in SUBSET Pieces /\ stateFile \in SUBSET Pieces /\ output = "none"
  BY DEF Init
<1> QED
  BY <1>1, <1>2, <1>3, <1>4, <1>5 DEF TypeOK, MainPC, WriterPC

(* Every step of a thread, a crash and a restart keep the types.           *)
LEMMA TypeStep == TypeOK /\ [Next]_vars => TypeOK'
<1> SUFFICES ASSUME TypeOK, [Next]_vars PROVE TypeOK'
  OBVIOUS
<1> USE DEF TypeOK, Threads, MainPC, WriterPC, Goto, shared, durable
<1>1. CASE Writer
  <2>1. CASE WriterLock
    BY <2>1 DEF WriterLock, LockMutex
  <2>2. CASE WriterMustWait
    BY <2>2 DEF WriterMustWait
  <2>3. CASE WriterSleep
    BY <2>3 DEF WriterSleep, Sleep, Unlock
  <2>4. CASE WriterWake
    BY <2>4 DEF WriterWake
  <2>5. CASE WriterReturn
    BY <2>5 DEF WriterReturn, Unlock
  <2>6. CASE WriterNotify
    BY <2>6 DEF WriterNotify, NotifyOne
  <2>7. CASE WriterWrite
    BY <2>7 DEF WriterWrite
  <2>8. CASE WriterFail
    BY <2>8 DEF WriterFail
  <2>9. CASE WriterFailNotify
    BY <2>9 DEF WriterFailNotify, NotifyAll
  <2>10. CASE WriterPop
    <3>1. tasks # <<>> /\ tasks' = Tail(tasks)
      BY <2>10 DEF WriterPop, Popped
    <3>2. tasks' \in Seq(Pieces) /\ Len(tasks') <= MAX_QUEUE /\ Head(tasks) \in Pieces
      BY <3>1, TailElems, QueuePositive
    <3> QED
      BY <2>10, <3>2 DEF WriterPop, Unlock
  <2> QED
    BY <1>1, <2>1, <2>2, <2>3, <2>4, <2>5, <2>6, <2>7, <2>8, <2>9, <2>10 DEF Writer
<1>2. CASE Main
  <2>1. CASE ScheduleLock
    BY <2>1 DEF ScheduleLock, LockMutex
  <2>2. CASE ScheduleMustWait
    BY <2>2 DEF ScheduleMustWait
  <2>3. CASE ScheduleSleep
    BY <2>3 DEF ScheduleSleep, Sleep, Unlock
  <2>4. CASE ScheduleWake
    BY <2>4 DEF ScheduleWake
  <2>5. CASE ScheduleNotify
    BY <2>5 DEF ScheduleNotify, NotifyOne
  <2>6. CASE ScheduleThrow
    BY <2>6 DEF ScheduleThrow, Unlock
  <2>7. CASE Abandon
    BY <2>7 DEF Abandon
  <2>8. CASE FinishFlag
    BY <2>8 DEF FinishFlag
  <2>9. CASE FinishNotify
    BY <2>9 DEF FinishNotify, NotifyAll
  <2>10. CASE FinishSplit
    BY <2>10 DEF FinishSplit
  <2>11. CASE FinishPending
    BY <2>11 DEF FinishPending
  <2>12. CASE SaveState
    BY <2>12 DEF SaveState
  <2>13. CASE DestroyFlag
    BY <2>13 DEF DestroyFlag
  <2>14. CASE DestroyNotify
    BY <2>14 DEF DestroyNotify, NotifyAll
  <2>15. CASE DestroyJoin
    BY <2>15 DEF DestroyJoin
  <2>16. CASE DestroyThread
    BY <2>16 DEF DestroyThread
  <2>17. CASE \E q \in Pieces : PieceReady(q)
    BY <2>17 DEF PieceReady
  <2>18. CASE SchedulePush
    <3>1. PICK q \in inHand["main"] : tasks' = Append(tasks, q)
      BY <2>18 DEF SchedulePush, Enqueue
    <3>2. tasks' \in Seq(Pieces) /\ Len(tasks') = Len(tasks) + 1
      BY <3>1, AppendElems
    <3>3. Len(tasks') <= MAX_QUEUE
      BY <2>18, <3>2, QueuePositive DEF SchedulePush, QueueFull
    <3> QED
      BY <2>18, <3>2, <3>3 DEF SchedulePush, Unlock
  <2> QED
    BY <1>2, <2>1, <2>2, <2>3, <2>4, <2>5, <2>6, <2>7, <2>8, <2>9, <2>10,
       <2>11, <2>12, <2>13, <2>14, <2>15, <2>16, <2>17, <2>18 DEF Main
<1>3. CASE SpuriousWakeup
  BY <1>3 DEF SpuriousWakeup
<1>4. CASE Crash
  BY <1>4 DEF Crash
<1>5. CASE Restart
  <2>1. pc' \in [Threads -> MainPC \cup WriterPC] /\ pc'["main"] = "loop" /\ pc'["writer"] = "lock"
    BY <1>5, StartingPlaces DEF Restart
  <2>2. tasks' \in Seq(Pieces) /\ Len(tasks') <= MAX_QUEUE
    BY <1>5, EmptyQueue, QueuePositive DEF Restart
  <2>3. inHand' \in [Threads -> SUBSET Pieces] /\ mutex' = "free" /\ waiting' = {}
    BY <1>5 DEF Restart
  <2>4. exitCondition' \in BOOLEAN /\ joinable' \in BOOLEAN /\ failed' \in BOOLEAN
    BY <1>5 DEF Restart
  <2>5. haves' = stateFile /\ UNCHANGED durable
    BY <1>5 DEF Restart
  <2> QED
    BY <2>1, <2>2, <2>3, <2>4, <2>5
<1>6. CASE Finished \/ UNCHANGED vars
  BY <1>6 DEF Finished, vars
<1> QED
  BY <1>1, <1>2, <1>3, <1>4, <1>5, <1>6 DEF Next

(* Every step keeps the variables of the disk writer in their types and    *)
(* the queue within MAX_QUEUE.                                             *)
THEOREM TypeCorrect == Spec => []TypeOK
  BY TypeInit, TypeStep, PTL DEF Spec

-----------------------------------------------------------------------------
(* Where a piece may be.  A thread has one in its hands only at certain    *)
(* places, the main thread one at a time, and what is queued or held has   *)
(* been counted: that is why a piece which is counted anew is held nowhere *)
(* else.                                                                   *)
Custody ==
  /\ TypeOK
  /\ inHand["main"] # {} => pc["main"] \in {"lock", "test", "sleep", "asleep", "killed"}
  /\ inHand["writer"] # {} => pc["writer"] \in {"notify", "write", "killed", "terminated"}
  /\ \A q, r \in inHand["main"] : q = r
  /\ Queued \cup inHand["main"] \cup inHand["writer"] \subseteq haves
  /\ HeldOnce

(* What the end of the writer and the flag mean unless a write has failed: *)
(* the writer has ended with an empty queue, the flag is set only by a     *)
(* main thread that is past its loop, and before the destructor sees it    *)
(* the thread has been joined.                                             *)
Drained ==
  /\ stateFile \subseteq haves
  /\ pc["writer"] = "failed" => failed
  /\ ~failed => /\ pc["writer"] = "ended" => exitCondition /\ tasks = <<>>
                /\ ~joinable => pc["writer"] = "ended" \/ pc["main"] = "killed"
                /\ exitCondition => \/ pc["main"] \in {"finish", "join", "destroyNotify", "destroyJoin",
                                                       "ended", "terminated", "killed"}
                                    \/ pc["main"] \in {"unwind", "destroy"} /\ ~joinable
  /\ NoPieceForgotten
  /\ ResumeSound
  /\ OutputComplete

(* No piece is held at the start.                                          *)
LEMMA CustodyInit == Init => Custody
<1> SUFFICES ASSUME Init PROVE Custody
  OBVIOUS
<1>1. Queued = {} /\ inHand["main"] = {} /\ inHand["writer"] = {} /\ tasks = <<>>
  BY EmptyQueue DEF Init, Queued, Threads, Elems
<1> QED
  BY <1>1, TypeInit, EmptyQueue DEF Custody, HeldOnce, Threads

(* Pieces change hands one at a time: one step per action.                 *)
LEMMA CustodyStep == Custody /\ [Next]_vars => Custody'
<1> SUFFICES ASSUME Custody, [Next]_vars PROVE Custody'
  OBVIOUS
<1>t. TypeOK /\ TypeOK'
  BY TypeStep DEF Custody
<1> USE <1>t DEF Custody, HeldOnce, Queued, Threads, Goto, shared
<1>1. CASE Writer
  <2>1. CASE WriterLock
    BY <2>1 DEF WriterLock, LockMutex, TypeOK
  <2>2. CASE WriterMustWait
    BY <2>2 DEF WriterMustWait, TypeOK
  <2>3. CASE WriterSleep
    BY <2>3 DEF WriterSleep, Sleep, Unlock, TypeOK
  <2>4. CASE WriterWake
    BY <2>4 DEF WriterWake, TypeOK
  <2>5. CASE WriterReturn
    BY <2>5 DEF WriterReturn, Unlock, TypeOK
  <2>6. CASE WriterNotify
    BY <2>6 DEF WriterNotify, TypeOK
  <2>7. CASE WriterWrite
    BY <2>7 DEF WriterWrite, TypeOK
  <2>8. CASE WriterFail
    BY <2>8 DEF WriterFail, TypeOK
  <2>9. CASE WriterFailNotify
    BY <2>9 DEF WriterFailNotify, TypeOK
  <2>10. CASE WriterPop
    <3>1. tasks # <<>> /\ tasks' = Tail(tasks) /\ inHand' = [inHand EXCEPT !["writer"] = {Head(tasks)}]
      BY <2>10 DEF WriterPop, Popped
    <3>2. /\ Len(tasks) \in Nat \ {0} /\ Len(tasks') = Len(tasks) - 1 /\ Head(tasks) = tasks[1]
          /\ Elems(tasks) = {Head(tasks)} \cup Elems(tasks')
          /\ \A i \in 1 .. Len(tasks) - 1 : tasks'[i] = tasks[i + 1]
      BY <3>1, TailElems DEF TypeOK
    <3>3. \A i, j \in 1 .. Len(tasks') : tasks'[i] = tasks'[j] => i = j
      BY <3>2
    <3>4. Head(tasks) \notin Elems(tasks')
      <4> SUFFICES ASSUME NEW i \in 1 .. Len(tasks'), tasks'[i] = tasks[1] PROVE FALSE
        BY <3>2 DEF Elems
      <4>1. i + 1 \in 1 .. Len(tasks) /\ 1 \in 1 .. Len(tasks) /\ tasks[i + 1] = tasks[1]
        BY <3>2
      <4> QED
        BY <4>1
    <3>5. Queued = Elems(tasks) /\ Queued' = Elems(tasks')
      BY DEF Elems
    <3>6. /\ inHand'["writer"] = {Head(tasks)} /\ inHand'["main"] = inHand["main"]
          /\ pc["writer"] = "test" /\ pc'["writer"] = "notify" /\ pc'["main"] = pc["main"] /\ haves' = haves
      BY <2>10 DEF WriterPop, TypeOK
    <3>7. HeldOnce'
      <4>1. Queued' \subseteq Queued /\ Head(tasks) \in Queued
        BY <3>2, <3>5
      <4> HIDE DEF Queued
      <4> QED
        BY <3>3, <3>4, <3>5, <3>6, <4>1
    <3> HIDE DEF HeldOnce, Queued
    <3> QED
      BY <3>2, <3>5, <3>6, <3>7
  <2> QED
    BY <1>1, <2>1, <2>2, <2>3, <2>4, <2>5, <2>6, <2>7, <2>8, <2>9, <2>10 DEF Writer
<1>2. CASE Main
  <2>1. CASE ScheduleLock
    BY <2>1 DEF ScheduleLock, TypeOK
  <2>2. CASE ScheduleMustWait
    BY <2>2 DEF ScheduleMustWait, TypeOK
  <2>3. CASE ScheduleSleep
    BY <2>3 DEF ScheduleSleep, Sleep, TypeOK
  <2>4. CASE ScheduleWake
    BY <2>4 DEF ScheduleWake, TypeOK
  <2>5. CASE ScheduleNotify
    BY <2>5 DEF ScheduleNotify, TypeOK
  <2>6. CASE ScheduleThrow
    BY <2>6 DEF ScheduleThrow, TypeOK
  <2>7. CASE Abandon
    BY <2>7 DEF Abandon, TypeOK
  <2>8. CASE FinishFlag
    BY <2>8 DEF FinishFlag, TypeOK
  <2>9. CASE FinishNotify
    BY <2>9 DEF FinishNotify, TypeOK
  <2>10. CASE FinishSplit
    BY <2>10 DEF FinishSplit, Join, TypeOK
  <2>11. CASE FinishPending
    BY <2>11 DEF FinishPending, Join, TypeOK
  <2>12. CASE SaveState
    BY <2>12 DEF SaveState, TypeOK
  <2>13. CASE DestroyFlag
    BY <2>13 DEF DestroyFlag, TypeOK
  <2>14. CASE DestroyNotify
    BY <2>14 DEF DestroyNotify, TypeOK
  <2>15. CASE DestroyJoin
    BY <2>15 DEF DestroyJoin, TypeOK
  <2>16. CASE DestroyThread
    BY <2>16 DEF DestroyThread, TypeOK
  <2>17. CASE \E q \in Pieces : PieceReady(q)
    <3>1. PICK q \in Pieces : PieceReady(q)
      BY <2>17
    <3>2. inHand'["main"] = {q} /\ inHand'["writer"] = inHand["writer"] /\ q \notin haves
      BY <3>1 DEF PieceReady, TypeOK
    <3> QED
      BY <3>1, <3>2 DEF PieceReady, TypeOK
  <2>18. CASE SchedulePush
    <3>1. PICK q \in inHand["main"] : tasks' = Append(tasks, q)
      BY <2>18 DEF SchedulePush, Enqueue
    <3>2. /\ Len(tasks) \in Nat /\ Len(tasks') = Len(tasks) + 1
          /\ Elems(tasks') = Elems(tasks) \cup {q}
          /\ \A i \in 1 .. Len(tasks) : tasks'[i] = tasks[i]
          /\ tasks'[Len(tasks) + 1] = q
      BY <3>1, AppendElems DEF TypeOK
    <3>3. q \notin Elems(tasks) /\ Queued = Elems(tasks) /\ Queued' = Elems(tasks')
      BY DEF Elems
    <3>4. \A i, j \in 1 .. Len(tasks') : tasks'[i] = tasks'[j] => i = j
      <4> SUFFICES ASSUME NEW i \in 1 .. Len(tasks'), NEW j \in 1 .. Len(tasks'), i < j, tasks'[i] = tasks'[j]
                   PROVE FALSE
        BY <3>2
      <4>1. i \in 1 .. Len(tasks) /\ tasks'[i] = tasks[i]
        BY <3>2
      <4>2. CASE j = Len(tasks) + 1
        BY <3>2, <3>3, <4>1, <4>2 DEF Elems
      <4>3. CASE j # Len(tasks) + 1
        <5>1. j \in 1 .. Len(tasks) /\ tasks'[j] = tasks[j]
          BY <3>2, <4>3
        <5>2. i = j
          BY <4>1, <5>1
        <5> QED
          BY <3>2, <5>2
      <4> QED
        BY <4>2, <4>3
    <3>5. /\ inHand'["main"] = {} /\ inHand'["writer"] = inHand["writer"]
          /\ pc'["writer"] = pc["writer"] /\ haves' = haves
      BY <2>18 DEF SchedulePush, TypeOK
    <3> HIDE DEF Queued
    <3> QED
      BY <3>1, <3>2, <3>3, <3>4, <3>5
  <2> QED
    BY <1>2, <2>1, <2>2, <2>3, <2>4, <2>5, <2>6, <2>7, <2>8, <2>9, <2>10,
       <2>11, <2>12, <2>13, <2>14, <2>15, <2>16, <2>17, <2>18 DEF Main
<1>3. CASE SpuriousWakeup
  BY <1>3 DEF SpuriousWakeup
<1>4. CASE Crash
  BY <1>4 DEF Crash, ProcessEnded
<1>5. CASE Restart
  <2>1. Queued' = {} /\ inHand'["main"] = {} /\ inHand'["writer"] = {} /\ Len(tasks') = 0
    BY <1>5, EmptyQueue DEF Restart, Elems
  <2> HIDE DEF Queued
  <2> QED
    BY <2>1
<1>6. CASE Finished \/ UNCHANGED vars
  BY <1>6 DEF Finished, vars
<1> QED
  BY <1>1, <1>2, <1>3, <1>4, <1>5, <1>6 DEF Next

(* A piece is never queued twice, never both queued and in the hands of a  *)
(* thread, and never in the hands of both: the writer cannot write a piece *)
(* that the main thread is still scheduling.                               *)
THEOREM PiecesHeldOnce == Spec => []HeldOnce
<1>1. Custody => HeldOnce
  BY DEF Custody
<1> QED
  BY <1>1, CustodyInit, CustodyStep, PTL DEF Spec

-----------------------------------------------------------------------------
(* The state that is saved, and the files.  The process must not be killed *)
(* between the saving of the state and the end of the drain: the state is  *)
(* saved before the queue is written, so that a kill there leaves a state  *)
(* that names pieces which are lost.                                       *)

LEMMA DrainedInit == Init => Drained
<1> SUFFICES ASSUME Init PROVE Drained
  OBVIOUS
<1>1. pc["main"] = "loop" /\ pc["writer"] = "lock"
  BY StartingPlaces DEF Init
<1> QED
  BY <1>1 DEF Init, Drained, NoPieceForgotten, ResumeSound, OutputComplete

(* Nothing is held once the writer has ended and the main thread is past   *)
(* its loop: what is counted is in the temporary file.                     *)
LEMMA AllWritten ==
  ASSUME Custody, Drained, ~failed, pc["writer"] = "ended",
         pc["main"] \notin {"lock", "test", "sleep", "asleep", "killed"}
  PROVE  haves \subseteq tempFile
<1>1. tasks = <<>> /\ inHand["main"] = {} /\ inHand["writer"] = {}
  BY DEF Custody, Drained
<1>2. Queued = {}
  BY <1>1, EmptyQueue DEF Queued, Elems
<1>3. UNION {inHand[t] : t \in Threads} = {}
  BY <1>1 DEF Threads
<1> QED
  BY <1>2, <1>3 DEF Drained, NoPieceForgotten

(* What the files say stays true: one step per action; a kill that would   *)
(* interrupt the drain is excluded.                                        *)
LEMMA DrainedStep ==
  ASSUME CrashAt \cap Draining = {}, Custody, Drained, [Next]_vars
  PROVE  Drained'
<1>t. TypeOK /\ TypeOK'
  BY TypeStep DEF Custody
<1> DEFINE InHands == inHand["main"] \cup inHand["writer"]
<1>u. UNION {inHand[t] : t \in Threads} = InHands /\ UNION {inHand'[t] : t \in Threads} = InHands'
  BY DEF Threads
<1> USE <1>t DEF Drained, NoPieceForgotten, ResumeSound, OutputComplete, Goto, shared, durable, Draining
<1>1. CASE Writer
  <2> USE <1>u
  <2>1. CASE WriterLock
    BY <2>1 DEF WriterLock, Queued, TypeOK, Threads
  <2>2. CASE WriterMustWait
    BY <2>2 DEF WriterMustWait, Queued, TypeOK, Threads
  <2>3. CASE WriterSleep
    BY <2>3 DEF WriterSleep, Sleep, Queued, TypeOK, Threads
  <2>4. CASE WriterWake
    BY <2>4 DEF WriterWake, Queued, TypeOK, Threads
  <2>5. CASE WriterReturn
    BY <2>5 DEF WriterReturn, MayReturn, Queued, TypeOK, Threads
  <2>6. CASE WriterNotify
    BY <2>6 DEF WriterNotify, Queued, TypeOK, Threads
  <2>7. CASE WriterWrite
    BY <2>7 DEF WriterWrite, Queued, TypeOK, Threads
  <2>8. CASE WriterFail
    BY <2>8 DEF WriterFail, Queued, TypeOK, Threads
  <2>9. CASE WriterFailNotify
    BY <2>9 DEF WriterFailNotify, Queued, TypeOK, Threads
  <2>10. CASE WriterPop
    <3>1. /\ tasks # <<>> /\ tasks' = Tail(tasks) /\ pc["writer"] = "test"
          /\ inHand' = [inHand EXCEPT !["writer"] = {Head(tasks)}]
      BY <2>10 DEF WriterPop, Popped
    <3>2. Elems(tasks) = {Head(tasks)} \cup Elems(tasks') /\ Queued = Elems(tasks) /\ Queued' = Elems(tasks')
      <4>1. Queued = Elems(tasks) /\ Queued' = Elems(tasks')
        BY DEF Queued, Elems
      <4> QED
        BY <3>1, <4>1, TailElems DEF TypeOK
    <3>3. /\ inHand["writer"] = {} /\ inHand'["writer"] = {Head(tasks)} /\ inHand'["main"] = inHand["main"]
          /\ pc'["writer"] = "notify" /\ pc'["main"] = pc["main"]
      BY <2>10, <3>1 DEF WriterPop, TypeOK, Custody, Threads
    <3> QED
      BY <2>10, <3>2, <3>3 DEF WriterPop
  <2> QED
    BY <1>1, <2>1, <2>2, <2>3, <2>4, <2>5, <2>6, <2>7, <2>8, <2>9, <2>10 DEF Writer
<1>2. CASE Main
  <2> USE <1>u
  <2>1. CASE ScheduleLock
    BY <2>1 DEF ScheduleLock, Queued, TypeOK, Threads
  <2>2. CASE ScheduleMustWait
    BY <2>2 DEF ScheduleMustWait, Queued, TypeOK, Threads
  <2>3. CASE ScheduleSleep
    BY <2>3 DEF ScheduleSleep, Sleep, Queued, TypeOK, Threads
  <2>4. CASE ScheduleWake
    BY <2>4 DEF ScheduleWake, Queued, TypeOK, Threads
  <2>5. CASE ScheduleNotify
    BY <2>5 DEF ScheduleNotify, Queued, TypeOK, Threads
  <2>6. CASE ScheduleThrow
    BY <2>6 DEF ScheduleThrow, Queued, TypeOK, Threads
  <2>7. CASE Abandon
    BY <2>7 DEF Abandon, Queued, TypeOK, Threads
  <2>8. CASE FinishFlag
    BY <2>8 DEF FinishFlag, Queued, TypeOK, Threads
  <2>9. CASE FinishNotify
    BY <2>9 DEF FinishNotify, Queued, TypeOK, Threads
  <2>10. CASE FinishSplit
    <3>1. ~failed => haves \subseteq tempFile
      BY <2>10, AllWritten DEF FinishSplit, Join
    <3> QED
      BY <2>10, <3>1 DEF FinishSplit, Join, Queued, TypeOK, Threads
  <2>11. CASE FinishPending
    <3>1. ~failed => haves \subseteq tempFile
      BY <2>11, AllWritten DEF FinishPending, Join
    <3> QED
      BY <2>11, <3>1 DEF FinishPending, Join, Queued, TypeOK, Threads
  <2>12. CASE SaveState
    BY <2>12 DEF SaveState, Queued, TypeOK, Threads
  <2>13. CASE DestroyFlag
    BY <2>13 DEF DestroyFlag, Queued, TypeOK, Threads
  <2>14. CASE DestroyNotify
    BY <2>14 DEF DestroyNotify, Queued, TypeOK, Threads
  <2>15. CASE DestroyJoin
    <3>1. ~failed => haves \subseteq tempFile
      BY <2>15, AllWritten DEF DestroyJoin
    <3> QED
      BY <2>15, <3>1 DEF DestroyJoin, Queued, TypeOK, Threads
  <2>16. CASE DestroyThread
    <3>1. ~failed => ~joinable /\ haves \subseteq tempFile
      <4>1. ~failed => ~joinable
        BY <2>16 DEF DestroyThread
      <4>2. ~failed => pc["writer"] = "ended"
        BY <2>16, <4>1 DEF DestroyThread
      <4> QED
        BY <2>16, <4>1, <4>2, AllWritten DEF DestroyThread
    <3> QED
      BY <2>16, <3>1 DEF DestroyThread, Queued, TypeOK, Threads
  <2>17. CASE (\E q \in Pieces : PieceReady(q))
    <3>1. PICK q \in Pieces : PieceReady(q)
      BY <2>17
    <3>2. /\ inHand["main"] = {} /\ inHand'["main"] = {q} /\ inHand'["writer"] = inHand["writer"]
          /\ pc'["writer"] = pc["writer"] /\ pc'["main"] = "lock" /\ pc["main"] = "loop" /\ Queued' = Queued
      BY <3>1 DEF PieceReady, TypeOK, Custody, Threads, Queued
    <3> QED
      BY <3>1, <3>2 DEF PieceReady
  <2>18. CASE SchedulePush
    <3>1. PICK q \in inHand["main"] : tasks' = Append(tasks, q)
      BY <2>18 DEF SchedulePush, Enqueue
    <3>2. Elems(tasks') = Elems(tasks) \cup {q} /\ Queued = Elems(tasks) /\ Queued' = Elems(tasks')
      BY <3>1, AppendElems DEF TypeOK, Queued, Elems
    <3>3. /\ inHand["main"] = {q} /\ inHand'["main"] = {} /\ inHand'["writer"] = inHand["writer"]
          /\ pc'["writer"] = pc["writer"] /\ pc'["main"] = "notify" /\ ~exitCondition
      BY <2>18, <3>1 DEF SchedulePush, TypeOK, Custody, Threads
    <3> QED
      BY <2>18, <3>2, <3>3 DEF SchedulePush
  <2> QED
    BY <1>2, <2>1, <2>2, <2>3, <2>4, <2>5, <2>6, <2>7, <2>8, <2>9, <2>10,
       <2>11, <2>12, <2>13, <2>14, <2>15, <2>16, <2>17, <2>18 DEF Main
<1>3. CASE SpuriousWakeup
  BY <1>3 DEF SpuriousWakeup, Queued
<1>4. CASE Crash
  BY <1>4 DEF Crash, ProcessEnded, Queued, Threads, TypeOK
<1>5. CASE Restart
  <2>1. pc'["main"] = "loop" /\ pc'["writer"] = "lock"
    BY <1>5, StartingPlaces DEF Restart
  <2>2. ~failed => stateFile \subseteq tempFile
    BY <1>5 DEF Restart, ProcessEnded
  <2> QED
    BY <1>5, <2>1, <2>2 DEF Restart
<1>6. CASE Finished \/ UNCHANGED vars
  BY <1>6 DEF Finished, vars, Queued
<1> QED
  BY <1>1, <1>2, <1>3, <1>4, <1>5, <1>6 DEF Next

(* Both invariants together, since each needs the other's previous state.  *)
LEMMA DrainedAlways ==
  ASSUME CrashAt \cap Draining = {}
  PROVE  Spec => [](Custody /\ Drained)
<1>1. Init => Custody /\ Drained
  BY CustodyInit, DrainedInit
<1>2. Custody /\ Drained /\ [Next]_vars => (Custody /\ Drained)'
  BY CustodyStep, DrainedStep
<1> QED
  BY <1>1, <1>2, PTL DEF Spec

(* As long as no write has failed a piece that is counted as downloaded is *)
(* in the temporary file, in the queue or in the hands of a thread, over   *)
(* any number of kills and restarts.                                       *)
THEOREM NothingForgotten ==
  ASSUME CrashAt \cap Draining = {}
  PROVE  Spec => []NoPieceForgotten
<1>1. Custody /\ Drained => NoPieceForgotten
  BY DEF Drained
<1> QED
  BY <1>1, DrainedAlways, PTL

(* Outside the drain the saved state names only pieces that are in the     *)
(* temporary file, although it is saved before the queue is drained.       *)
THEOREM ResumeIsSound ==
  ASSUME CrashAt \cap Draining = {}
  PROVE  Spec => []ResumeSound
<1>1. Custody /\ Drained => ResumeSound
  BY DEF Drained
<1> QED
  BY <1>1, DrainedAlways, PTL

(* finish() makes the final files from a temporary file that is complete,  *)
(* unless a write has failed.                                              *)
THEOREM OutputIsComplete ==
  ASSUME CrashAt \cap Draining = {}
  PROVE  Spec => []OutputComplete
<1>1. Custody /\ Drained => OutputComplete
  BY DEF Drained
<1> QED
  BY <1>1, DrainedAlways, PTL
=============================================================================
