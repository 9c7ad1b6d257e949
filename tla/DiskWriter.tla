----------------------------- MODULE DiskWriter -----------------------------
(***************************************************************************)
(* The asynchronous disk writer of the torrent client (class DiskWriter,   *)
(* torrent/src/disk_writer.cpp) and what the main thread does around it:   *)
(* TorrentDownloader counts a piece as downloaded and schedules it, saves  *)
(* the list of downloaded pieces in its destructor, and resumes from it.   *)
(*                                                                         *)
(* Two threads, one mutex and one condition variable.  A step is what a    *)
(* thread does between two accesses to shared state; testing the predicate *)
(* of a wait and going to sleep are two steps, because exitCondition is    *)
(* set and notified without the mutex.  The contents of a piece and its    *)
(* offset are left out: the temporary file is the set of pieces in it.     *)
(***************************************************************************)
EXTENDS Integers, Sequences, FiniteSets

CONSTANTS Pieces,         \* the pieces of the torrent
          MAX_QUEUE,      \* bound of the queue
          WritesMayFail,  \* whether a write to the temporary file may fail
          CrashAt         \* locations of the main thread where the process may be killed

ASSUME QueuePositive == MAX_QUEUE \in Nat \ {0}
ASSUME WritesMayFailType == WritesMayFail \in BOOLEAN

Threads == {"main", "writer"}

VARIABLES
  tasks,          \* the queue of pieces to write
  exitCondition,  \* atomic flag
  mutex,          \* the thread that holds taskMutex, or "free"
  waiting,        \* the threads asleep on tasksCV
  pc,             \* where each thread is
  haves,          \* pieces the piece manager counts as downloaded
  inHand,         \* the piece each thread is holding, if any
  joinable,       \* the std::thread object has not been joined
  tempFile,       \* pieces in the temporary file
  stateFile,      \* pieces in the saved state ({}: there is no file)
  output,         \* the final files: "none", "partial" or "whole"
  failed          \* a write has failed since the download was first started

vars == <<tasks, exitCondition, mutex, waiting, pc, haves, inHand, joinable,
          tempFile, stateFile, output, failed>>

shared == <<tasks, exitCondition, mutex, waiting>>
durable == <<tempFile, stateFile, output>>

-----------------------------------------------------------------------------
(* std::mutex and std::condition_variable.                                 *)

Goto(t, l) == pc' = [pc EXCEPT ![t] = l]

LockMutex(t) == mutex = "free" /\ mutex' = t

Unlock == mutex' = "free"

NotifyAll == waiting' = {}

NotifyOne == IF waiting = {} THEN UNCHANGED waiting
                             ELSE \E t \in waiting : waiting' = waiting \ {t}

(* wait() releases the mutex and sleeps in one step ...                    *)
Sleep(t, l) == /\ Unlock
               /\ waiting' = waiting \cup {t}
               /\ Goto(t, l)

(* ... and may return without having been notified.                        *)
SpuriousWakeup ==
  /\ \E t \in waiting : waiting' = waiting \ {t}
  /\ UNCHANGED <<tasks, exitCondition, mutex, pc, haves, inHand, joinable, durable, failed>>

-----------------------------------------------------------------------------
(* The writer thread.                                                      *)

WriterLock ==
  /\ pc["writer"] = "lock"
  /\ LockMutex("writer")
  /\ Goto("writer", "test")
  /\ UNCHANGED <<tasks, exitCondition, waiting, haves, inHand, joinable, durable, failed>>

(* The predicate does not hold: wait() is about to sleep.                  *)
WriterMustWait ==
  /\ pc["writer"] = "test"
  /\ ~exitCondition
  /\ tasks = <<>>
  /\ Goto("writer", "sleep")
  /\ UNCHANGED <<shared, haves, inHand, joinable, durable, failed>>

WriterSleep ==
  /\ pc["writer"] = "sleep"
  /\ Sleep("writer", "asleep")
  /\ UNCHANGED <<tasks, exitCondition, haves, inHand, joinable, durable, failed>>

WriterWake ==
  /\ pc["writer"] = "asleep"
  /\ "writer" \notin waiting
  /\ Goto("writer", "lock")
  /\ UNCHANGED <<shared, haves, inHand, joinable, durable, failed>>

(* Mutant: the queue is not drained before the thread returns.             *)
MayReturnAtOnce == exitCondition

MayReturn == exitCondition /\ tasks = <<>>

WriterReturn ==
  /\ pc["writer"] = "test"
  /\ MayReturn
  /\ Unlock
  /\ Goto("writer", "ended")
  /\ UNCHANGED <<tasks, exitCondition, waiting, haves, inHand, joinable, durable, failed>>

(* Mutant: tasks.pop() is forgotten.                                       *)
PoppedNothing(s) == s

Popped(s) == Tail(s)

WriterPop ==
  /\ pc["writer"] = "test"
  /\ ~MayReturn
  /\ tasks # <<>>
  /\ inHand' = [inHand EXCEPT !["writer"] = {Head(tasks)}]
  /\ tasks' = Popped(tasks)
  /\ Unlock
  /\ Goto("writer", "notify")
  /\ UNCHANGED <<exitCondition, waiting, haves, joinable, durable, failed>>

(* Mutant: the thread that waits for room in the queue is not woken.       *)
WriterNotifyNobody ==
  /\ pc["writer"] = "notify"
  /\ Goto("writer", "write")
  /\ UNCHANGED <<shared, haves, inHand, joinable, durable, failed>>

WriterNotify ==
  /\ pc["writer"] = "notify"
  /\ NotifyOne
  /\ Goto("writer", "write")
  /\ UNCHANGED <<tasks, exitCondition, mutex, haves, inHand, joinable, durable, failed>>

WriterWrite ==
  /\ pc["writer"] = "write"
  /\ tempFile' = tempFile \cup inHand["writer"]
  /\ inHand' = [inHand EXCEPT !["writer"] = {}]
  /\ Goto("writer", "lock")
  /\ UNCHANGED <<shared, haves, joinable, stateFile, output, failed>>

(* The exception of a failed write is caught in the thread's function ...  *)
WriterFail ==
  /\ WritesMayFail
  /\ pc["writer"] = "write"
  /\ inHand' = [inHand EXCEPT !["writer"] = {}]
  /\ exitCondition' = TRUE
  /\ failed' = TRUE
  /\ Goto("writer", "failed")
  /\ UNCHANGED <<tasks, mutex, waiting, haves, joinable, durable>>

(* ... which notifies and returns.                                         *)
WriterFailNotify ==
  /\ pc["writer"] = "failed"
  /\ NotifyAll
  /\ Goto("writer", "ended")
  /\ UNCHANGED <<tasks, exitCondition, mutex, haves, inHand, joinable, durable, failed>>

Writer == \/ WriterLock \/ WriterMustWait \/ WriterSleep \/ WriterWake
          \/ WriterReturn \/ WriterPop \/ WriterNotify \/ WriterWrite
          \/ WriterFail \/ WriterFailNotify

-----------------------------------------------------------------------------
(* The main thread: schedule.                                              *)

(* The last block of piece q arrived: it is counted, then scheduled.       *)
PieceReady(q) ==
  /\ pc["main"] = "loop"
  /\ q \notin haves
  /\ haves' = haves \cup {q}
  /\ inHand' = [inHand EXCEPT !["main"] = {q}]
  /\ Goto("main", "lock")
  /\ UNCHANGED <<shared, joinable, durable, failed>>

ScheduleLock ==
  /\ pc["main"] = "lock"
  /\ LockMutex("main")
  /\ Goto("main", "test")
  /\ UNCHANGED <<tasks, exitCondition, waiting, haves, inHand, joinable, durable, failed>>

QueueFull == Len(tasks) >= MAX_QUEUE

ScheduleMustWait ==
  /\ pc["main"] = "test"
  /\ ~exitCondition
  /\ QueueFull
  /\ Goto("main", "sleep")
  /\ UNCHANGED <<shared, haves, inHand, joinable, durable, failed>>

ScheduleSleep ==
  /\ pc["main"] = "sleep"
  /\ Sleep("main", "asleep")
  /\ UNCHANGED <<tasks, exitCondition, haves, inHand, joinable, durable, failed>>

ScheduleWake ==
  /\ pc["main"] = "asleep"
  /\ "main" \notin waiting
  /\ Goto("main", "lock")
  /\ UNCHANGED <<shared, haves, inHand, joinable, durable, failed>>

(* Mutant: only the most recent piece is kept.                             *)
EnqueueOverwrite(s, q) == <<q>>

Enqueue(s, q) == Append(s, q)

SchedulePush ==
  /\ pc["main"] = "test"
  /\ ~exitCondition
  /\ ~QueueFull
  /\ \E q \in inHand["main"] : tasks' = Enqueue(tasks, q)
  /\ inHand' = [inHand EXCEPT !["main"] = {}]
  /\ Unlock
  /\ Goto("main", "notify")
  /\ UNCHANGED <<exitCondition, waiting, haves, joinable, durable, failed>>

ScheduleNotify ==
  /\ pc["main"] = "notify"
  /\ NotifyOne
  /\ Goto("main", "loop")
  /\ UNCHANGED <<tasks, exitCondition, mutex, haves, inHand, joinable, durable, failed>>

(* The writer has failed: the exception leaves download().                 *)
ScheduleThrow ==
  /\ pc["main"] = "test"
  /\ exitCondition
  /\ inHand' = [inHand EXCEPT !["main"] = {}]
  /\ Unlock
  /\ Goto("main", "unwind")
  /\ UNCHANGED <<tasks, exitCondition, waiting, haves, joinable, durable, failed>>

(* download() returns before the loop, or another exception leaves it.     *)
Abandon ==
  /\ pc["main"] = "loop"
  /\ Goto("main", "unwind")
  /\ UNCHANGED <<shared, haves, inHand, joinable, durable, failed>>

-----------------------------------------------------------------------------
(* The main thread: finish, when the loop ends.                            *)

FinishFlag ==
  /\ pc["main"] = "loop"
  /\ exitCondition' = TRUE
  /\ Goto("main", "finish")
  /\ UNCHANGED <<tasks, mutex, waiting, haves, inHand, joinable, durable, failed>>

FinishNotify ==
  /\ pc["main"] = "finish"
  /\ NotifyAll
  /\ Goto("main", "join")
  /\ UNCHANGED <<tasks, exitCondition, mutex, haves, inHand, joinable, durable, failed>>

(* Mutant: the files are split while the writer is still at work.          *)
JoinNothing == pc["main"] = "join"

Join == pc["main"] = "join" /\ pc["writer"] = "ended"

(* All pieces are downloaded: the final files are copied from the          *)
(* temporary file, which is then removed; a copy that fails leaves both.   *)
FinishSplit ==
  /\ Join
  /\ haves = Pieces
  /\ joinable' = FALSE
  /\ output' \in {"whole", "partial"}
  /\ Goto("main", "unwind")
  /\ UNCHANGED <<shared, haves, inHand, tempFile, stateFile, failed>>

FinishPending ==
  /\ Join
  /\ haves # Pieces
  /\ joinable' = FALSE
  /\ Goto("main", "unwind")
  /\ UNCHANGED <<shared, haves, inHand, durable, failed>>

-----------------------------------------------------------------------------
(* The main thread: the destructors.                                       *)

(* ~TorrentDownloader saves the state before its members are destroyed.    *)
SaveState ==
  /\ pc["main"] = "unwind"
  /\ stateFile' = IF haves = {} THEN stateFile ELSE haves
  /\ Goto("main", "destroy")
  /\ UNCHANGED <<shared, haves, inHand, joinable, tempFile, output, failed>>

(* ~DiskWriter: exitCondition is taken to mean that finish() was called.   *)
DestroyFlag ==
  /\ pc["main"] = "destroy"
  /\ ~exitCondition
  /\ exitCondition' = TRUE
  /\ Goto("main", "destroyNotify")
  /\ UNCHANGED <<tasks, mutex, waiting, haves, inHand, joinable, durable, failed>>

DestroyNotify ==
  /\ pc["main"] = "destroyNotify"
  /\ NotifyAll
  /\ Goto("main", "destroyJoin")
  /\ UNCHANGED <<tasks, exitCondition, mutex, haves, inHand, joinable, durable, failed>>

DestroyJoin ==
  /\ pc["main"] = "destroyJoin"
  /\ pc["writer"] = "ended"
  /\ joinable' = FALSE
  /\ Goto("main", "ended")
  /\ UNCHANGED <<shared, haves, inHand, durable, failed>>

(* The std::thread member is destroyed: std::terminate if still joinable.  *)
DestroyThread ==
  /\ pc["main"] = "destroy"
  /\ exitCondition
  /\ IF joinable THEN pc' = [t \in Threads |-> "terminated"] ELSE Goto("main", "ended")
  /\ UNCHANGED <<shared, haves, inHand, joinable, durable, failed>>

Main == \/ \E q \in Pieces : PieceReady(q)
        \/ ScheduleLock \/ ScheduleMustWait \/ ScheduleSleep \/ ScheduleWake
        \/ SchedulePush \/ ScheduleNotify \/ ScheduleThrow \/ Abandon
        \/ FinishFlag \/ FinishNotify \/ FinishSplit \/ FinishPending
        \/ SaveState \/ DestroyFlag \/ DestroyNotify \/ DestroyJoin \/ DestroyThread

-----------------------------------------------------------------------------
ProcessEnded == pc["main"] \in {"ended", "terminated", "killed"}

Crash ==
  /\ pc["main"] \in CrashAt
  /\ ~ProcessEnded
  /\ pc' = [t \in Threads |-> "killed"]
  /\ UNCHANGED <<shared, haves, inHand, joinable, durable, failed>>

(* A new process: the constructors refuse to start over final files, and   *)
(* otherwise take the saved list of pieces for what is downloaded.         *)
Restart ==
  /\ ProcessEnded
  /\ output = "none"
  /\ tasks' = <<>>
  /\ exitCondition' = FALSE
  /\ mutex' = "free"
  /\ waiting' = {}
  /\ pc' = [main |-> "loop", writer |-> "lock"]
  /\ haves' = stateFile
  /\ inHand' = [t \in Threads |-> {}]
  /\ joinable' = TRUE
  /\ UNCHANGED <<durable, failed>>

Init ==
  /\ tasks = <<>>
  /\ exitCondition = FALSE
  /\ mutex = "free"
  /\ waiting = {}
  /\ pc = [main |-> "loop", writer |-> "lock"]
  /\ haves = {}
  /\ inHand = [t \in Threads |-> {}]
  /\ joinable = TRUE
  /\ tempFile = {}
  /\ stateFile = {}
  /\ output = "none"
  /\ failed = FALSE

(* The final files exist: every later start of the program is refused.     *)
Finished == ProcessEnded /\ output # "none" /\ UNCHANGED vars

Next == Main \/ Writer \/ SpuriousWakeup \/ Crash \/ Restart \/ Finished

Spec == Init /\ [][Next]_vars

(***************************************************************************)
(* Both threads keep running while they can, and a mutex that is released  *)
(* again and again (by a thread woken for nothing, over and over) is at    *)
(* last obtained.  Nothing forces a spurious wakeup, a new piece, the end  *)
(* of the download, a crash or a restart.                                  *)
(***************************************************************************)
MainGoesOn == \/ ScheduleLock \/ ScheduleMustWait \/ ScheduleSleep \/ ScheduleWake
              \/ SchedulePush \/ ScheduleNotify \/ ScheduleThrow
              \/ FinishNotify \/ FinishSplit \/ FinishPending
              \/ SaveState \/ DestroyFlag \/ DestroyNotify \/ DestroyJoin \/ DestroyThread

FairSpec == /\ Spec
            /\ WF_vars(Writer) /\ SF_vars(WriterLock)
            /\ WF_vars(MainGoesOn) /\ SF_vars(ScheduleLock)

-----------------------------------------------------------------------------
MainPC == {"loop", "lock", "test", "sleep", "asleep", "notify", "finish", "join", "unwind",
           "destroy", "destroyNotify", "destroyJoin", "ended", "terminated", "killed"}
WriterPC == {"lock", "test", "sleep", "asleep", "notify", "write", "failed", "ended",
             "terminated", "killed"}

TypeOK ==
  /\ tasks \in Seq(Pieces) /\ Len(tasks) <= MAX_QUEUE
  /\ exitCondition \in BOOLEAN /\ joinable \in BOOLEAN /\ failed \in BOOLEAN
  /\ mutex \in Threads \cup {"free"}
  /\ waiting \in SUBSET Threads
  /\ pc \in [Threads -> MainPC \cup WriterPC]
  /\ pc["main"] \in MainPC /\ pc["writer"] \in WriterPC
  /\ inHand \in [Threads -> SUBSET Pieces]
  /\ haves \in SUBSET Pieces /\ tempFile \in SUBSET Pieces /\ stateFile \in SUBSET Pieces
  /\ output \in {"none", "partial", "whole"}

Queued == {tasks[i] : i \in 1 .. Len(tasks)}

(* As long as no write has failed, every piece counted as downloaded is in *)
(* the temporary file, in the queue, or in the hands of one of the threads *)
(* - in this process and in one that resumes the download.                 *)
NoPieceForgotten ==
  ~failed => haves \subseteq tempFile \cup Queued \cup UNION {inHand[t] : t \in Threads}

(* The locations between the saving of the state and the end of the drain. *)
Draining == {"destroy", "destroyNotify", "destroyJoin"}

(* A process that ends, or is killed at any other moment, leaves a state   *)
(* that names only pieces which are in the temporary file, although the    *)
(* state is saved before the queue has been drained.                       *)
ResumeSound ==
  ~failed /\ pc["main"] \notin Draining => stateFile \subseteq tempFile

(* The final files are only made from a temporary file that has all the    *)
(* pieces, unless a write has failed.                                      *)
OutputComplete ==
  output = "whole" /\ ~failed => tempFile = Pieces

(* The queue and the threads never hold the same piece twice.              *)
HeldOnce ==
  /\ \A i, j \in 1 .. Len(tasks) : tasks[i] = tasks[j] => i = j
  /\ \A t \in Threads : inHand[t] \cap Queued = {}
  /\ inHand["main"] \cap inHand["writer"] = {}

(* Unless a write fails or the process is killed, schedule() returns to    *)
(* the loop however full the queue is: although both threads sleep on one  *)
(* condition variable, the writer's notification is never missed.          *)
ScheduleReturns ==
  pc["main"] \in {"lock", "test", "sleep", "asleep", "notify"}
    ~> (pc["main"] = "loop" \/ failed \/ ProcessEnded)

(* Once the download is over or abandoned, the process ends: "the writer   *)
(* ... exits cleanly".  The code breaks this: the flag is set and notified *)
(* between the writer's test and its sleep, and nobody wakes it again.     *)
ShutdownCompletes ==
  pc["main"] \in {"finish", "unwind"} ~> ProcessEnded

(* Whatever happens the destructors run to their end.  The code breaks     *)
(* this: after a failed write ~DiskWriter takes the writer's exitCondition *)
(* for a call of finish() and leaves the thread unjoined.                  *)
CleanExit == pc["main"] # "terminated"
=============================================================================
