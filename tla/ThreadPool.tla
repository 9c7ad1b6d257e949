----------------------------- MODULE ThreadPool -----------------------------
(***************************************************************************)
(* The thread pool misc/threadPool.hpp (class async::ThreadPool), used by  *)
(* the HTTP server, the download proxy, csvsplit and the backtester: one   *)
(* owner thread enqueues tasks, may wait for their completion, and         *)
(* destroys the pool; the workers take tasks from a queue.                 *)
(*                                                                         *)
(* What a thread does while it holds taskMutex is one step, except where   *)
(* the code can be interrupted by an access without the mutex: a worker    *)
(* tests exitCondition and goes to sleep in two steps, and the owner sets  *)
(* it and notifies in two steps.                                           *)
(***************************************************************************)
EXTENDS Integers, Sequences, FiniteSets

CONSTANTS Workers,  \* the threads of the pool
          Tasks,    \* the tasks its owner may enqueue
          epolicy   \* the ExitPolicy of the pool

ASSUME WorkersFinite == IsFiniteSet(Workers)
ASSUME PolicyType == epolicy \in {"ALL_TASKS_COMPLETE", "CURRENT_TASK_COMPLETE"}

VARIABLES
  tasks,          \* the queue
  exitCondition,  \* atomic flag
  activeTasks,    \* tasks taken and not yet accounted for
  mutex,          \* the worker that holds taskMutex about to sleep, or "free"
  idle,           \* the workers asleep on tasksCV
  ownerAsleep,    \* the owner is asleep on completedCV
  pc,             \* where each worker is
  owner,          \* where the owner is
  inHand,         \* the tasks a worker is running
  enqueued,       \* every task that was ever enqueued
  runs            \* how often each task has been run to its end

vars == <<tasks, exitCondition, activeTasks, mutex, idle, ownerAsleep, pc, owner,
          inHand, enqueued, runs>>

Goto(w, l) == pc' = [pc EXCEPT ![w] = l]

(* A thread that holds the mutex for the whole of a step.                  *)
Exclusive == mutex = "free" /\ UNCHANGED mutex

(* Mutant: the new task is not announced.                                  *)
NotifyNoWorker == UNCHANGED idle

NotifyOne == IF idle = {} THEN UNCHANGED idle ELSE \E w \in idle : idle' = idle \ {w}

-----------------------------------------------------------------------------
(* A worker.                                                               *)

(* The wait predicate does not hold.                                       *)
WorkerMustWait(w) ==
  /\ pc[w] = "lock"
  /\ mutex = "free"
  /\ ~exitCondition
  /\ tasks = <<>>
  /\ mutex' = w
  /\ Goto(w, "sleep")
  /\ UNCHANGED <<tasks, exitCondition, activeTasks, idle, ownerAsleep, owner, inHand, enqueued, runs>>

WorkerSleep(w) ==
  /\ pc[w] = "sleep"
  /\ mutex' = "free"
  /\ idle' = idle \cup {w}
  /\ Goto(w, "asleep")
  /\ UNCHANGED <<tasks, exitCondition, activeTasks, ownerAsleep, owner, inHand, enqueued, runs>>

(* Notified, or woken for no reason.                                       *)
WorkerWake(w) ==
  /\ pc[w] = "asleep"
  /\ idle' = idle \ {w}
  /\ Goto(w, "lock")
  /\ UNCHANGED <<tasks, exitCondition, activeTasks, mutex, ownerAsleep, owner, inHand, enqueued, runs>>

MayReturn ==
  /\ exitCondition
  /\ \/ epolicy = "CURRENT_TASK_COMPLETE"
     \/ epolicy = "ALL_TASKS_COMPLETE" /\ tasks = <<>>

WorkerReturn(w) ==
  /\ pc[w] = "lock"
  /\ Exclusive
  /\ MayReturn
  /\ Goto(w, "ended")
  /\ UNCHANGED <<tasks, exitCondition, activeTasks, idle, ownerAsleep, owner, inHand, enqueued, runs>>

(* The exit condition is set but tasks are left: the worker neither        *)
(* returns nor takes one, and goes round its loop.                         *)
WorkerSpin(w) ==
  /\ pc[w] = "lock"
  /\ Exclusive
  /\ exitCondition
  /\ ~MayReturn
  /\ UNCHANGED <<tasks, exitCondition, activeTasks, idle, ownerAsleep, pc, owner, inHand, enqueued, runs>>

(* Mutants: the task stays in the queue; it is not counted as active.      *)
TakeAndLeave(w) ==
  /\ inHand' = [inHand EXCEPT ![w] = {Head(tasks)}]
  /\ activeTasks' = activeTasks + 1
  /\ UNCHANGED tasks

TakeUncounted(w) ==
  /\ inHand' = [inHand EXCEPT ![w] = {Head(tasks)}]
  /\ tasks' = Tail(tasks)
  /\ UNCHANGED activeTasks

Take(w) ==
  /\ inHand' = [inHand EXCEPT ![w] = {Head(tasks)}]
  /\ tasks' = Tail(tasks)
  /\ activeTasks' = activeTasks + 1

WorkerTake(w) ==
  /\ pc[w] = "lock"
  /\ Exclusive
  /\ ~exitCondition
  /\ tasks # <<>>
  /\ Take(w)
  /\ Goto(w, "run")
  /\ UNCHANGED <<exitCondition, idle, ownerAsleep, owner, enqueued, runs>>

(* The task runs, without the mutex; an exception goes into its future.    *)
WorkerRun(w) ==
  /\ pc[w] = "run"
  /\ runs' = [t \in Tasks |-> IF t \in inHand[w] THEN runs[t] + 1 ELSE runs[t]]
  /\ inHand' = [inHand EXCEPT ![w] = {}]
  /\ Goto(w, "account")
  /\ UNCHANGED <<tasks, exitCondition, activeTasks, mutex, idle, ownerAsleep, owner, enqueued>>

WorkerAccount(w) ==
  /\ pc[w] = "account"
  /\ Exclusive
  /\ activeTasks' = activeTasks - 1
  /\ Goto(w, "notify")
  /\ UNCHANGED <<tasks, exitCondition, idle, ownerAsleep, owner, inHand, enqueued, runs>>

(* Mutant: nobody is told that a task has finished.                        *)
NotifyNobody == UNCHANGED ownerAsleep

NotifyCompleted == ownerAsleep' = FALSE

WorkerNotify(w) ==
  /\ pc[w] = "notify"
  /\ NotifyCompleted
  /\ Goto(w, "lock")
  /\ UNCHANGED <<tasks, exitCondition, activeTasks, mutex, idle, owner, inHand, enqueued, runs>>

Worker(w) == \/ WorkerMustWait(w) \/ WorkerSleep(w) \/ WorkerReturn(w) \/ WorkerSpin(w)
             \/ WorkerTake(w) \/ WorkerRun(w) \/ WorkerAccount(w) \/ WorkerNotify(w)

-----------------------------------------------------------------------------
(* The owner.                                                              *)

enqueue(t) ==
  /\ owner = "running"
  /\ Exclusive
  /\ t \notin enqueued
  /\ tasks' = Append(tasks, t)
  /\ enqueued' = enqueued \cup {t}
  /\ NotifyOne
  /\ UNCHANGED <<exitCondition, activeTasks, ownerAsleep, pc, owner, inHand, runs>>

wait ==
  /\ owner = "running"
  /\ owner' = "waiting"
  /\ UNCHANGED <<tasks, exitCondition, activeTasks, mutex, idle, ownerAsleep, pc, inHand, enqueued, runs>>

(* Mutant: running tasks are forgotten.                                    *)
NothingQueued == tasks = <<>>

AllCompleted == tasks = <<>> /\ activeTasks = 0

(* The predicate only changes under the mutex, so that testing it and      *)
(* going to sleep is one step.                                             *)
WaitSleep ==
  /\ owner = "waiting"
  /\ ~ownerAsleep
  /\ Exclusive
  /\ ~AllCompleted
  /\ ownerAsleep' = TRUE
  /\ UNCHANGED <<tasks, exitCondition, activeTasks, idle, pc, owner, inHand, enqueued, runs>>

WaitSpurious ==
  /\ ownerAsleep
  /\ ownerAsleep' = FALSE
  /\ UNCHANGED <<tasks, exitCondition, activeTasks, mutex, idle, pc, owner, inHand, enqueued, runs>>

WaitReturn ==
  /\ owner = "waiting"
  /\ ~ownerAsleep
  /\ Exclusive
  /\ AllCompleted
  /\ owner' = "returned"
  /\ UNCHANGED <<tasks, exitCondition, activeTasks, idle, ownerAsleep, pc, inHand, enqueued, runs>>

(* The caller goes on after wait().                                        *)
Resume ==
  /\ owner = "returned"
  /\ owner' = "running"
  /\ UNCHANGED <<tasks, exitCondition, activeTasks, mutex, idle, ownerAsleep, pc, inHand, enqueued, runs>>

(* The destructor.                                                         *)
DestroyFlag ==
  /\ owner = "running"
  /\ exitCondition' = TRUE
  /\ owner' = "destroyNotify"
  /\ UNCHANGED <<tasks, activeTasks, mutex, idle, ownerAsleep, pc, inHand, enqueued, runs>>

DestroyNotify ==
  /\ owner = "destroyNotify"
  /\ idle' = {}
  /\ owner' = "join"
  /\ UNCHANGED <<tasks, exitCondition, activeTasks, mutex, ownerAsleep, pc, inHand, enqueued, runs>>

(* Mutant: the workers are not joined.                                     *)
JoinNobody == TRUE

Joined == \A w \in Workers : pc[w] = "ended"

DestroyJoin ==
  /\ owner = "join"
  /\ Joined
  /\ owner' = "ended"
  /\ UNCHANGED <<tasks, exitCondition, activeTasks, mutex, idle, ownerAsleep, pc, inHand, enqueued, runs>>

Destroyed == owner = "ended" /\ UNCHANGED vars

-----------------------------------------------------------------------------
Init ==
  /\ tasks = <<>>
  /\ exitCondition = FALSE
  /\ activeTasks = 0
  /\ mutex = "free"
  /\ idle = {}
  /\ ownerAsleep = FALSE
  /\ pc = [w \in Workers |-> "lock"]
  /\ owner = "running"
  /\ inHand = [w \in Workers |-> {}]
  /\ enqueued = {}
  /\ runs = [t \in Tasks |-> 0]

OwnerGoesOn == WaitSleep \/ WaitReturn \/ Resume \/ DestroyNotify \/ DestroyJoin

Next == \/ \E w \in Workers : Worker(w) \/ WorkerWake(w)
        \/ \E t \in Tasks : enqueue(t)
        \/ wait \/ WaitSpurious \/ DestroyFlag \/ OwnerGoesOn \/ Destroyed

Spec == Init /\ [][Next]_vars

(***************************************************************************)
(* Every thread goes on while it can, a notified sleeper wakes, and a      *)
(* mutex that is free again and again is at last obtained.  Nothing forces *)
(* a spurious wakeup, a new task, a wait or the destruction of the pool.   *)
(***************************************************************************)
FairSpec ==
  /\ Spec
  /\ \A w \in Workers : /\ WF_vars(WorkerSleep(w) \/ WorkerRun(w) \/ WorkerNotify(w))
                        /\ WF_vars(w \notin idle /\ WorkerWake(w))
                        /\ SF_vars(WorkerMustWait(w) \/ WorkerReturn(w) \/ WorkerTake(w)
                                     \/ WorkerAccount(w))
  /\ WF_vars(Resume \/ DestroyNotify \/ DestroyJoin)
  /\ SF_vars(WaitSleep \/ WaitReturn)

-----------------------------------------------------------------------------
WorkerPC == {"lock", "sleep", "asleep", "run", "account", "notify", "ended"}
OwnerPC == {"running", "waiting", "returned", "destroyNotify", "join", "ended"}

TypeOK ==
  /\ tasks \in Seq(Tasks)
  /\ exitCondition \in BOOLEAN /\ ownerAsleep \in BOOLEAN
  /\ activeTasks \in 0 .. Cardinality(Workers)
  /\ mutex \in Workers \cup {"free"}
  /\ idle \in SUBSET Workers
  /\ pc \in [Workers -> WorkerPC]
  /\ owner \in OwnerPC
  /\ inHand \in [Workers -> SUBSET Tasks]
  /\ enqueued \in SUBSET Tasks
  /\ runs \in [Tasks -> Nat]

Queued == {tasks[i] : i \in 1 .. Len(tasks)}
Running == UNION {inHand[w] : w \in Workers}
Finished == {t \in Tasks : runs[t] # 0}

(* A task is run at most once, by one worker, and none is lost: every      *)
(* enqueued task is queued, running or has been run, and only one of them. *)
RunOnce ==
  /\ \A t \in Tasks : runs[t] <= 1
  /\ enqueued = Queued \cup Running \cup Finished
  /\ Queued \cap Running = {} /\ Queued \cap Finished = {} /\ Running \cap Finished = {}
  /\ \A v, w \in Workers : v # w => inHand[v] \cap inHand[w] = {}
  /\ \A i, j \in 1 .. Len(tasks) : tasks[i] = tasks[j] => i = j

(* wait() returns only when every task enqueued before it has been run to  *)
(* its end, although workers decrement the counter some time after the     *)
(* task and notify some time after that.                                   *)
WaitMeansDone == owner = "returned" => enqueued = Finished

(* The destructor returns only when no worker can touch the pool any more, *)
(* and leaves no task half done.                                           *)
NobodyLeft == owner = "ended" => Running = {} /\ activeTasks = 0 /\ idle = {}

(* A caller of wait() is not left asleep once the tasks are done.          *)
WaitReturns == owner = "waiting" ~> owner = "returned"

(* While the pool exists, every task that was enqueued is run.             *)
TasksRun == \A t \in Tasks : t \in enqueued ~> (t \in Finished \/ exitCondition)

(* The destructor comes to an end.  The code breaks this: exitCondition is *)
(* set and notified between a worker's test and its sleep, and nothing     *)
(* wakes that worker again.                                                *)
DestructorReturns == exitCondition ~> owner = "ended"

(* "ALL_TASKS_COMPLETE": a pool with this policy runs all the tasks of its *)
(* queue before it ends.  The code breaks this: once exitCondition is set  *)
(* no worker takes a task, and all of them loop for ever.                  *)
AllTasksComplete ==
  epolicy = "ALL_TASKS_COMPLETE" => \A t \in Tasks : t \in enqueued ~> t \in Finished
=============================================================================
