--------------------------- MODULE ThreadsProofs ---------------------------
(***************************************************************************)
(* What threads share.  For any number of workers and any set of tasks of  *)
(* the pool: no task is lost or run twice, wait() returns only when all    *)
(* tasks have been run, and the destructor leaves nobody behind.  For any  *)
(* threads, pointers and objects of the smart pointers: counters are       *)
(* exact, and an object goes with its last pointer, once.                  *)
(*                                                                         *)
(* The counter activeTasks is what wait() goes by.  The pool's invariant   *)
(* says what it counts: the workers between taking a task and accounting   *)
(* for it, which include all those that have a task in hand.  That of the  *)
(* pointers says who answers for an object that nobody holds: the one      *)
(* thread whose decrement was the last, or the caller of release().        *)
(***************************************************************************)
EXTENDS ThreadPool, SmartPtr, FiniteSetTheorems, WellFoundedInduction, TLAPS


Active == {w \in Workers : pc[w] \in {"run", "account"}}

ActiveExact == activeTasks = Cardinality(Active)

(* Only a running worker has a task in hand, only a sleeping one is idle.  *)
PlacesExact == \A w \in Workers : /\ inHand[w] # {} => pc[w] = "run"
                                  /\ w \in idle => pc[w] = "asleep"

(* Where the owner has come to.                                            *)
OwnerExact ==
  /\ owner = "returned" => tasks = <<>> /\ activeTasks = 0
  /\ owner = "ended" => \A w \in Workers : pc[w] = "ended"

IInv == TypeOK /\ RunOnce /\ ActiveExact /\ PlacesExact /\ OwnerExact

-----------------------------------------------------------------------------
(* Queues.                                                                 *)

Elems(s) == {s[i] : i \in 1 .. Len(s)}

Distinct(s) == \A i, j \in 1 .. Len(s) : s[i] = s[j] => i = j

(* The queue with one task more.                                           *)
LEMMA AppendElems ==
  ASSUME NEW S, NEW s \in Seq(S), NEW e \in S, Distinct(s), e \notin Elems(s)
  PROVE  /\ Append(s, e) \in Seq(S)
         /\ Elems(Append(s, e)) = Elems(s) \cup {e}
         /\ Distinct(Append(s, e))
<1> DEFINE a == Append(s, e)
<1>1. /\ a \in Seq(S) /\ Len(a) = Len(s) + 1 /\ Len(s) \in Nat
      /\ \A i \in 1 .. Len(s) : a[i] = s[i]
      /\ a[Len(s) + 1] = e
  OBVIOUS
<1> HIDE DEF a
<1>2. Elems(a) = Elems(s) \cup {e}
  BY <1>1 DEF Elems
<1>3. Distinct(a)
  BY <1>1 DEF Elems, Distinct
<1>4. QED
  BY <1>1, <1>2, <1>3 DEF a

(* The queue without its first task.                                       *)
LEMMA TailElems ==
  ASSUME NEW S, NEW s \in Seq(S), s # <<>>, Distinct(s)
  PROVE  /\ Tail(s) \in Seq(S) /\ Head(s) \in S
         /\ Head(s) \in Elems(s)
         /\ Elems(Tail(s)) = Elems(s) \ {Head(s)}
         /\ Distinct(Tail(s))
<1> DEFINE t == Tail(s)
<1>1. /\ t \in Seq(S) /\ Head(s) \in S /\ Len(s) \in Nat \ {0}
      /\ Len(t) = Len(s) - 1 /\ Head(s) = s[1]
      /\ \A i \in 1 .. Len(t) : t[i] = s[i + 1]
  OBVIOUS
<1> HIDE DEF t
<1>2. Elems(t) = Elems(s) \ {Head(s)}
  <2>1. ASSUME NEW x \in Elems(t) PROVE x \in Elems(s) \ {Head(s)}
    <3>1. PICK i \in 1 .. Len(t) : x = t[i]
      BY <2>1 DEF Elems
    <3>2. x = s[i + 1] /\ i + 1 \in 1 .. Len(s) /\ 1 \in 1 .. Len(s) /\ i + 1 # 1
      BY <1>1, <3>1
    <3>3. QED
      BY <1>1, <3>2 DEF Elems, Distinct
  <2>2. ASSUME NEW x \in Elems(s), x # Head(s) PROVE x \in Elems(t)
    <3>1. PICK i \in 1 .. Len(s) : x = s[i]
      BY <2>2 DEF Elems
    <3>2. i - 1 \in 1 .. Len(t) /\ t[i - 1] = x
      BY <1>1, <2>2, <3>1
    <3>3. QED
      BY <3>2 DEF Elems
  <2>3. QED
    BY <2>1, <2>2
<1>3. Distinct(t)
  <2>1. ASSUME NEW i \in 1 .. Len(t), NEW j \in 1 .. Len(t), t[i] = t[j] PROVE i = j
    <3>1. s[i + 1] = s[j + 1] /\ i + 1 \in 1 .. Len(s) /\ j + 1 \in 1 .. Len(s)
      BY <1>1, <2>1
    <3>2. QED
      BY <3>1 DEF Distinct
  <2>2. QED
    BY <2>1 DEF Distinct
<1>4. Head(s) \in Elems(s)
  BY <1>1 DEF Elems
<1>5. QED
  BY <1>1, <1>2, <1>3, <1>4 DEF t

(* The counter changes with the set it counts.                             *)
LEMMA Counted ==
  ASSUME NEW A \in SUBSET Workers, NEW w \in Workers
  PROVE  /\ Cardinality(A) \in 0 .. Cardinality(Workers)
         /\ w \notin A => /\ Cardinality(A \cup {w}) = Cardinality(A) + 1
                          /\ Cardinality(A \cup {w}) \in 0 .. Cardinality(Workers)
         /\ w \in A => /\ Cardinality(A \ {w}) = Cardinality(A) - 1
                       /\ Cardinality(A \ {w}) \in 0 .. Cardinality(Workers)
<1>1. IsFiniteSet(Workers) /\ IsFiniteSet(A)
  BY WorkersFinite, FS_Subset
<1>2. \A B \in SUBSET Workers : Cardinality(B) \in 0 .. Cardinality(Workers)
  BY <1>1, FS_Subset, FS_CardinalityType
<1>3. w \notin A => Cardinality(A \cup {w}) = Cardinality(A) + 1
  BY <1>1, FS_AddElement
<1>4. w \in A => Cardinality(A \ {w}) = Cardinality(A) - 1
  BY <1>1, FS_RemoveElement
<1>5. QED
  BY <1>2, <1>3, <1>4

(* If the counter is zero nobody is counted.                               *)
LEMMA NothingCounted ==
  ASSUME NEW A \in SUBSET Workers, Cardinality(A) = 0 PROVE A = {}
BY WorkersFinite, FS_Subset, FS_EmptySet

-----------------------------------------------------------------------------
(* The constructor establishes the invariant.                              *)
LEMMA InitIInv == Init => IInv
<1> SUFFICES ASSUME Init PROVE IInv
  OBVIOUS
<1>1. Active = {} /\ Cardinality({}) = 0
  BY FS_EmptySet DEF Init, Active
<1>2. TypeOK
  <2>1. 0 \in 0 .. Cardinality(Workers)
    BY WorkersFinite, FS_CardinalityType
  <2>2. <<>> \in Seq(Tasks)
    OBVIOUS
  <2>3. QED
    BY <2>1, <2>2 DEF Init, TypeOK, WorkerPC, OwnerPC
<1>3. RunOnce
  BY DEF Init, RunOnce, Queued, Running, Finished
<1>4. ActiveExact /\ PlacesExact /\ OwnerExact
  BY <1>1 DEF Init, ActiveExact, PlacesExact, OwnerExact
<1>5. QED
  BY <1>2, <1>3, <1>4 DEF IInv

(* The facts about a state that its tasks depend on.                       *)
taskState == <<tasks, inHand, enqueued, runs>>

(* A step that moves no task keeps RunOnce.                                *)
LEMMA SameTasks == RunOnce /\ UNCHANGED taskState => RunOnce'
<1> SUFFICES ASSUME RunOnce, UNCHANGED taskState PROVE RunOnce'
  OBVIOUS
<1>1. UNCHANGED <<tasks, inHand, enqueued, runs>>
  BY DEF taskState
<1>2. Queued' = Queued /\ Running' = Running /\ Finished' = Finished
  BY <1>1 DEF Queued, Running, Finished
<1>3. QED
  BY <1>1, <1>2 DEF RunOnce

(* A step by which worker w goes from one location to another, neither of  *)
(* them one where a task is being accounted for.                           *)
LEMMA SameActive ==
  ASSUME TypeOK, ActiveExact, NEW w \in Workers, NEW l \in WorkerPC \ {"run", "account"},
         pc[w] \notin {"run", "account"}, pc' = [pc EXCEPT ![w] = l],
         UNCHANGED activeTasks
  PROVE  ActiveExact'
<1>1. Active' = Active
  BY DEF TypeOK, Active
<1>2. QED
  BY <1>1 DEF ActiveExact

(* One step per action, and under it one per conjunct it can disturb.      *)
LEMMA NextIInv == IInv /\ [Next]_vars => IInv'
<1> SUFFICES ASSUME IInv, [Next]_vars PROVE IInv'
  OBVIOUS
<1>0. TypeOK /\ RunOnce /\ ActiveExact /\ PlacesExact /\ OwnerExact
  BY DEF IInv
<1>1. ASSUME NEW w \in Workers, WorkerMustWait(w) PROVE IInv'
  <2>1. TypeOK'
    BY <1>0, <1>1 DEF WorkerMustWait, Goto, TypeOK, WorkerPC
  <2>2. RunOnce'
    BY <1>0, <1>1, SameTasks DEF WorkerMustWait, taskState
  <2>3. ActiveExact'
    BY <1>0, <1>1, SameActive DEF WorkerMustWait, Goto, WorkerPC
  <2>4. PlacesExact' /\ OwnerExact'
    BY <1>0, <1>1 DEF WorkerMustWait, Goto, TypeOK, PlacesExact, OwnerExact
  <2>5. QED
    BY <2>1, <2>2, <2>3, <2>4 DEF IInv
<1>2. ASSUME NEW w \in Workers, WorkerSleep(w) PROVE IInv'
  <2>1. TypeOK'
    BY <1>0, <1>2 DEF WorkerSleep, Goto, TypeOK, WorkerPC
  <2>2. RunOnce'
    BY <1>0, <1>2, SameTasks DEF WorkerSleep, taskState
  <2>3. ActiveExact'
    BY <1>0, <1>2, SameActive DEF WorkerSleep, Goto, WorkerPC
  <2>4. PlacesExact' /\ OwnerExact'
    BY <1>0, <1>2 DEF WorkerSleep, Goto, TypeOK, PlacesExact, OwnerExact
  <2>5. QED
    BY <2>1, <2>2, <2>3, <2>4 DEF IInv
<1>3. ASSUME NEW w \in Workers, WorkerWake(w) PROVE IInv'
  <2>1. TypeOK'
    BY <1>0, <1>3 DEF WorkerWake, Goto, TypeOK, WorkerPC
  <2>2. RunOnce'
    BY <1>0, <1>3, SameTasks DEF WorkerWake, taskState
  <2>3. ActiveExact'
    BY <1>0, <1>3, SameActive DEF WorkerWake, Goto, WorkerPC
  <2>4. PlacesExact' /\ OwnerExact'
    BY <1>0, <1>3 DEF WorkerWake, Goto, TypeOK, PlacesExact, OwnerExact
  <2>5. QED
    BY <2>1, <2>2, <2>3, <2>4 DEF IInv
<1>4. ASSUME NEW w \in Workers, WorkerReturn(w) PROVE IInv'
  <2>1. TypeOK'
    BY <1>0, <1>4 DEF WorkerReturn, Exclusive, Goto, TypeOK, WorkerPC
  <2>2. RunOnce'
    BY <1>0, <1>4, SameTasks DEF WorkerReturn, taskState
  <2>3. ActiveExact'
    BY <1>0, <1>4, SameActive DEF WorkerReturn, Goto, WorkerPC
  <2>4. PlacesExact' /\ OwnerExact'
    BY <1>0, <1>4 DEF WorkerReturn, Goto, TypeOK, PlacesExact, OwnerExact
  <2>5. QED
    BY <2>1, <2>2, <2>3, <2>4 DEF IInv
(* The head of the queue goes into the hands of w, which becomes active.   *)
<1>5. ASSUME NEW w \in Workers, WorkerTake(w) PROVE IInv'
  <2> DEFINE h == Head(tasks)
  <2>1. /\ pc[w] = "lock" /\ tasks # <<>> /\ tasks' = Tail(tasks)
        /\ inHand' = [inHand EXCEPT ![w] = {h}]
        /\ activeTasks' = activeTasks + 1
        /\ pc' = [pc EXCEPT ![w] = "run"]
        /\ UNCHANGED <<exitCondition, mutex, idle, ownerAsleep, owner, enqueued, runs>>
    BY <1>5 DEF WorkerTake, Exclusive, Take, Goto
  <2>2. /\ tasks' \in Seq(Tasks) /\ h \in Tasks /\ h \in Queued
        /\ Queued' = Queued \ {h} /\ Distinct(tasks')
    <3>1. tasks \in Seq(Tasks) /\ Distinct(tasks)
      BY <1>0 DEF TypeOK, RunOnce, Distinct
    <3>2. Queued = Elems(tasks) /\ Queued' = Elems(tasks')
      BY DEF Queued, Elems
    <3>3. QED
      BY <2>1, <3>1, <3>2, TailElems
  <2>3. Active' = Active \cup {w} /\ w \notin Active /\ Active \in SUBSET Workers
    BY <1>0, <2>1 DEF TypeOK, Active
  <2>4. ActiveExact' /\ activeTasks' \in 0 .. Cardinality(Workers)
    BY <1>0, <2>1, <2>3, Counted DEF ActiveExact
  <2>5. TypeOK'
    BY <1>0, <2>1, <2>2, <2>4 DEF TypeOK, WorkerPC
  <2>6. inHand[w] = {} /\ Running' = Running \cup {h} /\ Finished' = Finished
    BY <1>0, <2>1 DEF TypeOK, PlacesExact, Running, Finished
  <2>7. RunOnce'
    <3>1. \A v, u \in Workers : v # u => inHand'[v] \cap inHand'[u] = {}
      BY <1>0, <2>1, <2>2 DEF TypeOK, RunOnce, Running
    <3>2. QED
      BY <1>0, <2>1, <2>2, <2>6, <3>1 DEF RunOnce, Distinct
  <2>8. PlacesExact' /\ OwnerExact'
    BY <1>0, <2>1 DEF TypeOK, PlacesExact, OwnerExact
  <2>9. QED
    BY <2>4, <2>5, <2>7, <2>8 DEF IInv
<1>6. ASSUME NEW w \in Workers, WorkerRun(w) PROVE IInv'
  <2>1. /\ pc[w] = "run" /\ pc' = [pc EXCEPT ![w] = "account"]
        /\ runs' = [t \in Tasks |-> IF t \in inHand[w] THEN runs[t] + 1 ELSE runs[t]]
        /\ inHand' = [inHand EXCEPT ![w] = {}]
        /\ UNCHANGED <<tasks, exitCondition, activeTasks, mutex, idle, ownerAsleep, owner, enqueued>>
    BY <1>6 DEF WorkerRun, Goto
  <2>2. TypeOK'
    BY <1>0, <2>1 DEF TypeOK, WorkerPC
  <2>3. Active' = Active
    BY <1>0, <2>1 DEF TypeOK, Active
  <2>4. Queued' = Queued /\ inHand[w] \subseteq Running /\ inHand[w] \cap Finished = {}
    BY <1>0, <2>1 DEF Queued, Running, RunOnce
  <2>5. Running' = Running \ inHand[w] /\ Finished' = Finished \cup inHand[w]
    <3>1. Finished' = Finished \cup inHand[w]
      BY <1>0, <2>1 DEF TypeOK, Finished
    <3>2. Running' = Running \ inHand[w]
      BY <1>0, <2>1 DEF TypeOK, RunOnce, Running
    <3>3. QED
      BY <3>1, <3>2
  <2>6. \A t \in Tasks : runs'[t] <= 1
    BY <1>0, <2>1, <2>4 DEF TypeOK, RunOnce, Finished
  <2>7. \A v, u \in Workers : v # u => inHand'[v] \cap inHand'[u] = {}
    BY <1>0, <2>1 DEF TypeOK, RunOnce
  <2>8. RunOnce'
    BY <1>0, <2>1, <2>4, <2>5, <2>6, <2>7 DEF RunOnce
  <2>9. ActiveExact' /\ PlacesExact' /\ OwnerExact'
    BY <1>0, <2>1, <2>3 DEF TypeOK, ActiveExact, PlacesExact, OwnerExact
  <2>10. QED
    BY <2>2, <2>8, <2>9 DEF IInv
<1>7. ASSUME NEW w \in Workers, WorkerAccount(w) PROVE IInv'
  <2>1. /\ pc[w] = "account" /\ pc' = [pc EXCEPT ![w] = "notify"]
        /\ activeTasks' = activeTasks - 1
        /\ UNCHANGED <<tasks, exitCondition, mutex, idle, ownerAsleep, owner, inHand, enqueued, runs>>
    BY <1>7 DEF WorkerAccount, Exclusive, Goto
  <2>2. Active' = Active \ {w} /\ w \in Active /\ Active \in SUBSET Workers
    BY <1>0, <2>1 DEF TypeOK, Active
  <2>3. ActiveExact' /\ activeTasks' \in 0 .. Cardinality(Workers) /\ activeTasks # 0
    BY <1>0, <2>1, <2>2, Counted DEF ActiveExact
  <2>4. TypeOK'
    BY <1>0, <2>1, <2>3 DEF TypeOK, WorkerPC
  <2>5. RunOnce'
    BY <1>0, <2>1, SameTasks DEF taskState
  <2>6. PlacesExact' /\ OwnerExact'
    BY <1>0, <2>1, <2>3 DEF TypeOK, PlacesExact, OwnerExact
  <2>7. QED
    BY <2>3, <2>4, <2>5, <2>6 DEF IInv
<1>8. ASSUME NEW w \in Workers, WorkerNotify(w) PROVE IInv'
  <2>1. TypeOK'
    BY <1>0, <1>8 DEF WorkerNotify, NotifyCompleted, Goto, TypeOK, WorkerPC
  <2>2. RunOnce'
    BY <1>0, <1>8, SameTasks DEF WorkerNotify, taskState
  <2>3. ActiveExact'
    BY <1>0, <1>8, SameActive DEF WorkerNotify, Goto, WorkerPC
  <2>4. PlacesExact' /\ OwnerExact'
    BY <1>0, <1>8 DEF WorkerNotify, Goto, TypeOK, PlacesExact, OwnerExact
  <2>5. QED
    BY <2>1, <2>2, <2>3, <2>4 DEF IInv
<1>9. ASSUME NEW t \in Tasks, enqueue(t) PROVE IInv'
  <2>1. /\ owner = "running" /\ t \notin enqueued
        /\ tasks' = Append(tasks, t) /\ enqueued' = enqueued \cup {t}
        /\ idle' \in SUBSET idle
        /\ UNCHANGED <<exitCondition, activeTasks, mutex, ownerAsleep, pc, owner, inHand, runs>>
    BY <1>9 DEF enqueue, Exclusive, NotifyOne
  <2>2. /\ tasks' \in Seq(Tasks) /\ Queued' = Queued \cup {t} /\ Distinct(tasks')
    BY <1>0, <2>1, AppendElems DEF TypeOK, RunOnce, Queued, Elems, Distinct
  <2>3. Running' = Running /\ Finished' = Finished
    BY <2>1 DEF Running, Finished
  <2>4. TypeOK'
    BY <1>0, <2>1, <2>2 DEF TypeOK
  <2>5. RunOnce'
    BY <1>0, <2>1, <2>2, <2>3 DEF RunOnce, Distinct
  <2>6. ActiveExact' /\ PlacesExact' /\ OwnerExact'
    BY <1>0, <2>1 DEF ActiveExact, Active, PlacesExact, OwnerExact
  <2>7. QED
    BY <2>4, <2>5, <2>6 DEF IInv
(* The other steps of the owner move only it, the flag and the sleepers.   *)
<1>10. ASSUME UNCHANGED <<tasks, activeTasks, mutex, pc, inHand, enqueued, runs>>,
              exitCondition' \in BOOLEAN, ownerAsleep' \in BOOLEAN,
              owner' \in OwnerPC, idle' \in SUBSET idle,
              owner' = "returned" => owner = "returned" \/ AllCompleted,
              owner' = "ended" => owner = "ended" \/ Joined
       PROVE  IInv'
  <2>1. TypeOK'
    BY <1>0, <1>10 DEF TypeOK
  <2>2. RunOnce'
    BY <1>0, <1>10, SameTasks DEF taskState
  <2>3. ActiveExact' /\ PlacesExact'
    BY <1>0, <1>10 DEF ActiveExact, Active, PlacesExact
  <2>4. OwnerExact'
    BY <1>0, <1>10 DEF OwnerExact, AllCompleted, Joined
  <2>5. QED
    BY <2>1, <2>2, <2>3, <2>4 DEF IInv
<1>11. CASE wait \/ WaitSpurious \/ DestroyFlag \/ OwnerGoesOn \/ Destroyed
  BY <1>0, <1>10, <1>11
  DEF wait, WaitSpurious, DestroyFlag, OwnerGoesOn, WaitSleep, WaitReturn, Resume,
      DestroyNotify, DestroyJoin, Destroyed, Exclusive, TypeOK, OwnerPC, vars
<1>12. ASSUME NEW w \in Workers, WorkerSpin(w) PROVE IInv'
  BY <1>0, <1>10, <1>12 DEF WorkerSpin, Exclusive, TypeOK
<1>13. CASE UNCHANGED vars
  BY <1>0, <1>10, <1>13 DEF vars, TypeOK
<1>14. QED
  BY <1>1, <1>2, <1>3, <1>4, <1>5, <1>6, <1>7, <1>8, <1>9, <1>11, <1>12, <1>13
  DEF Next, Worker

(* The invariant implies the two properties.                               *)
LEMMA IInvImplies == IInv => WaitMeansDone /\ NobodyLeft
<1> SUFFICES ASSUME IInv PROVE WaitMeansDone /\ NobodyLeft
  OBVIOUS
<1>1. ASSUME activeTasks = 0 PROVE Running = {}
  <2>1. Active = {}
    BY <1>1, NothingCounted DEF IInv, ActiveExact, Active
  <2>2. QED
    BY <2>1 DEF IInv, PlacesExact, Active, Running
<1>2. WaitMeansDone
  BY <1>1 DEF IInv, OwnerExact, RunOnce, WaitMeansDone, Queued
<1>3. ASSUME owner = "ended" PROVE Running = {} /\ activeTasks = 0 /\ idle = {}
  <2>1. \A w \in Workers : pc[w] = "ended"
    BY <1>3 DEF IInv, OwnerExact
  <2>2. Active = {}
    BY <2>1 DEF Active
  <2>3. activeTasks = 0
    BY <2>2, FS_EmptySet DEF IInv, ActiveExact
  <2>4. idle = {}
    BY <2>1 DEF IInv, PlacesExact, TypeOK
  <2>5. QED
    BY <1>1, <2>3, <2>4
<1>4. QED
  BY <1>2, <1>3 DEF NobodyLeft

-----------------------------------------------------------------------------
(* The invariant that everything below rests on: the counter of active     *)
(* tasks counts the workers that have taken a task and not accounted for   *)
(* it, in every reachable state of the pool.                               *)
THEOREM PoolInvariant == Spec => []IInv
<1>1. QED
  BY InitIInv, NextIInv, PTL DEF Spec

(* The worker loop neither loses a task nor runs one twice, whatever the   *)
(* number of workers and the order in which they are woken.                *)
THEOREM TasksRunOnce == Spec => [](TypeOK /\ RunOnce)
<1>1. IInv => TypeOK /\ RunOnce
  BY DEF IInv
<1>2. QED
  BY <1>1, PoolInvariant, PTL

(* wait() returns only when every task enqueued before it has been run.    *)
THEOREM WaitIsSound == Spec => []WaitMeansDone
<1>1. QED
  BY IInvImplies, PoolInvariant, PTL

(* When the destructor has returned no worker can touch the pool.          *)
THEOREM DestructorIsSound == Spec => []NobodyLeft
<1>1. QED
  BY IInvImplies, PoolInvariant, PTL

-----------------------------------------------------------------------------
(* The smart pointers: how many hold an object.                            *)

Count(f, o) == Cardinality(Places(f, o))

Pointers == [PtrThreads -> [Slots -> 0 .. MaxObjects]]

States == {"none", "live", "marked", "deleted"}

PtrTypes ==
  /\ ptrKind \in {"shared", "unique", "counting"} /\ slot \in Pointers
  /\ cnt \in [Objects -> Int] /\ state \in [Objects -> States]
  /\ dying \in [PtrThreads -> 0 .. MaxObjects] /\ released \subseteq Objects /\ ptrOps \in Nat

CountsExact == \A o \in Objects : cnt[o] = Count(slot, o) /\ (ptrKind = "unique" => Count(slot, o) <= 1)

HeldLive == \A o \in Objects : Count(slot, o) > 0 => state[o] = "live"

(* What release() gave away is neither held nor deleted.                   *)
ReleasedLive == \A o \in released : Count(slot, o) = 0 /\ state[o] = "live"

(* A thread that has let an object go for the last time is the only one.   *)
DyingLast ==
  \A t \in PtrThreads : dying[t] # Null =>
    /\ Count(slot, dying[t]) = 0 /\ state[dying[t]] = "live" /\ dying[t] \notin released
    /\ \A u \in PtrThreads : dying[u] = dying[t] => u = t

(* An object that nobody holds is on its way out.                          *)
NoneLost ==
  \A o \in Objects :
    state[o] = "live" /\ Count(slot, o) = 0 /\ o \notin released => \E t \in PtrThreads : dying[t] = o

PtrInv == PtrTypes /\ CountsExact /\ HeldLive /\ ReleasedLive /\ DyingLast /\ NoneLost

(* An assignment to a pointer adds the place to the new object's and takes *)
(* it from the old one's.                                                  *)
LEMMA CountsMove ==
  ASSUME NEW f \in Pointers, NEW t \in PtrThreads, NEW s \in Slots, NEW n \in 0 .. MaxObjects, NEW o \in 0 .. MaxObjects
  PROVE  /\ With(f, t, s, n) \in Pointers
         /\ \A u \in PtrThreads, r \in Slots : With(f, t, s, n)[u][r] = IF u = t /\ r = s THEN n ELSE f[u][r]
         /\ Count(f, o) \in Nat
         /\ f[t][s] = o => Count(f, o) > 0
         /\ Count(With(f, t, s, n), o) =
              Count(f, o) + (IF n = o THEN 1 ELSE 0) - (IF f[t][s] = o THEN 1 ELSE 0)
<1> DEFINE g == With(f, t, s, n)
<1>1. g \in Pointers /\ \A u \in PtrThreads, r \in Slots : g[u][r] = IF u = t /\ r = s THEN n ELSE f[u][r]
  BY DEF With, Pointers
<1>2. IsFiniteSet(Places(f, o)) /\ IsFiniteSet(Places(g, o))
  <2>1. IsFiniteSet(PtrThreads \X Slots)
    BY PtrConstants, FS_Product
  <2>2. QED
    BY <2>1, FS_Subset DEF Places
<1>3. <<t, s>> \in Places(f, o) <=> f[t][s] = o
  BY DEF Places
<1>4. <<t, s>> \in Places(g, o) <=> n = o
  BY <1>1 DEF Places
<1>5. Places(f, o) \ {<<t, s>>} = Places(g, o) \ {<<t, s>>}
  BY <1>1 DEF Places
<1> DEFINE rest == Cardinality(Places(f, o) \ {<<t, s>>})
<1>6. Count(f, o) \in Nat /\ Count(g, o) \in Nat /\ rest \in Nat
  BY <1>2, FS_RemoveElement, FS_CardinalityType DEF Count
<1>7. rest = IF f[t][s] = o THEN Count(f, o) - 1 ELSE Count(f, o)
  BY <1>2, <1>3, FS_RemoveElement DEF Count
<1>8. rest = IF n = o THEN Count(g, o) - 1 ELSE Count(g, o)
  <2>1. rest = Cardinality(Places(g, o) \ {<<t, s>>})
    BY <1>5
  <2>2. QED
    BY <2>1, <1>2, <1>4, FS_RemoveElement DEF Count
<1> HIDE DEF g, rest
<1>10. /\ f[t][s] = o => Count(f, o) > 0
       /\ Count(g, o) = Count(f, o) + (IF n = o THEN 1 ELSE 0) - (IF f[t][s] = o THEN 1 ELSE 0)
  BY <1>6, <1>7, <1>8
<1>9. QED
  BY <1>1, <1>6, <1>10 DEF g
(* What nobody holds has no places.                                        *)
LEMMA HeldSomewhere ==
  ASSUME NEW f \in Pointers, NEW o \in 0 .. MaxObjects, \A t \in PtrThreads, s \in Slots : f[t][s] # o
  PROVE  Count(f, o) = 0
<1>1. Places(f, o) = {}
  BY DEF Places
<1>2. QED
  BY <1>1, FS_EmptySet DEF Count

(* What a step that lets go of an object does: old is the object, made one *)
(* that is new, c what the counters are before the decrement.              *)
Handed(t, old, made, c) ==
  /\ dying[t] = Null /\ UNCHANGED <<ptrKind, released>> /\ ptrOps' \in Nat
  /\ old \in 0 .. MaxObjects /\ (old # Null => Count(slot, old) > 0)
  /\ made \in 0 .. MaxObjects /\ (made # Null => state[made] = "none")
  /\ c \in [Objects -> Int] /\ LetGo(t, old, c)
  /\ slot' \in Pointers
  /\ state' \in [Objects -> States] /\ \A o \in Objects : state'[o] = IF o = made THEN "live" ELSE state[o]
  /\ \A o \in Objects :
       /\ Count(slot, o) \in Nat /\ Count(slot', o) \in Nat
       /\ c[o] = Count(slot', o) + (IF o = old THEN 1 ELSE 0)
       /\ o # old => (Count(slot', o) > 0 <=> Count(slot, o) > 0 \/ o = made)
       /\ ptrKind = "unique" => Count(slot', o) <= 1

LEMMA Handover ==
  ASSUME PtrInv, NEW t \in PtrThreads, NEW old, NEW made, NEW c, Handed(t, old, made, c)
  PROVE  PtrInv'
<1>h. /\ dying[t] = Null /\ UNCHANGED <<ptrKind, released>> /\ ptrOps' \in Nat
      /\ old \in 0 .. MaxObjects /\ (old # Null => Count(slot, old) > 0)
      /\ made \in 0 .. MaxObjects /\ (made # Null => state[made] = "none")
  BY DEF Handed
<1>l. c \in [Objects -> Int] /\ LetGo(t, old, c) /\ slot' \in Pointers
  BY DEF Handed
<1>4. state' \in [Objects -> States] /\ \A o \in Objects : state'[o] = IF o = made THEN "live" ELSE state[o]
  BY DEF Handed
<1>c. \A o \in Objects :
        /\ Count(slot, o) \in Nat /\ Count(slot', o) \in Nat
        /\ c[o] = Count(slot', o) + (IF o = old THEN 1 ELSE 0)
        /\ o # old => (Count(slot', o) > 0 <=> Count(slot, o) > 0 \/ o = made)
        /\ ptrKind = "unique" => Count(slot', o) <= 1
  BY DEF Handed
<1> USE PtrConstants DEF Objects, Null
<1>t. PtrTypes
  BY DEF PtrInv
<1>1. old # Null => state[old] = "live" /\ old # made /\ old \notin released
  BY <1>h DEF PtrInv, HeldLive, ReleasedLive
<1>2. cnt' \in [Objects -> Int] /\ \A o \in Objects : cnt'[o] = Count(slot', o)
  <2>1. CASE old = Null
    BY <2>1, <1>c, <1>l DEF LetGo
  <2>2. CASE old # Null
    <3>1. cnt' = [c EXCEPT ![old] = c[old] - 1] /\ old \in Objects
      BY <2>2, <1>h, <1>l DEF LetGo
    <3>2. cnt' \in [Objects -> Int] /\ \A o \in Objects : cnt'[o] = IF o = old THEN c[o] - 1 ELSE c[o]
      BY <3>1, <1>l
    <3>3. ASSUME NEW o \in Objects PROVE cnt'[o] = Count(slot', o)
      <4>1. cnt'[o] = IF o = old THEN c[o] - 1 ELSE c[o]
        BY <3>2
      <4>2. Count(slot', o) \in Nat /\ c[o] = Count(slot', o) + (IF o = old THEN 1 ELSE 0)
        BY <1>c
      <4>3. QED
        BY <4>1, <4>2
    <3>4. QED
      BY <3>2, <3>3
  <2>3. QED
    BY <2>1, <2>2
<1>3. dying' = [dying EXCEPT ![t] = IF old # Null /\ Count(slot', old) = 0 THEN old ELSE Null]
  <2>1. CASE old = Null
    BY <2>1, <1>h, <1>l, <1>t DEF LetGo, PtrTypes
  <2>2. CASE old # Null
    BY <2>2, <1>h, <1>l, <1>c DEF LetGo, LastOne
  <2>3. QED
    BY <2>1, <2>2
<1>5. PtrTypes'
  BY <1>t, <1>2, <1>3, <1>4, <1>h, <1>l DEF PtrTypes
<1>6. CountsExact'
  BY <1>2, <1>c, <1>h DEF CountsExact
<1>7. HeldLive'
  <2> SUFFICES ASSUME NEW o \in Objects, Count(slot', o) > 0 PROVE state'[o] = "live"
    BY DEF HeldLive
  <2>1. QED
    BY <1>1, <1>4, <1>c, <1>h DEF PtrInv, HeldLive
<1>8. ReleasedLive'
  <2> SUFFICES ASSUME NEW o \in released PROVE Count(slot', o) = 0 /\ state'[o] = "live"
    BY <1>h DEF ReleasedLive
  <2>1. o \in Objects /\ Count(slot, o) = 0 /\ state[o] = "live"
    BY <1>t DEF PtrInv, ReleasedLive, PtrTypes
  <2>2. o # old /\ o # made
    BY <2>1, <1>1, <1>h
  <2>3. QED
    BY <2>1, <2>2, <1>4, <1>c
<1>d. \A u \in PtrThreads : dying'[u] = IF u = t THEN (IF old # Null /\ Count(slot', old) = 0 THEN old ELSE Null) ELSE dying[u]
  BY <1>3, <1>t DEF PtrTypes
<1>9. DyingLast'
  <2> SUFFICES ASSUME NEW u \in PtrThreads, dying'[u] # Null
               PROVE  /\ Count(slot', dying'[u]) = 0 /\ state'[dying'[u]] = "live" /\ dying'[u] \notin released
                      /\ \A w \in PtrThreads : dying'[w] = dying'[u] => w = u
    BY <1>h DEF DyingLast
  <2>1. \A w \in PtrThreads : dying[w] # Null =>
          dying[w] \in Objects /\ Count(slot, dying[w]) = 0 /\ state[dying[w]] = "live" /\ dying[w] \notin released
            /\ dying[w] # old /\ dying[w] # made
            /\ \A v \in PtrThreads : dying[v] = dying[w] => v = w
    BY <1>t, <1>h DEF PtrInv, DyingLast, PtrTypes
  <2>2. CASE u = t
    BY <2>2, <2>1, <1>1, <1>4, <1>d, <1>h
  <2>3. CASE u # t
    <3> DEFINE k == dying[u]
    <3>1. dying'[u] = k /\ k # Null
      BY <2>3, <1>d
    <3>2. k \in Objects /\ Count(slot, k) = 0 /\ k # old /\ k # made /\ state[k] = "live" /\ k \notin released
          /\ \A v \in PtrThreads : dying[v] = k => v = u
      BY <3>1, <2>1
    <3> HIDE DEF k
    <3>3. Count(slot', k) = 0 /\ state'[k] = "live"
      BY <3>2, <1>4, <1>c
    <3>4. ASSUME NEW w \in PtrThreads, dying'[w] = k PROVE w = u
      <4>1. CASE w = t
        BY <4>1, <3>4, <3>1, <3>2, <1>d
      <4>2. CASE w # t
        BY <4>2, <3>4, <3>2, <1>d
      <4>3. QED
        BY <4>1, <4>2
    <3>5. QED
      BY <3>1, <3>2, <3>3, <3>4
  <2>4. QED
    BY <2>2, <2>3
<1>10. NoneLost'
  <2> SUFFICES ASSUME NEW o \in Objects, state'[o] = "live", Count(slot', o) = 0, o \notin released
               PROVE  \E u \in PtrThreads : dying'[u] = o
    BY <1>h DEF NoneLost
  <2>1. CASE o = old
    <3>1. dying'[t] = o
      BY <2>1, <1>d
    <3>2. QED
      BY <3>1
  <2>2. CASE o # old /\ o # made
    <3>0. Count(slot, o) \in Nat /\ ~(Count(slot, o) > 0)
      BY <2>2, <1>c
    <3>1. state[o] = "live" /\ Count(slot, o) = 0
      BY <2>2, <3>0, <1>4
    <3>2. PICK u \in PtrThreads : dying[u] = o
      BY <3>1 DEF PtrInv, NoneLost
    <3>3. u # t
      BY <3>2, <1>h
    <3>4. dying'[u] = o
      BY <3>2, <3>3, <1>d
    <3>5. QED
      BY <3>4
  <2>3. CASE o # old /\ o = made
    BY <2>3, <1>c
  <2>4. QED
    BY <2>1, <2>2, <2>3
<1>11. QED
  BY <1>5, <1>6, <1>7, <1>8, <1>9, <1>10 DEF PtrInv

LEMMA PtrInitInv == PtrInit => PtrInv
<1> SUFFICES ASSUME PtrInit PROVE PtrInv
  OBVIOUS
<1> USE PtrConstants DEF Objects, Null
<1>1. slot \in Pointers /\ \A t \in PtrThreads, s \in Slots : slot[t][s] = Null
  BY DEF PtrInit, Fresh, NoPointers, Pointers
<1>2. \A o \in Objects : Count(slot, o) = 0
  BY <1>1, HeldSomewhere
<1>3. PtrTypes
  BY <1>1 DEF PtrInit, Fresh, PtrTypes, States
<1>4. CountsExact /\ HeldLive /\ ReleasedLive /\ DyingLast /\ NoneLost
  BY <1>2, <1>3 DEF PtrInit, Fresh, CountsExact, HeldLive, ReleasedLive, DyingLast, NoneLost
<1>5. QED
  BY <1>3, <1>4 DEF PtrInv

(* How a step's new pointers count.                                        *)
LEMMA SlotTypes ==
  ASSUME PtrInv
  PROVE  /\ slot \in Pointers
         /\ \A t \in PtrThreads, s \in Slots : slot[t][s] \in 0 .. MaxObjects
         /\ \A t \in PtrThreads, s \in Slots : slot[t][s] # Null => Count(slot, slot[t][s]) > 0
         /\ \A t \in PtrThreads, s \in Slots, o \in Objects : Count(slot, o) \in Nat
<1>1. slot \in Pointers /\ \A t \in PtrThreads, s \in Slots : slot[t][s] \in 0 .. MaxObjects
  BY DEF PtrInv, PtrTypes, Pointers
<1>2. \A t \in PtrThreads, s \in Slots : Count(slot, slot[t][s]) > 0
  BY <1>1, CountsMove
<1>3. \A t \in PtrThreads, s \in Slots, o \in Objects : Count(slot, o) \in Nat
  BY <1>1, CountsMove DEF Objects
<1>4. QED
  BY <1>1, <1>2, <1>3

(* One assignment.                                                         *)
LEMMA SetCounts ==
  ASSUME PtrInv, NEW t \in PtrThreads, NEW s \in Slots, NEW n \in 0 .. MaxObjects, Set(t, s, n)
  PROVE  /\ slot' \in Pointers
         /\ \A o \in Objects :
              /\ Count(slot, o) \in Nat /\ Count(slot', o) \in Nat
              /\ Count(slot', o) = Count(slot, o) + (IF n = o THEN 1 ELSE 0) - (IF slot[t][s] = o THEN 1 ELSE 0)
<1>1. slot \in Pointers /\ slot' = With(slot, t, s, n)
  BY DEF PtrInv, PtrTypes, Set
<1>2. slot' \in Pointers
  BY <1>1, CountsMove
<1>3. ASSUME NEW o \in Objects
      PROVE  /\ Count(slot, o) \in Nat /\ Count(slot', o) \in Nat
             /\ Count(slot', o) = Count(slot, o) + (IF n = o THEN 1 ELSE 0) - (IF slot[t][s] = o THEN 1 ELSE 0)
  <2>1. o \in 0 .. MaxObjects
    BY PtrConstants DEF Objects
  <2>2. QED
    BY <1>1, <1>2, <2>1, CountsMove
<1>4. QED
  BY <1>2, <1>3

(* Two, of which the first reads what the second overwrites.               *)
LEMMA ExchangeCounts ==
  ASSUME PtrInv, NEW t \in PtrThreads, NEW s \in Slots, NEW r \in Slots, NEW n \in 0 .. MaxObjects,
         s # r \/ n = slot[t][r],
         slot' = With(With(slot, t, s, slot[t][r]), t, r, n)
  PROVE  /\ slot' \in Pointers
         /\ \A o \in Objects :
              /\ Count(slot, o) \in Nat /\ Count(slot', o) \in Nat
              /\ Count(slot', o) = Count(slot, o) + (IF n = o THEN 1 ELSE 0) - (IF slot[t][s] = o THEN 1 ELSE 0)
<1> DEFINE f == With(slot, t, s, slot[t][r])
<1>1. slot \in Pointers /\ slot[t][r] \in 0 .. MaxObjects /\ slot[t][s] \in 0 .. MaxObjects
  BY SlotTypes
<1>2. f \in Pointers /\ f[t][r] = slot[t][r]
  BY <1>1, CountsMove
<1>f. ASSUME NEW o \in 0 .. MaxObjects
      PROVE  /\ Count(slot, o) \in Nat
             /\ Count(f, o) = Count(slot, o) + (IF slot[t][r] = o THEN 1 ELSE 0) - (IF slot[t][s] = o THEN 1 ELSE 0)
  <2>1. PICK m \in 0 .. MaxObjects : m = slot[t][r]
    BY <1>1
  <2>2. /\ Count(slot, o) \in Nat
        /\ Count(With(slot, t, s, m), o) = Count(slot, o) + (IF m = o THEN 1 ELSE 0) - (IF slot[t][s] = o THEN 1 ELSE 0)
    BY <1>1, CountsMove
  <2>3. QED
    BY <2>1, <2>2
<1> HIDE DEF f
<1>3. slot' = With(f, t, r, n)
  BY DEF f
<1>4. slot' \in Pointers
  BY <1>2, <1>3, CountsMove
<1>5. ASSUME NEW o \in Objects
      PROVE  /\ Count(slot, o) \in Nat /\ Count(slot', o) \in Nat
             /\ Count(slot', o) = Count(slot, o) + (IF n = o THEN 1 ELSE 0) - (IF slot[t][s] = o THEN 1 ELSE 0)
  <2>1. o \in 0 .. MaxObjects
    BY PtrConstants DEF Objects
  <2>2. /\ Count(slot, o) \in Nat
        /\ Count(f, o) = Count(slot, o) + (IF slot[t][r] = o THEN 1 ELSE 0) - (IF slot[t][s] = o THEN 1 ELSE 0)
    BY <2>1, <1>f
  <2>3. Count(slot', o) = Count(f, o) + (IF n = o THEN 1 ELSE 0) - (IF slot[t][r] = o THEN 1 ELSE 0)
    BY <1>2, <1>3, <2>1, CountsMove
  <2>4. Count(slot', o) \in Nat
    BY <1>4, <2>1, CountsMove
  <2>5. QED
    BY <2>2, <2>3, <2>4
<1>6. QED
  BY <1>4, <1>5

-----------------------------------------------------------------------------
(* The steps.                                                              *)

(* A set of naturals has a least element.                                  *)
LEMMA LeastNatural ==
  ASSUME NEW S, S \subseteq Nat, S # {}
  PROVE  \E n \in S : \A m \in S : n <= m
<1>1. PICK n \in S : \A m \in S : ~(<<m, n>> \in OpToRel(<, Nat))
  BY WFMin, NatLessThanWellFounded, Zenon
<1>2. \A m \in S : ~(m < n)
  BY <1>1 DEF OpToRel
<1> QED
  BY <1>2

LEMMA MakeInv ==
  ASSUME PtrInv, NEW t \in PtrThreads, NEW s \in Slots, Make(t, s)
  PROVE  PtrInv'
<1> USE PtrConstants DEF Objects, Null
<1> DEFINE none == {k \in Objects : state[k] = "none"}
           made == Min(none)
           old == slot[t][s]
           c == [cnt EXCEPT ![made] = 1]
<1>t. PtrTypes /\ CountsExact /\ HeldLive
  BY DEF PtrInv
<1>1. made \in none
  <2>1. none # {} /\ none \subseteq Nat
    BY DEF Make
  <2>2. PICK m \in none : \A k \in none : m <= k
    BY <2>1, LeastNatural
  <2>3. QED
    BY <2>1, <2>2 DEF Min
<1> HIDE DEF made
<1>2. made \in Objects /\ state[made] = "none" /\ made \in 0 .. MaxObjects
  BY <1>1
<1>3. Set(t, s, made) /\ state' = [state EXCEPT ![made] = "live"] /\ LetGo(t, old, c)
  BY DEF Make, made
<1>4. dying[t] = Null /\ UNCHANGED <<ptrKind, released>> /\ ptrOps' \in Nat
  BY <1>t DEF Make, PtrOp, PtrTypes
<1>5. old \in 0 .. MaxObjects /\ (old # Null => Count(slot, old) > 0)
  BY SlotTypes
<1>6. Count(slot, made) = 0
  BY <1>2, <1>t, SlotTypes DEF HeldLive
<1>7. c \in [Objects -> Int] /\ \A o \in Objects : c[o] = IF o = made THEN 1 ELSE Count(slot, o)
  BY <1>t, <1>2 DEF PtrTypes, CountsExact
<1>8. slot' \in Pointers
  BY <1>2, <1>3, SetCounts
<1>9. \A o \in Objects :
        /\ Count(slot, o) \in Nat /\ Count(slot', o) \in Nat
        /\ Count(slot', o) = Count(slot, o) + (IF made = o THEN 1 ELSE 0) - (IF old = o THEN 1 ELSE 0)
  BY <1>2, <1>3, SetCounts
<1> HIDE DEF c, old, none
<1>10. old # made
  BY <1>2, <1>5, <1>6
<1>11. ASSUME NEW o \in Objects
       PROVE  /\ Count(slot, o) \in Nat /\ Count(slot', o) \in Nat
              /\ c[o] = Count(slot', o) + (IF o = old THEN 1 ELSE 0)
              /\ o # old => (Count(slot', o) > 0 <=> Count(slot, o) > 0 \/ o = made)
              /\ ptrKind = "unique" => Count(slot', o) <= 1
  <2>1. /\ Count(slot, o) \in Nat /\ Count(slot', o) \in Nat
        /\ Count(slot', o) = Count(slot, o) + (IF made = o THEN 1 ELSE 0) - (IF old = o THEN 1 ELSE 0)
    BY <1>9
  <2>2. c[o] = IF o = made THEN 1 ELSE Count(slot, o)
    BY <1>7
  <2>3. ptrKind' = ptrKind /\ (ptrKind = "unique" => Count(slot, o) <= 1)
    BY <1>4, <1>t DEF CountsExact
  <2>4. QED
    BY <1>6, <1>10, <2>1, <2>2, <2>3
<1>12. made # Null /\ state' \in [Objects -> States] /\ \A o \in Objects : state'[o] = IF o = made THEN "live" ELSE state[o]
  BY <1>2, <1>3, <1>t DEF PtrTypes, States
<1>13. Handed(t, old, made, c)
  BY <1>2, <1>3, <1>4, <1>5, <1>7, <1>8, <1>11, <1>12 DEF Handed
<1>14. QED
  BY <1>13, Handover

LEMMA CopyAssignInv ==
  ASSUME PtrInv, NEW t \in PtrThreads, NEW s \in Slots, NEW u \in PtrThreads, NEW r \in Slots, CopyAssign(t, s, u, r)
  PROVE  PtrInv'
<1> USE PtrConstants DEF Objects, Null
<1> DEFINE n == slot[u][r]
           old == slot[t][s]
           c == IF n = Null THEN cnt ELSE [cnt EXCEPT ![n] = @ + 1]
<1>t. PtrTypes /\ CountsExact
  BY DEF PtrInv
<1>1. Set(t, s, n) /\ LetGo(t, old, c) /\ ptrKind # "unique" /\ state' = state
  BY DEF CopyAssign
<1>2. dying[t] = Null /\ UNCHANGED <<ptrKind, released>> /\ ptrOps' \in Nat
  BY <1>t DEF CopyAssign, PtrOp, PtrTypes
<1>3. /\ old \in 0 .. MaxObjects /\ (old # Null => Count(slot, old) > 0)
      /\ n \in 0 .. MaxObjects /\ (n # Null => Count(slot, n) > 0)
  BY SlotTypes
<1> HIDE DEF n, old
<1>4. c \in [Objects -> Int] /\ \A o \in Objects : c[o] = Count(slot, o) + (IF o = n THEN 1 ELSE 0)
  <2>1. CASE n = Null
    BY <2>1, <1>t, SlotTypes DEF PtrTypes, CountsExact
  <2>2. CASE n # Null
    <3>1. c = [cnt EXCEPT ![n] = cnt[n] + 1] /\ n \in Objects /\ cnt \in [Objects -> Int]
      BY <2>2, <1>3, <1>t DEF PtrTypes
    <3>2. c \in [Objects -> Int] /\ \A o \in Objects : c[o] = IF o = n THEN cnt[o] + 1 ELSE cnt[o]
      BY <3>1
    <3>3. \A o \in Objects : c[o] = Count(slot, o) + (IF o = n THEN 1 ELSE 0)
      BY <3>1, <3>2, <1>t DEF CountsExact
    <3>4. QED
      BY <3>2, <3>3
  <2>3. QED
    BY <2>1, <2>2
<1>5. slot' \in Pointers
  BY <1>1, <1>3, SetCounts
<1>6. \A o \in Objects :
        /\ Count(slot, o) \in Nat /\ Count(slot', o) \in Nat
        /\ Count(slot', o) = Count(slot, o) + (IF n = o THEN 1 ELSE 0) - (IF old = o THEN 1 ELSE 0)
  BY <1>1, <1>3, SetCounts DEF old
<1> HIDE DEF c
<1>7. ASSUME NEW o \in Objects
      PROVE  /\ Count(slot, o) \in Nat /\ Count(slot', o) \in Nat
             /\ c[o] = Count(slot', o) + (IF o = old THEN 1 ELSE 0)
             /\ o # old => (Count(slot', o) > 0 <=> Count(slot, o) > 0 \/ o = Null)
             /\ ptrKind = "unique" => Count(slot', o) <= 1
  <2>1. /\ Count(slot, o) \in Nat /\ Count(slot', o) \in Nat
        /\ Count(slot', o) = Count(slot, o) + (IF n = o THEN 1 ELSE 0) - (IF old = o THEN 1 ELSE 0)
    BY <1>6
  <2>2. c[o] = Count(slot, o) + (IF o = n THEN 1 ELSE 0)
    BY <1>4
  <2>3. ptrKind # "unique" /\ o # Null /\ (o = n => Count(slot, o) > 0)
    BY <1>1, <1>3
  <2>4. QED
    BY <2>1, <2>2, <2>3
<1>8. Null \in 0 .. MaxObjects
  OBVIOUS
<1>9. state' \in [Objects -> States] /\ \A o \in Objects : state'[o] = IF o = Null THEN "live" ELSE state[o]
  BY <1>1, <1>t DEF PtrTypes
<1>10. Handed(t, old, Null, c)
  BY <1>1, <1>2, <1>3, <1>4, <1>5, <1>7, <1>8, <1>9 DEF Handed
<1>11. QED
  BY <1>10, Handover

(* A pointer lets go of what it holds, and nobody takes it.                *)
LEMMA LeaveInv ==
  ASSUME PtrInv, NEW t \in PtrThreads, NEW s \in Slots, PtrOp(t), LetGo(t, slot[t][s], cnt), UNCHANGED <<state, released>>,
         slot' \in Pointers,
         \A o \in Objects : /\ Count(slot, o) \in Nat /\ Count(slot', o) \in Nat
                            /\ Count(slot', o) = Count(slot, o) - (IF slot[t][s] = o THEN 1 ELSE 0)
  PROVE  PtrInv'
<1> USE PtrConstants DEF Objects, Null
<1> DEFINE old == slot[t][s]
<1>t. PtrTypes /\ CountsExact
  BY DEF PtrInv
<1>1. dying[t] = Null /\ UNCHANGED <<ptrKind, released>> /\ ptrOps' \in Nat /\ cnt \in [Objects -> Int]
  BY <1>t DEF PtrOp, PtrTypes
<1>2. old \in 0 .. MaxObjects /\ (old # Null => Count(slot, old) > 0) /\ LetGo(t, old, cnt)
  BY SlotTypes
<1>3. ASSUME NEW o \in Objects
      PROVE  /\ Count(slot, o) \in Nat /\ Count(slot', o) \in Nat
             /\ cnt[o] = Count(slot', o) + (IF o = old THEN 1 ELSE 0)
             /\ o # old => (Count(slot', o) > 0 <=> Count(slot, o) > 0 \/ o = Null)
             /\ ptrKind = "unique" => Count(slot', o) <= 1
  BY <1>t DEF CountsExact
<1> HIDE DEF old
<1>4. Null \in 0 .. MaxObjects
  OBVIOUS
<1>5. state' \in [Objects -> States] /\ \A o \in Objects : state'[o] = IF o = Null THEN "live" ELSE state[o]
  BY <1>t DEF PtrTypes
<1>6. Handed(t, old, Null, cnt)
  BY <1>1, <1>2, <1>3, <1>4, <1>5 DEF Handed
<1>7. QED
  BY <1>6, Handover

(* The pointers move, and every object keeps the number of its own.        *)
LEMMA SameCountsInv ==
  ASSUME PtrInv, slot' \in Pointers, \A o \in Objects : Count(slot', o) = Count(slot, o),
         UNCHANGED <<ptrKind, cnt, state, dying, released>>, ptrOps' \in Nat
  PROVE  PtrInv'
<1> USE PtrConstants DEF Objects, Null
<1>1. PtrTypes' /\ CountsExact' /\ HeldLive'
  BY DEF PtrInv, PtrTypes, CountsExact, HeldLive
<1>2. ReleasedLive' /\ NoneLost'
  BY DEF PtrInv, PtrTypes, ReleasedLive, NoneLost
<1>3. DyingLast'
  BY DEF PtrInv, PtrTypes, DyingLast
<1>4. QED
  BY <1>1, <1>2, <1>3 DEF PtrInv

LEMMA DropInv ==
  ASSUME PtrInv, NEW t \in PtrThreads, NEW s \in Slots, Drop(t, s)
  PROVE  PtrInv'
<1> USE PtrConstants DEF Objects, Null
<1>1. PtrOp(t) /\ Set(t, s, Null) /\ LetGo(t, slot[t][s], cnt) /\ UNCHANGED <<state, released>> /\ Null \in 0 .. MaxObjects
  BY DEF Drop
<1>2. slot' \in Pointers
  BY <1>1, SetCounts
<1>3. \A o \in Objects : /\ Count(slot, o) \in Nat /\ Count(slot', o) \in Nat
                         /\ Count(slot', o) = Count(slot, o) - (IF slot[t][s] = o THEN 1 ELSE 0)
  <2> SUFFICES ASSUME NEW o \in Objects
               PROVE  /\ Count(slot, o) \in Nat /\ Count(slot', o) \in Nat
                      /\ Count(slot', o) = Count(slot, o) - (IF slot[t][s] = o THEN 1 ELSE 0)
    OBVIOUS
  <2>1. /\ Count(slot, o) \in Nat /\ Count(slot', o) \in Nat
        /\ Count(slot', o) = Count(slot, o) + (IF Null = o THEN 1 ELSE 0) - (IF slot[t][s] = o THEN 1 ELSE 0)
    BY <1>1, SetCounts
  <2>2. QED
    BY <2>1
<1>4. QED
  BY <1>1, <1>2, <1>3, LeaveInv

LEMMA MoveAssignInv ==
  ASSUME PtrInv, NEW t \in PtrThreads, NEW s \in Slots, NEW r \in Slots, MoveAssign(t, s, r)
  PROVE  PtrInv'
<1> USE PtrConstants DEF Objects, Null
<1>1. PtrOp(t) /\ UNCHANGED <<state, released>> /\ Null \in 0 .. MaxObjects
  BY DEF MoveAssign
<1>2. CASE s = r
  <2>1. slot' = slot /\ slot \in Pointers /\ UNCHANGED <<ptrKind, cnt, dying>> /\ ptrOps' \in Nat
    BY <1>1, <1>2 DEF MoveAssign, PtrOp, PtrInv, PtrTypes
  <2>2. QED
    BY <1>1, <2>1, SameCountsInv
<1>3. CASE s # r
  <2>1. slot' = With(With(slot, t, s, slot[t][r]), t, r, Null) /\ LetGo(t, slot[t][s], cnt)
    BY <1>3 DEF MoveAssign
  <2>2. slot' \in Pointers
    BY <1>1, <1>3, <2>1, ExchangeCounts
  <2>3. ASSUME NEW o \in Objects
        PROVE  /\ Count(slot, o) \in Nat /\ Count(slot', o) \in Nat
               /\ Count(slot', o) = Count(slot, o) - (IF slot[t][s] = o THEN 1 ELSE 0)
    <3>1. /\ Count(slot, o) \in Nat /\ Count(slot', o) \in Nat
          /\ Count(slot', o) = Count(slot, o) + (IF Null = o THEN 1 ELSE 0) - (IF slot[t][s] = o THEN 1 ELSE 0)
      BY <1>1, <1>3, <2>1, ExchangeCounts
    <3>2. QED
      BY <3>1
  <2>4. QED
    BY <1>1, <2>1, <2>2, <2>3, LeaveInv
<1>4. QED
  BY <1>2, <1>3

LEMMA SwapInv ==
  ASSUME PtrInv, NEW t \in PtrThreads, NEW s \in Slots, NEW r \in Slots, swap(t, s, r)
  PROVE  PtrInv'
<1> DEFINE n == slot[t][s]
<1>1. n \in 0 .. MaxObjects /\ slot' = With(With(slot, t, s, slot[t][r]), t, r, n) /\ (s # r \/ n = slot[t][r])
  BY SlotTypes DEF swap
<1>2. UNCHANGED <<ptrKind, cnt, state, dying, released>> /\ ptrOps' \in Nat
  BY DEF swap, PtrOp, PtrInv, PtrTypes
<1>3. slot' \in Pointers
  BY <1>1, ExchangeCounts
<1>4. \A o \in Objects :
        /\ Count(slot, o) \in Nat /\ Count(slot', o) \in Nat
        /\ Count(slot', o) = Count(slot, o) + (IF n = o THEN 1 ELSE 0) - (IF n = o THEN 1 ELSE 0)
  BY <1>1, ExchangeCounts
<1> HIDE DEF n
<1>5. \A o \in Objects : Count(slot', o) = Count(slot, o)
  BY <1>4
<1>6. QED
  BY <1>2, <1>3, <1>5, SameCountsInv

LEMMA ReleaseInv ==
  ASSUME PtrInv, NEW t \in PtrThreads, NEW s \in Slots, release(t, s)
  PROVE  PtrInv'
<1> USE PtrConstants DEF Objects, Null
<1> DEFINE old == slot[t][s]
<1>t. PtrTypes /\ CountsExact /\ HeldLive /\ ReleasedLive /\ DyingLast /\ NoneLost
  BY DEF PtrInv
<1>1. /\ ptrKind = "unique" /\ old # Null /\ Set(t, s, Null) /\ Null \in 0 .. MaxObjects
      /\ released' = released \cup {old} /\ cnt' = [cnt EXCEPT ![old] = 0]
      /\ UNCHANGED <<ptrKind, state, dying>> /\ ptrOps' \in Nat
  BY <1>t DEF release, PtrOp, PtrTypes
<1>2. old \in Objects /\ Count(slot, old) > 0 /\ state[old] = "live"
  <2>1. old \in Objects /\ Count(slot, old) > 0
    BY <1>1, SlotTypes
  <2>2. QED
    BY <2>1, <1>t DEF HeldLive
<1>3. slot' \in Pointers
  BY <1>1, SetCounts
<1>4. \A o \in Objects : /\ Count(slot, o) \in Nat /\ Count(slot', o) \in Nat
                         /\ Count(slot', o) = Count(slot, o) + (IF Null = o THEN 1 ELSE 0) - (IF old = o THEN 1 ELSE 0)
  BY <1>1, SetCounts
<1> HIDE DEF old
<1>5. Count(slot', old) = 0 /\ Count(slot, old) = 1
  <2>1. Count(slot, old) <= 1
    BY <1>1, <1>2, <1>t DEF CountsExact
  <2>2. QED
    BY <1>2, <1>4, <2>1
<1>6. \A o \in Objects : o # old => Count(slot', o) = Count(slot, o)
  BY <1>4
<1>7. PtrTypes'
  BY <1>t, <1>1, <1>2, <1>3 DEF PtrTypes
<1>8. CountsExact'
  <2> SUFFICES ASSUME NEW o \in Objects PROVE cnt'[o] = Count(slot', o) /\ Count(slot', o) <= 1
    BY DEF CountsExact
  <2>1. cnt[o] = Count(slot, o) /\ Count(slot, o) <= 1
    BY <1>1, <1>t DEF CountsExact
  <2>2. cnt'[o] = IF o = old THEN 0 ELSE cnt[o]
    BY <1>1, <1>2, <1>t DEF PtrTypes
  <2>3. QED
    BY <2>1, <2>2, <1>5, <1>6
<1>9. HeldLive'
  <2> SUFFICES ASSUME NEW o \in Objects, Count(slot', o) > 0 PROVE state[o] = "live"
    BY <1>1 DEF HeldLive
  <2>1. QED
    BY <1>2, <1>6, <1>t DEF HeldLive
<1>10. ReleasedLive'
  <2> SUFFICES ASSUME NEW o \in released' PROVE Count(slot', o) = 0 /\ state[o] = "live"
    BY <1>1 DEF ReleasedLive
  <2>1. CASE o = old
    BY <2>1, <1>2, <1>5
  <2>2. CASE o # old
    <3>1. o \in released /\ o \in Objects
      BY <2>2, <1>1, <1>t DEF PtrTypes
    <3>2. QED
      BY <3>1, <2>2, <1>6, <1>t DEF ReleasedLive
  <2>3. QED
    BY <2>1, <2>2
<1>11. DyingLast'
  <2> SUFFICES ASSUME NEW u \in PtrThreads, dying[u] # Null
               PROVE  /\ Count(slot', dying[u]) = 0 /\ state[dying[u]] = "live" /\ dying[u] \notin released'
                      /\ \A w \in PtrThreads : dying[w] = dying[u] => w = u
    BY <1>1 DEF DyingLast
  <2>1. /\ dying[u] \in Objects /\ Count(slot, dying[u]) = 0 /\ state[dying[u]] = "live" /\ dying[u] \notin released
        /\ \A w \in PtrThreads : dying[w] = dying[u] => w = u
    BY <1>t DEF DyingLast, PtrTypes
  <2>2. dying[u] # old
    BY <2>1, <1>2
  <2>3. QED
    BY <2>1, <2>2, <1>1, <1>6
<1>12. NoneLost'
  <2> SUFFICES ASSUME NEW o \in Objects, state[o] = "live", Count(slot', o) = 0, o \notin released'
               PROVE  \E u \in PtrThreads : dying[u] = o
    BY <1>1 DEF NoneLost
  <2>1. o # old /\ o \notin released
    BY <1>1
  <2>2. QED
    BY <2>1, <1>6, <1>t DEF NoneLost
<1>13. QED
  BY <1>7, <1>8, <1>9, <1>10, <1>11, <1>12 DEF PtrInv

(* Deleting takes the object from the living, and nobody else has it.      *)
LEMMA DeleteInv ==
  ASSUME PtrInv, NEW t \in PtrThreads, Delete(t)
  PROVE  PtrInv'
<1> USE PtrConstants DEF Objects, Null
<1> DEFINE old == dying[t]
<1>t. PtrTypes /\ CountsExact /\ HeldLive /\ ReleasedLive /\ DyingLast /\ NoneLost
  BY DEF PtrInv
<1>1. /\ UNCHANGED <<ptrKind, slot, cnt, released, ptrOps>> /\ dying' = [dying EXCEPT ![t] = Null]
      /\ old \in Objects /\ Count(slot, old) = 0 /\ state[old] = "live" /\ old \notin released
      /\ \A u \in PtrThreads : dying[u] = old => u = t
  BY <1>t DEF Delete, DyingLast, PtrTypes
<1> HIDE DEF old
<1>2. state' \in [Objects -> States] /\ state'[old] # "live" /\ \A o \in Objects : o # old => state'[o] = state[o]
  BY <1>1, <1>t DEF Delete, Gone, PtrTypes, States, old
<1>3. \A u \in PtrThreads : dying'[u] = IF u = t THEN Null ELSE dying[u]
  BY <1>1, <1>t DEF PtrTypes
<1>4. PtrTypes' /\ CountsExact'
  BY <1>t, <1>1, <1>2 DEF PtrTypes, CountsExact
<1>5. HeldLive'
  BY <1>t, <1>1, <1>2 DEF HeldLive
<1>6. ReleasedLive'
  BY <1>t, <1>1, <1>2 DEF ReleasedLive, PtrTypes
<1>7. DyingLast'
  <2> SUFFICES ASSUME NEW u \in PtrThreads, dying'[u] # Null
               PROVE  /\ u # t /\ Count(slot, dying[u]) = 0 /\ state'[dying[u]] = "live" /\ dying[u] \notin released
                      /\ \A w \in PtrThreads : dying'[w] = dying[u] => w = u
    BY <1>1, <1>3 DEF DyingLast
  <2>1. u # t /\ dying[u] # Null
    BY <1>3
  <2>2. /\ dying[u] \in Objects /\ Count(slot, dying[u]) = 0 /\ state[dying[u]] = "live" /\ dying[u] \notin released
        /\ \A w \in PtrThreads : dying[w] = dying[u] => w = u
    BY <2>1, <1>t DEF DyingLast, PtrTypes
  <2>3. dying[u] # old
    BY <2>1, <1>1
  <2>4. \A w \in PtrThreads : dying'[w] = dying[u] => w = u
    BY <1>3, <2>1, <2>2
  <2>5. QED
    BY <2>1, <2>2, <2>3, <2>4, <1>2
<1>8. NoneLost'
  <2> SUFFICES ASSUME NEW o \in Objects, state'[o] = "live", Count(slot, o) = 0, o \notin released
               PROVE  \E u \in PtrThreads : dying'[u] = o
    BY <1>1 DEF NoneLost
  <2>1. o # old /\ state[o] = "live"
    BY <1>2
  <2>2. PICK u \in PtrThreads : dying[u] = o
    BY <2>1, <1>t DEF NoneLost
  <2>3. u # t
    BY <2>1, <2>2 DEF old
  <2>4. dying'[u] = o
    BY <2>2, <2>3, <1>3
  <2>5. QED
    BY <2>4
<1>9. QED
  BY <1>4, <1>5, <1>6, <1>7, <1>8 DEF PtrInv

LEMMA CollectInv ==
  ASSUME PtrInv, collect
  PROVE  PtrInv'
<1> USE PtrConstants DEF Objects, Null
<1>t. PtrTypes /\ CountsExact /\ HeldLive /\ ReleasedLive /\ DyingLast /\ NoneLost
  BY DEF PtrInv
<1>1. UNCHANGED <<ptrKind, slot, cnt, dying, released, ptrOps>>
  BY DEF collect
<1>2. /\ state' \in [Objects -> States]
      /\ \A o \in Objects : state'[o] = "live" <=> state[o] = "live"
  BY <1>t DEF collect, PtrTypes, States
<1>3. PtrTypes' /\ CountsExact'
  BY <1>t, <1>1, <1>2 DEF PtrTypes, CountsExact
<1>4. HeldLive' /\ ReleasedLive'
  BY <1>t, <1>1, <1>2 DEF HeldLive, ReleasedLive, PtrTypes
<1>5. DyingLast'
  BY <1>t, <1>1, <1>2 DEF DyingLast, PtrTypes
<1>6. NoneLost'
  BY <1>t, <1>1, <1>2 DEF NoneLost
<1>7. QED
  BY <1>3, <1>4, <1>5, <1>6 DEF PtrInv

LEMMA PtrNextInv == PtrInv /\ [PtrNext]_ptrVars => PtrInv'
<1> SUFFICES ASSUME PtrInv, [PtrNext]_ptrVars PROVE PtrInv'
  OBVIOUS
<1>1. ASSUME NEW t \in PtrThreads, NEW s \in Slots, Make(t, s) \/ Drop(t, s) \/ release(t, s) PROVE PtrInv'
  BY <1>1, MakeInv, DropInv, ReleaseInv
<1>2. ASSUME NEW t \in PtrThreads, NEW s \in Slots, NEW r \in Slots, MoveAssign(t, s, r) \/ swap(t, s, r) PROVE PtrInv'
  BY <1>2, MoveAssignInv, SwapInv
<1>3. ASSUME NEW t \in PtrThreads, NEW s \in Slots, NEW u \in PtrThreads, NEW r \in Slots, CopyAssign(t, s, u, r) PROVE PtrInv'
  BY <1>3, CopyAssignInv
<1>4. ASSUME NEW t \in PtrThreads, Delete(t) PROVE PtrInv'
  BY <1>4, DeleteInv
<1>5. CASE collect
  BY <1>5, CollectInv
<1>6. CASE UNCHANGED ptrVars
  BY <1>6 DEF ptrVars, PtrInv, PtrTypes, CountsExact, HeldLive, ReleasedLive, DyingLast, NoneLost
<1>7. QED
  BY <1>1, <1>2, <1>3, <1>4, <1>5, <1>6 DEF PtrNext

-----------------------------------------------------------------------------
(* Objects live as long as a pointer holds them and are given up once,     *)
(* whatever the threads do with their pointers at the same time.           *)
THEOREM OwnershipIsExact == PtrSpec => []OwnershipExact
<1>1. PtrInv => OwnershipExact
  <2> SUFFICES ASSUME PtrInv, NEW o \in Objects
               PROVE  /\ Held(o) > 0 => state[o] = "live"
                      /\ state[o] # "twice" /\ cnt[o] = Held(o)
                      /\ state[o] = "live" /\ Held(o) = 0 /\ o \notin released
                           => Cardinality({t \in PtrThreads : dying[t] = o}) = 1
    BY DEF OwnershipExact
  <2>1. Held(o) = Count(slot, o)
    BY DEF Held, Count
  <2>2. (Held(o) > 0 => state[o] = "live") /\ state[o] # "twice" /\ cnt[o] = Held(o)
    BY <2>1 DEF PtrInv, PtrTypes, States, HeldLive, CountsExact
  <2>3. ASSUME state[o] = "live", Held(o) = 0, o \notin released
        PROVE  Cardinality({t \in PtrThreads : dying[t] = o}) = 1
    <3>1. PICK t \in PtrThreads : dying[t] = o
      BY <2>1, <2>3 DEF PtrInv, NoneLost
    <3>2. o # Null
      BY PtrConstants DEF Objects, Null
    <3>3. {u \in PtrThreads : dying[u] = o} = {t}
      BY <3>1, <3>2 DEF PtrInv, DyingLast
    <3>4. QED
      BY <3>3, FS_Singleton
  <2>4. QED
    BY <2>2, <2>3
<1>2. QED
  BY <1>1, PtrInitInv, PtrNextInv, PTL DEF PtrSpec
=============================================================================
