------------------------------ MODULE SmartPtr ------------------------------
(***************************************************************************)
(* memory-mangement: shared_ptr.hpp, unique_ptr.hpp, and counting_ptr with *)
(* its collector (gc_at_scope_end.cpp).                                    *)
(*                                                                         *)
(* Threads have pointers of their own, as slots that are empty or hold an  *)
(* object; a thread copies from a pointer of any thread that nobody        *)
(* changes meanwhile.  Counters are atomic: a step each.                   *)
(***************************************************************************)
EXTENDS Integers, FiniteSets, FiniteSetsExt

CONSTANTS PtrThreads, Slots, \* of each thread
          MaxObjects, MaxPtrOps \* bounds of the objects made and of the operations

ASSUME PtrConstants == IsFiniteSet(PtrThreads) /\ IsFiniteSet(Slots) /\ MaxObjects \in Nat /\ MaxPtrOps \in Nat

VARIABLES ptrKind,   \* "shared", "unique" or "counting"
          slot,      \* per thread and slot: the object, or Null
          cnt,       \* per object: *cnt
          state,     \* per object: "none", "live", "marked", "deleted" or "twice"
          dying,     \* per thread: an object the thread's temporary has just let go for the last time
          released,  \* objects taken out of a unique_ptr by release()
          ptrOps

ptrVars == <<ptrKind, slot, cnt, state, dying, released, ptrOps>>
Objects == 1 .. MaxObjects
Null == 0
NoPointers == [t \in PtrThreads |-> [s \in Slots |-> Null]]

Fresh(used) ==
  /\ ptrKind \in {"shared", "unique", "counting"} /\ slot = NoPointers
  /\ cnt = [o \in Objects |-> 0] /\ state = [o \in Objects |-> "none"]
  /\ dying = [t \in PtrThreads |-> Null] /\ released = {} /\ ptrOps = used
PtrInit == Fresh(0)
PtrEnded == Fresh(MaxPtrOps) /\ ptrKind = "shared"

PtrOp(t) == ptrOps < MaxPtrOps /\ ptrOps' = ptrOps + 1 /\ dying[t] = Null /\ UNCHANGED ptrKind
With(f, t, s, o) == [f EXCEPT ![t][s] = o]
Set(t, s, o) == slot' = With(slot, t, s, o)

-----------------------------------------------------------------------------
(* A pointer's object is let go of: the decrement that tests for 1 is one  *)
(* atomic step, the deletion another.  A unique_ptr has no counter.        *)

(* Mutant: nobody is left after the decrement, said of the count before it. *)
NoneLeft(o, c) == c[o] = 0

LastOne(o, c) == c[o] = 1

LetGo(t, o, c) ==
  IF o = Null THEN cnt' = c /\ dying' = dying
  ELSE /\ cnt' = [c EXCEPT ![o] = @ - 1]
       /\ dying' = [dying EXCEPT ![t] = IF LastOne(o, c) THEN o ELSE Null]

Gone(o) == IF state[o] = "live" THEN "deleted" ELSE "twice"

(* deleter(data), or GC::mark.                                             *)
Delete(t) ==
  /\ dying[t] # Null /\ dying' = [dying EXCEPT ![t] = Null]
  /\ state' = [state EXCEPT ![dying[t]] =
                 IF ptrKind = "counting" /\ @ = "live" THEN "marked" ELSE Gone(dying[t])]
  /\ UNCHANGED <<ptrKind, slot, cnt, released, ptrOps>>

(* GC::collect: what is marked is erased from the table that owns it.      *)
collect ==
  /\ ptrKind = "counting" /\ \E o \in Objects : state[o] = "marked"
  /\ state' = [o \in Objects |-> IF state[o] = "marked" THEN "deleted" ELSE state[o]]
  /\ UNCHANGED <<ptrKind, slot, cnt, dying, released, ptrOps>>

-----------------------------------------------------------------------------
(* The pointers' operations.  An assignment makes a temporary, swaps, and  *)
(* the temporary takes what the pointer held to its end.                   *)

Make(t, s) ==
  /\ PtrOp(t) /\ \E o \in Objects : state[o] = "none"
  /\ LET o == Min({k \in Objects : state[k] = "none"})
     IN  /\ Set(t, s, o) /\ state' = [state EXCEPT ![o] = "live"]
         /\ LetGo(t, slot[t][s], [cnt EXCEPT ![o] = 1])
  /\ UNCHANGED released

CopyAssign(t, s, u, r) ==
  /\ PtrOp(t) /\ ptrKind # "unique"
  /\ LET o == slot[u][r]
     IN  Set(t, s, o) /\ LetGo(t, slot[t][s], IF o = Null THEN cnt ELSE [cnt EXCEPT ![o] = @ + 1])
  /\ UNCHANGED <<state, released>>

MoveAssign(t, s, r) ==
  /\ PtrOp(t)
  /\ IF s = r THEN UNCHANGED <<slot, cnt, dying>>
     ELSE slot' = With(With(slot, t, s, slot[t][r]), t, r, Null) /\ LetGo(t, slot[t][s], cnt)
  /\ UNCHANGED <<state, released>>

(* The destructor, and the assignment of nullptr.                          *)
Drop(t, s) == /\ PtrOp(t) /\ Set(t, s, Null) /\ LetGo(t, slot[t][s], cnt) /\ UNCHANGED <<state, released>>

swap(t, s, r) ==
  /\ PtrOp(t) /\ slot' = With(With(slot, t, s, slot[t][r]), t, r, slot[t][s])
  /\ UNCHANGED <<cnt, state, dying, released>>

release(t, s) ==
  /\ PtrOp(t) /\ ptrKind = "unique" /\ slot[t][s] # Null
  /\ Set(t, s, Null) /\ released' = released \cup {slot[t][s]} /\ cnt' = [cnt EXCEPT ![slot[t][s]] = 0]
  /\ UNCHANGED <<state, dying>>

PtrNext ==
  \/ \E t \in PtrThreads, s \in Slots :
       \/ Make(t, s) \/ Drop(t, s) \/ release(t, s)
       \/ \E r \in Slots : MoveAssign(t, s, r) \/ swap(t, s, r)
       \/ \E u \in PtrThreads, r \in Slots : CopyAssign(t, s, u, r)
  \/ (\E t \in PtrThreads : Delete(t)) \/ collect
PtrSpec == PtrInit /\ [][PtrNext]_ptrVars

-----------------------------------------------------------------------------
Places(f, o) == {p \in PtrThreads \X Slots : f[p[1]][p[2]] = o}
Held(o) == Cardinality(Places(slot, o))

(* An object lives as long as a pointer holds it, is given up by exactly   *)
(* one thread when the last one lets it go, and never a second time; the   *)
(* counter is the number of its pointers.                                  *)
OwnershipExact ==
  \A o \in Objects :
    /\ Held(o) > 0 => state[o] = "live"
    /\ state[o] # "twice" /\ cnt[o] = Held(o)
    /\ state[o] = "live" /\ Held(o) = 0 /\ o \notin released => Cardinality({t \in PtrThreads : dying[t] = o}) = 1
=============================================================================
