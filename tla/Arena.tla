------------------------------- MODULE Arena -------------------------------
(***************************************************************************)
(* memory-mangement/arena_allocator.cpp: SizeBasedArena<T, MAX_N, true>.   *)
(* Addresses are numbers; malloc gives a block anywhere.  A size is a      *)
(* multiple of the alignment, as the language has it.                      *)
(***************************************************************************)
EXTENDS Integers, FiniteSets, FiniteSetsExt

CONSTANTS Alignments, \* powers of two
          MAX_N, MaxAddress

VARIABLES size, align, BLOCK_START, CURR,
          given, \* the allocations: records of address and number of objects
          refused \* the numbers of objects bad_alloc was thrown for

vars == <<size, align, BLOCK_START, CURR, given, refused>>

BYTES_REQUIRED == size * MAX_N + align - 1
BLOCK_END == BLOCK_START + BYTES_REQUIRED

Init ==
  /\ align \in Alignments /\ size \in {align, 2 * align} /\ BLOCK_START \in 0 .. MaxAddress
  /\ CURR = BLOCK_START /\ given = {} /\ refused = {}
Ended ==
  /\ align = 1 /\ size = 1 /\ BLOCK_START = 0 /\ CURR = BYTES_REQUIRED /\ refused = 1 .. MAX_N
  /\ given = {[at |-> 0, n |-> MAX_N]}

(* Mutant: the pointer is not aligned.                                     *)
AsItIs(p) == p
(* std::align: the next multiple of the alignment.                         *)
Aligned(p) == ((p + align - 1) \div align) * align

allocate(n) ==
  /\ IF Aligned(CURR) + size * n > BLOCK_END
       THEN refused' = refused \cup {n} /\ UNCHANGED <<CURR, given>>
       ELSE /\ CURR' = Aligned(CURR) + size * n /\ given' = given \cup {[at |-> Aligned(CURR), n |-> n]}
            /\ UNCHANGED refused
  /\ UNCHANGED <<size, align, BLOCK_START>>

Next == \E n \in 1 .. MAX_N : allocate(n)
Spec == Init /\ [][Next]_vars

-----------------------------------------------------------------------------
Total == MapThenSumSet(LAMBDA g : g.n, given)

(* Allocations are aligned, lie in the block and do not overlap, and none  *)
(* is refused that keeps the number of objects within MAX_N, wherever the  *)
(* block begins.                                                           *)
AllocationsFit ==
  /\ \A g \in given : g.at % align = 0 /\ g.at >= BLOCK_START /\ g.at + size * g.n <= BLOCK_END
  /\ \A g, h \in given : g = h \/ g.at + size * g.n <= h.at \/ h.at + size * h.n <= g.at
  /\ \A n \in refused : Total + n > MAX_N
=============================================================================
