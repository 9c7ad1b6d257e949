------------------------- MODULE PieceManagerProofs -------------------------
(***************************************************************************)
(* Proofs about PieceManager, for any finite set of pieces, any number of  *)
(* blocks per piece, any set of peers and any MAX_BACKLOG.                 *)
(***************************************************************************)
EXTENDS PieceManager, FiniteSetTheorems, TLAPS

(* The blocks of a piece are finite in number.                             *)
LEMMA BlocksOfFinite ==
  ASSUME NEW q \in Index
  PROVE  IsFiniteSet(BlocksOf(q)) /\ Cardinality(BlocksOf(q)) = NumBlocks[q]
<1> DEFINE n == NumBlocks[q] - 1
           I == 0 .. n
           f == [i \in I |-> <<q, i>>]
<1>1. NumBlocks[q] \in Nat \ {0}
  BY NumBlocksType
<1>2. IsFiniteSet(I) /\ Cardinality(I) = NumBlocks[q]
  <2>1. 0 \in Int /\ n \in Int /\ ~(0 > n) /\ n - 0 + 1 = NumBlocks[q]
    BY <1>1
  <2> HIDE DEF n
  <2>2. IsFiniteSet(0 .. n) /\ Cardinality(0 .. n) = IF 0 > n THEN 0 ELSE n - 0 + 1
    BY <2>1, FS_Interval
  <2>3. QED
    BY <2>1, <2>2
<1>3. f \in Bijection(I, BlocksOf(q))
  BY DEF BlocksOf, Bijection, Injection, Surjection, IsInjective
<1>4. ExistsBijection(I, BlocksOf(q))
  BY <1>3 DEF ExistsBijection
<1> HIDE DEF I
<1>5. QED
  BY <1>2, <1>4, FS_Bijection

(* How the sets of blocks are related.                                     *)
LEMMA BlockFacts ==
  /\ \A b \in Block : b[1] \in Index /\ b \in BlocksOf(b[1])
  /\ \A q \in Index : BlocksOf(q) \subseteq Block
  /\ \A q \in Index : \A b \in BlocksOf(q) : b[1] = q
BY DEF Block, BlocksOf

(* A set of blocks restricted to a piece.                                  *)
LEMMA InPieceFacts ==
  ASSUME NEW B \in SUBSET Block, NEW q \in Index
  PROVE  /\ InPiece(B, q) = B \cap BlocksOf(q)
         /\ IsFiniteSet(InPiece(B, q))
         /\ Cardinality(InPiece(B, q)) \in Nat
<1>1. InPiece(B, q) = B \cap BlocksOf(q)
  BY BlockFacts DEF InPiece
<1>2. QED
  BY <1>1, BlocksOfFinite, FS_Subset, FS_CardinalityType

(* The set of all blocks is finite.                                        *)
LEMMA BlockFinite ==
  IsFiniteSet(Block)
<1> DEFINE S == {BlocksOf(q) : q \in Index}
           f == [q \in Index |-> BlocksOf(q)]
<1>1. f \in Surjection(Index, S)
  BY DEF Surjection
<1>2. IsFiniteSet(S)
  BY <1>1, IndexFinite, FS_Surjection
<1>3. \A T \in S : IsFiniteSet(T)
  BY BlocksOfFinite
<1> HIDE DEF S
<1>4. IsFiniteSet(UNION S)
  BY <1>2, <1>3, FS_UNION
<1>5. QED
  BY <1>4 DEF Block, S

-----------------------------------------------------------------------------
(* What the manager guarantees while the blocks B are pending somewhere.   *)
ManagerOK(m, B) ==
  /\ m \in Manager
  /\ B \subseteq Block
  /\ \A b \in B : m.state[b] = "REQUESTED"
  /\ \A q \in Index :
       /\ m.requestedBlocks[q] = Cardinality(InState(m, q, "REQUESTED"))
       /\ m.completedBlocks[q] = Cardinality(InState(m, q, "DONE"))
  /\ \A b \in Block : b[1] \notin m.partial => m.state[b] = "PENDING"
  /\ \A q \in m.partial : /\ q \notin m.haves
                          /\ m.completedBlocks[q] < NumBlocks[q]
                          /\ m.requestedBlocks[q] + m.completedBlocks[q] > 0

(* The blocks of a piece that are in some state are finite in number.      *)
LEMMA InStateFacts ==
  ASSUME NEW m, NEW q \in Index, NEW st
  PROVE  /\ IsFiniteSet(InState(m, q, st))
         /\ Cardinality(InState(m, q, st)) \in Nat
         /\ InState(m, q, st) \subseteq BlocksOf(q)
BY BlocksOfFinite, FS_Subset, FS_CardinalityType DEF InState

(* A block of a piece that is not partial is neither requested nor done.   *)
LEMMA PendingIsPartial ==
  ASSUME NEW m, NEW B, ManagerOK(m, B), NEW b \in B
  PROVE  b \in Block /\ b[1] \in Index /\ b[1] \in m.partial
BY BlockFacts DEF ManagerOK

(* The fields of the manager after the pending blocks C have been reset.   *)
LEMMA ResetFields ==
  ASSUME NEW m \in Manager, NEW C
  PROVE  /\ onPeerReset(m, C).haves = m.haves
         /\ onPeerReset(m, C).partial = m.partial \ EmptiedBy(m, C)
         /\ onPeerReset(m, C).state =
              [b \in Block |-> IF b \in C THEN "PENDING" ELSE m.state[b]]
         /\ onPeerReset(m, C).requestedBlocks =
              [q \in Index |-> m.requestedBlocks[q] - Cardinality(InPiece(C, q))]
         /\ onPeerReset(m, C).completedBlocks = m.completedBlocks
BY DEF onPeerReset, Manager

(* Resetting some of the pending blocks keeps the manager consistent, and  *)
(* finds every piece it looks up.                                          *)
LEMMA ResetOK ==
  ASSUME NEW m, NEW B, ManagerOK(m, B), NEW C \in SUBSET B
  PROVE  /\ ManagerOK(onPeerReset(m, C), B \ C)
         /\ ~ResetThrows(m, C)
         /\ onPeerReset(m, C).haves = m.haves
<1> DEFINE n == onPeerReset(m, C)
<1>1. /\ m \in Manager
      /\ C \in SUBSET Block
      /\ B \subseteq Block
  BY DEF ManagerOK
<1>2. /\ n.haves = m.haves
      /\ n.partial = m.partial \ EmptiedBy(m, C)
      /\ n.state = [b \in Block |-> IF b \in C THEN "PENDING" ELSE m.state[b]]
      /\ n.requestedBlocks =
              [q \in Index |-> m.requestedBlocks[q] - Cardinality(InPiece(C, q))]
      /\ n.completedBlocks = m.completedBlocks
  BY <1>1, ResetFields
<1>3. ASSUME NEW q \in Index
      PROVE  /\ InPiece(C, q) \subseteq InState(m, q, "REQUESTED")
             /\ InState(n, q, "REQUESTED") = InState(m, q, "REQUESTED") \ InPiece(C, q)
             /\ InState(n, q, "DONE") = InState(m, q, "DONE")
  <2>1. BlocksOf(q) \subseteq Block /\ InPiece(C, q) = C \cap BlocksOf(q)
    BY <1>1, BlockFacts, InPieceFacts
  <2>2. \A b \in C : m.state[b] = "REQUESTED"
    BY DEF ManagerOK
  <2>3. QED
    BY <1>2, <2>1, <2>2 DEF InState
<1>4. ASSUME NEW q \in Index
      PROVE  /\ Cardinality(InPiece(C, q)) \in Nat
             /\ Cardinality(InPiece(C, q)) <= m.requestedBlocks[q]
             /\ n.requestedBlocks[q] \in Nat
             /\ n.requestedBlocks[q] = Cardinality(InState(n, q, "REQUESTED"))
             /\ InPiece(C, q) = {} <=> Cardinality(InPiece(C, q)) = 0
  <2> DEFINE S == InState(m, q, "REQUESTED")
             T == InPiece(C, q)
  <2>1. IsFiniteSet(S) /\ Cardinality(S) \in Nat /\ Cardinality(S) = m.requestedBlocks[q]
    BY InStateFacts DEF ManagerOK
  <2>2. IsFiniteSet(T) /\ Cardinality(T) \in Nat
    BY <1>1, InPieceFacts
  <2>3. InState(n, q, "REQUESTED") = S \ T /\ T \subseteq S
    BY <1>3
  <2>4. n.requestedBlocks[q] = Cardinality(S) - Cardinality(T)
    BY <1>2, <2>1
  <2> HIDE DEF S, T, n
  <2>5. S \cap T = T
    BY <2>3
  <2>6. Cardinality(S \ T) = Cardinality(S) - Cardinality(T) /\ Cardinality(S \ T) \in Nat
    <3>1. IsFiniteSet(S \ T) /\ Cardinality(S \ T) = Cardinality(S) - Cardinality(S \cap T)
      BY <2>1, FS_Difference
    <3>2. QED
      BY <2>5, <3>1, FS_CardinalityType
  <2>7. Cardinality(T) <= Cardinality(S)
    BY <2>1, <2>3, FS_Subset
  <2>8. T = {} <=> Cardinality(T) = 0
    BY <2>2, FS_EmptySet
  <2>9. QED
    BY <2>1, <2>2, <2>3, <2>4, <2>6, <2>7, <2>8 DEF S, T
<1>5. ~ResetThrows(m, C)
  <2> SUFFICES ASSUME NEW q \in Index, InPiece(C, q) # {}
               PROVE  /\ q \in m.partial
                      /\ ~(m.requestedBlocks[q] < Cardinality(InPiece(C, q)))
    BY DEF ResetThrows
  <2>1. PICK b \in C : b[1] = q
    BY DEF InPiece
  <2>2. q \in m.partial
    BY <2>1, PendingIsPartial
  <2>3. m.requestedBlocks[q] \in Nat
    BY <1>1 DEF Manager
  <2>4. QED
    BY <1>4, <2>2, <2>3
<1>6. n \in Manager
  <2>1. n.state \in [Block -> BlockState]
    BY <1>1, <1>2 DEF Manager, BlockState
  <2>2. n.requestedBlocks \in [Index -> Nat]
    BY <1>2, <1>4
  <2>3. QED
    BY <1>1, <2>1, <2>2 DEF onPeerReset, Manager
<1>7. ASSUME NEW b \in Block, b[1] \notin n.partial
      PROVE  n.state[b] = "PENDING"
  <2> DEFINE q == b[1]
  <2>1. q \in Index /\ b \in BlocksOf(q)
    BY BlockFacts
  <2>2. CASE q \notin m.partial
    BY <1>2, <2>2 DEF ManagerOK
  <2>3. CASE q \in m.partial
    <3>1. q \in EmptiedBy(m, C)
      BY <1>2, <1>7, <2>3
    <3>2. /\ m.requestedBlocks[q] = Cardinality(InPiece(C, q))
          /\ m.completedBlocks[q] = 0
      BY <3>1 DEF EmptiedBy
    <3>3. n.requestedBlocks[q] = 0 /\ n.completedBlocks[q] = 0
      BY <1>2, <1>4, <2>1, <3>2
    <3>4. Cardinality(InState(n, q, "REQUESTED")) = 0 /\ Cardinality(InState(n, q, "DONE")) = 0
      BY <1>2, <1>3, <1>4, <2>1, <3>3 DEF ManagerOK
    <3>5. InState(n, q, "REQUESTED") = {} /\ InState(n, q, "DONE") = {}
      BY <2>1, <3>4, InStateFacts, FS_EmptySet
    <3>6. n.state[b] \in BlockState
      BY <1>6 DEF Manager
    <3>7. QED
      BY <2>1, <3>5, <3>6 DEF InState, BlockState
  <2>4. QED
    BY <2>2, <2>3
<1>8. ASSUME NEW q \in n.partial
      PROVE  /\ q \notin n.haves
             /\ n.completedBlocks[q] < NumBlocks[q]
             /\ n.requestedBlocks[q] + n.completedBlocks[q] > 0
  <2>1. q \in m.partial /\ q \notin EmptiedBy(m, C) /\ q \in Index
    BY <1>1, <1>2, <1>8 DEF Manager
  <2>2. m.requestedBlocks[q] \in Nat /\ m.completedBlocks[q] \in Nat
    BY <1>1, <2>1 DEF Manager
  <2>3. /\ q \notin m.haves
        /\ m.completedBlocks[q] < NumBlocks[q]
        /\ m.requestedBlocks[q] + m.completedBlocks[q] > 0
    BY <2>1 DEF ManagerOK
  <2>4. \/ InPiece(C, q) = {}
        \/ m.requestedBlocks[q] # Cardinality(InPiece(C, q))
        \/ m.completedBlocks[q] # 0
    BY <2>1 DEF EmptiedBy
  <2>5. n.requestedBlocks[q] = m.requestedBlocks[q] - Cardinality(InPiece(C, q))
    BY <1>2, <2>1
  <2>6. QED
    BY <1>2, <1>4, <2>1, <2>2, <2>3, <2>4, <2>5
<1>9. QED
  <2>1. \A b \in B \ C : n.state[b] = "REQUESTED"
    BY <1>1, <1>2 DEF ManagerOK
  <2>2. \A q \in Index : n.completedBlocks[q] = Cardinality(InState(n, q, "DONE"))
    BY <1>2, <1>3 DEF ManagerOK
  <2>3. ManagerOK(n, B \ C)
    BY <1>1, <1>4, <1>6, <1>7, <1>8, <2>1, <2>2 DEF ManagerOK
  <2>4. QED
    BY <1>2, <1>5, <2>3

(* Fields after a block has been written, and after a piece is erased.     *)
LEMMA WriteFields ==
  ASSUME NEW m \in Manager, NEW b \in Block
  PROVE  /\ writeBlock(m, b).haves = m.haves
         /\ writeBlock(m, b).partial = m.partial
         /\ writeBlock(m, b).state = [m.state EXCEPT ![b] = "DONE"]
         /\ writeBlock(m, b).requestedBlocks =
              [m.requestedBlocks EXCEPT ![b[1]] = m.requestedBlocks[b[1]] - 1]
         /\ writeBlock(m, b).completedBlocks =
              [m.completedBlocks EXCEPT ![b[1]] = m.completedBlocks[b[1]] + 1]
BY DEF writeBlock, Manager

(* Erasing a partial piece, field by field.                                *)
LEMMA EraseFields ==
  ASSUME NEW m \in Manager, NEW q
  PROVE  /\ ErasePiece(m, q).haves = m.haves
         /\ ErasePiece(m, q).partial = m.partial \ {q}
         /\ ErasePiece(m, q).state =
              [b \in Block |-> IF b[1] = q THEN "PENDING" ELSE m.state[b]]
         /\ ErasePiece(m, q).requestedBlocks = [m.requestedBlocks EXCEPT ![q] = 0]
         /\ ErasePiece(m, q).completedBlocks = [m.completedBlocks EXCEPT ![q] = 0]
         /\ ErasePiece(m, q) \in Manager
BY DEF ErasePiece, Manager, BlockState

(* Fields after the blocks R have been requested.                          *)
LEMMA RequestFields ==
  ASSUME NEW m \in Manager, NEW R
  PROVE  /\ requestBlocks(m, R).haves = m.haves
         /\ requestBlocks(m, R).partial = m.partial \cup {b[1] : b \in R}
         /\ requestBlocks(m, R).state =
              [b \in Block |-> IF b \in R THEN "REQUESTED" ELSE m.state[b]]
         /\ requestBlocks(m, R).requestedBlocks =
              [q \in Index |-> m.requestedBlocks[q] + Cardinality(InPiece(R, q))]
         /\ requestBlocks(m, R).completedBlocks = m.completedBlocks
BY DEF requestBlocks, Manager

(* A pending block that is written moves from REQUESTED to DONE, and so do *)
(* the counters of its piece.                                              *)
LEMMA WriteOK ==
  ASSUME NEW m, NEW B, ManagerOK(m, B), NEW b \in B
  PROVE  LET w == writeBlock(m, b)
         IN  /\ w \in Manager
             /\ \A q \in Index :
                  /\ w.requestedBlocks[q] = Cardinality(InState(w, q, "REQUESTED"))
                  /\ w.completedBlocks[q] = Cardinality(InState(w, q, "DONE"))
             /\ w.completedBlocks[b[1]] <= NumBlocks[b[1]]
             /\ w.completedBlocks[b[1]] > 0
<1> DEFINE w == writeBlock(m, b)
           p == b[1]
<1>1. m \in Manager /\ b \in Block /\ p \in Index /\ p \in m.partial /\ b \in BlocksOf(p)
  BY PendingIsPartial, BlockFacts DEF ManagerOK
<1>2. /\ w.haves = m.haves
      /\ w.partial = m.partial
      /\ w.state = [m.state EXCEPT ![b] = "DONE"]
      /\ w.requestedBlocks = [m.requestedBlocks EXCEPT ![p] = m.requestedBlocks[p] - 1]
      /\ w.completedBlocks = [m.completedBlocks EXCEPT ![p] = m.completedBlocks[p] + 1]
  BY <1>1, WriteFields
<1>3. /\ m.state \in [Block -> BlockState] /\ m.state[b] = "REQUESTED"
      /\ m.requestedBlocks \in [Index -> Nat] /\ m.completedBlocks \in [Index -> Nat]
  BY <1>1 DEF ManagerOK, Manager
<1>4. ASSUME NEW q \in Index
      PROVE  /\ InState(w, q, "REQUESTED") = InState(m, q, "REQUESTED") \ {b}
             /\ InState(w, q, "DONE") = InState(m, q, "DONE") \cup IF q = p THEN {b} ELSE {}
             /\ b \in InState(m, q, "REQUESTED") <=> q = p
             /\ b \notin InState(m, q, "DONE")
  <2>1. BlocksOf(q) \subseteq Block /\ \A c \in BlocksOf(q) : c[1] = q
    BY BlockFacts
  <2>2. QED
    BY <1>1, <1>2, <1>3, <2>1 DEF InState
<1>5. ASSUME NEW q \in Index
      PROVE  /\ w.requestedBlocks[q] \in Nat
             /\ w.completedBlocks[q] \in Nat
             /\ w.requestedBlocks[q] = Cardinality(InState(w, q, "REQUESTED"))
             /\ w.completedBlocks[q] = Cardinality(InState(w, q, "DONE"))
  <2> DEFINE R == InState(m, q, "REQUESTED")
             D == InState(m, q, "DONE")
  <2>1. /\ IsFiniteSet(R) /\ Cardinality(R) = m.requestedBlocks[q]
        /\ IsFiniteSet(D) /\ Cardinality(D) = m.completedBlocks[q]
    BY InStateFacts DEF ManagerOK
  <2>2. /\ InState(w, q, "REQUESTED") = R \ {b}
        /\ InState(w, q, "DONE") = D \cup IF q = p THEN {b} ELSE {}
        /\ b \in R <=> q = p
        /\ b \notin D
    BY <1>4
  <2> HIDE DEF R, D, w, p
  <2>3. /\ Cardinality(R \ {b}) = IF b \in R THEN Cardinality(R) - 1 ELSE Cardinality(R)
        /\ IsFiniteSet(R \ {b})
        /\ Cardinality(D \cup {b}) = IF b \in D THEN Cardinality(D) ELSE Cardinality(D) + 1
        /\ IsFiniteSet(D \cup {b})
    BY <2>1, FS_AddElement, FS_RemoveElement
  <2>4. Cardinality(R \ {b}) \in Nat /\ Cardinality(R) \in Nat /\ Cardinality(D) \in Nat
    BY <2>1, <2>3, FS_CardinalityType
  <2>5. D \cup {} = D
    OBVIOUS
  <2>6. CASE q = p
    <3>1. /\ w.requestedBlocks[q] = Cardinality(R) - 1
          /\ w.completedBlocks[q] = Cardinality(D) + 1
      BY <1>1, <1>2, <1>3, <2>1, <2>6
    <3>2. InState(w, q, "DONE") = D \cup {b} /\ b \in R
      BY <2>2, <2>6
    <3>3. /\ Cardinality(R \ {b}) = Cardinality(R) - 1
          /\ Cardinality(D \cup {b}) = Cardinality(D) + 1
      BY <2>2, <2>3, <3>2
    <3>4. InState(w, q, "REQUESTED") = R \ {b}
      BY <2>2
    <3>5. /\ w.requestedBlocks[q] = Cardinality(InState(w, q, "REQUESTED"))
          /\ w.completedBlocks[q] = Cardinality(InState(w, q, "DONE"))
      BY <3>1, <3>2, <3>3, <3>4
    <3>6. QED
      BY <2>4, <3>1, <3>3, <3>5
  <2>7. CASE q # p
    BY <1>1, <1>2, <1>3, <2>1, <2>2, <2>3, <2>4, <2>5, <2>7
  <2>8. QED
    BY <2>6, <2>7
<1>6. w \in Manager
  <2>1. w.requestedBlocks \in [Index -> Nat] /\ w.completedBlocks \in [Index -> Nat]
    BY <1>2, <1>3, <1>5
  <2>2. w.state \in [Block -> BlockState]
    BY <1>2, <1>3 DEF BlockState
  <2>3. QED
    BY <1>1, <2>1, <2>2 DEF writeBlock, Manager
<1>7. w.completedBlocks[p] <= NumBlocks[p] /\ w.completedBlocks[p] > 0
  <2>1. m.completedBlocks[p] < NumBlocks[p] /\ m.completedBlocks[p] \in Nat /\ NumBlocks[p] \in Nat
    BY <1>1, <1>3, NumBlocksType DEF ManagerOK
  <2>2. w.completedBlocks[p] = m.completedBlocks[p] + 1
    BY <1>1, <1>2, <1>3
  <2>3. QED
    BY <2>1, <2>2
<1>8. QED
  BY <1>5, <1>6, <1>7

(* Receiving a pending block keeps the manager consistent with the rest of *)
(* the pending blocks; at most the piece of the block is downloaded by it. *)
LEMMA ReceivedOK ==
  ASSUME NEW m, NEW B, ManagerOK(m, B), NEW b \in B, NEW h \in BOOLEAN,
         ~HashThrows(m, b)
  PROVE  LET r == onBlockReceived(m, b, h)
         IN  /\ ManagerOK(r, B \ {b})
             /\ b[1] \in m.partial
             /\ b[1] \in Index
             /\ b[1] \notin m.haves
             /\ r.haves \in {m.haves, m.haves \cup {b[1]}}
<1> DEFINE w == writeBlock(m, b)
           p == b[1]
           e == ErasePiece(w, p)
           r == onBlockReceived(m, b, h)
<1>1. /\ m \in Manager /\ b \in Block /\ p \in Index /\ p \in m.partial /\ p \notin m.haves
      /\ B \subseteq Block /\ b \in BlocksOf(p)
  BY PendingIsPartial, BlockFacts DEF ManagerOK
<1>2. /\ w \in Manager
      /\ \A q \in Index :
           /\ w.requestedBlocks[q] = Cardinality(InState(w, q, "REQUESTED"))
           /\ w.completedBlocks[q] = Cardinality(InState(w, q, "DONE"))
      /\ w.completedBlocks[p] <= NumBlocks[p]
      /\ w.completedBlocks[p] > 0
  BY WriteOK
<1>3. /\ w.haves = m.haves
      /\ w.partial = m.partial
      /\ w.state = [m.state EXCEPT ![b] = "DONE"]
      /\ w.requestedBlocks = [m.requestedBlocks EXCEPT ![p] = m.requestedBlocks[p] - 1]
      /\ w.completedBlocks = [m.completedBlocks EXCEPT ![p] = m.completedBlocks[p] + 1]
  BY <1>1, WriteFields
<1>4. /\ \A c \in B \ {b} : w.state[c] = "REQUESTED"
      /\ \A c \in Block : c[1] \notin w.partial => w.state[c] = "PENDING"
  BY <1>1, <1>3 DEF ManagerOK, Manager
<1>5. \A q \in w.partial \ {p} : /\ q \notin w.haves
                                 /\ w.completedBlocks[q] < NumBlocks[q]
                                 /\ w.requestedBlocks[q] + w.completedBlocks[q] > 0
  BY <1>1, <1>3 DEF ManagerOK, Manager
<1>6. CASE ~PieceComplete(w, p)
  <2>1. r = w
    BY <1>6 DEF onBlockReceived
  <2>2. /\ p \notin w.haves
        /\ w.completedBlocks[p] < NumBlocks[p]
        /\ w.requestedBlocks[p] + w.completedBlocks[p] > 0
    <3>1. w.completedBlocks[p] # NumBlocks[p]
      BY <1>6 DEF PieceComplete
    <3>2. w.requestedBlocks[p] \in Nat /\ w.completedBlocks[p] \in Nat /\ NumBlocks[p] \in Nat
      BY <1>1, <1>2, NumBlocksType DEF Manager
    <3> HIDE DEF w
    <3>3. QED
      BY <1>1, <1>2, <1>3, <3>1, <3>2
  <2>3. ManagerOK(w, B \ {b})
    <3> HIDE DEF w
    <3>1. QED
      BY <1>1, <1>2, <1>4, <1>5, <2>2 DEF ManagerOK
  <2>4. QED
    BY <1>1, <1>3, <2>1, <2>3
<1>7. CASE PieceComplete(w, p)
  <2>0. p \in Pieces
    BY <1>7 DEF HashThrows
  <2>1. /\ e.haves = w.haves
        /\ e.partial = w.partial \ {p}
        /\ e.state = [c \in Block |-> IF c[1] = p THEN "PENDING" ELSE w.state[c]]
        /\ e.requestedBlocks = [w.requestedBlocks EXCEPT ![p] = 0]
        /\ e.completedBlocks = [w.completedBlocks EXCEPT ![p] = 0]
        /\ e \in Manager
    BY <1>2, EraseFields
  <2>2. \A c \in B \ {b} : c[1] # p
    <3>1. Cardinality(InState(w, p, "DONE")) = NumBlocks[p]
      BY <1>1, <1>2, <1>7 DEF PieceComplete
    <3>2. InState(w, p, "DONE") = BlocksOf(p)
      BY <1>1, <3>1, BlocksOfFinite, InStateFacts, FS_Subset
    <3>3. QED
      BY <1>1, <1>4, <3>2, BlockFacts DEF InState
  <2>3. \A c \in B \ {b} : e.state[c] = "REQUESTED"
    BY <1>1, <1>4, <2>1, <2>2
  <2>4. \A c \in Block : c[1] \notin e.partial => e.state[c] = "PENDING"
    BY <1>4, <2>1
  <2>5. \A q \in e.partial : /\ q \notin m.haves \cup {p}
                             /\ e.completedBlocks[q] < NumBlocks[q]
                             /\ e.requestedBlocks[q] + e.completedBlocks[q] > 0
    <3> SUFFICES ASSUME NEW q \in e.partial
                 PROVE  /\ q \notin m.haves \cup {p}
                        /\ e.completedBlocks[q] < NumBlocks[q]
                        /\ e.requestedBlocks[q] + e.completedBlocks[q] > 0
      OBVIOUS
    <3>1. q \in w.partial \ {p} /\ q \in Index
      BY <1>2, <2>1 DEF Manager
    <3>2. /\ e.requestedBlocks[q] = w.requestedBlocks[q]
          /\ e.completedBlocks[q] = w.completedBlocks[q]
      BY <1>2, <2>1, <3>1 DEF Manager
    <3> HIDE DEF e, w
    <3>3. QED
      BY <1>3, <1>5, <3>1, <3>2
  <2>6. ASSUME NEW q \in Index
        PROVE  /\ e.requestedBlocks[q] = Cardinality(InState(e, q, "REQUESTED"))
               /\ e.completedBlocks[q] = Cardinality(InState(e, q, "DONE"))
    <3>1. BlocksOf(q) \subseteq Block /\ \A c \in BlocksOf(q) : c[1] = q
      BY BlockFacts
    <3>2. CASE q = p
      <4>1. InState(e, q, "REQUESTED") = {} /\ InState(e, q, "DONE") = {}
        BY <2>1, <3>1, <3>2 DEF InState
      <4>2. e.requestedBlocks[q] = 0 /\ e.completedBlocks[q] = 0
        BY <1>2, <2>1, <3>2 DEF Manager
      <4>3. QED
        BY <4>1, <4>2, FS_EmptySet
    <3>3. CASE q # p
      <4>1. /\ InState(e, q, "REQUESTED") = InState(w, q, "REQUESTED")
            /\ InState(e, q, "DONE") = InState(w, q, "DONE")
        BY <2>1, <3>1, <3>3 DEF InState
      <4>2. /\ e.requestedBlocks[q] = w.requestedBlocks[q]
            /\ e.completedBlocks[q] = w.completedBlocks[q]
        BY <1>2, <2>1, <3>3 DEF Manager
      <4>3. QED
        BY <1>2, <4>1, <4>2
    <3>4. QED
      BY <3>2, <3>3
  <2>7. ASSUME NEW f \in Manager, f.haves \in {m.haves, m.haves \cup {p}},
               f.partial = e.partial, f.state = e.state,
               f.requestedBlocks = e.requestedBlocks, f.completedBlocks = e.completedBlocks
        PROVE  ManagerOK(f, B \ {b})
    <3>1. \A q \in Index : \A st : InState(f, q, st) = InState(e, q, st)
      BY <2>7 DEF InState
    <3> HIDE DEF e, w
    <3>2. QED
      BY <1>1, <2>3, <2>4, <2>5, <2>6, <2>7, <3>1 DEF ManagerOK
  <2>8. CASE h
    <3>1. r = [e EXCEPT !.haves = e.haves \cup {p}]
      BY <1>7, <2>8 DEF onBlockReceived
    <3>2. /\ r \in Manager
          /\ r.haves = e.haves \cup {p} /\ r.partial = e.partial /\ r.state = e.state
          /\ r.requestedBlocks = e.requestedBlocks /\ r.completedBlocks = e.completedBlocks
      <4> HIDE DEF r, e
      <4>1. QED
        BY <1>1, <2>0, <2>1, <3>1 DEF Manager
    <3>3. QED
      BY <1>1, <1>3, <2>1, <2>7, <3>2
  <2>9. CASE ~h
    <3>1. r = e
      BY <1>7, <2>9 DEF onBlockReceived
    <3>2. QED
      BY <1>1, <1>3, <2>1, <2>7, <3>1
  <2>10. QED
    BY <2>8, <2>9
<1>8. QED
  BY <1>6, <1>7

(* getPendingBlocks selects at most `count' blocks, none of which has been *)
(* requested or received, of pieces that are not downloaded.               *)
LEMMA SelectionFacts ==
  ASSUME NEW m, NEW B, ManagerOK(m, B), NEW H, NEW count \in Nat,
         NEW R \in Selections(m, H, count)
  PROVE  /\ R \in SUBSET Block
         /\ IsFiniteSet(R)
         /\ Cardinality(R) \in Nat
         /\ Cardinality(R) <= count
         /\ \A b \in R : m.state[b] = "PENDING" /\ b[1] \notin m.haves
         /\ ~RequestThrows(m, R)
<1> DEFINE all == FromPartial(m, H) \cup FromNew(m, H)
<1>1. /\ R \subseteq all
      /\ Cardinality(R) = IF Cardinality(all) < count THEN Cardinality(all) ELSE count
  BY DEF Selections
<1>2. all \subseteq Block
  BY DEF FromPartial, FromNew
<1>3. IsFiniteSet(all) /\ IsFiniteSet(R)
  BY <1>1, <1>2, BlockFinite, FS_Subset
<1>4. Cardinality(all) \in Nat /\ Cardinality(R) \in Nat
  BY <1>3, FS_CardinalityType
<1>5. \A b \in all : m.state[b] = "PENDING" /\ b[1] \notin m.haves
  BY DEF ManagerOK, FromPartial, FromNew
<1> HIDE DEF all
<1>6. QED
  BY <1>1, <1>2, <1>3, <1>4, <1>5 DEF RequestThrows

(* Requesting the selected blocks keeps the manager consistent when they   *)
(* join the pending blocks; none of them was pending before.               *)
LEMMA RequestOK ==
  ASSUME NEW m, NEW B, ManagerOK(m, B), NEW H, NEW count \in Nat,
         NEW R \in Selections(m, H, count)
  PROVE  /\ ManagerOK(requestBlocks(m, R), B \cup R)
         /\ B \cap R = {}
         /\ requestBlocks(m, R).haves = m.haves
<1> DEFINE n == requestBlocks(m, R)
<1>1. /\ m \in Manager /\ B \subseteq Block
      /\ R \in SUBSET Block
      /\ \A b \in R : m.state[b] = "PENDING" /\ b[1] \notin m.haves
  BY SelectionFacts DEF ManagerOK
<1>2. /\ n.haves = m.haves
      /\ n.partial = m.partial \cup {b[1] : b \in R}
      /\ n.state = [b \in Block |-> IF b \in R THEN "REQUESTED" ELSE m.state[b]]
      /\ n.requestedBlocks =
              [q \in Index |-> m.requestedBlocks[q] + Cardinality(InPiece(R, q))]
      /\ n.completedBlocks = m.completedBlocks
  BY <1>1, RequestFields
<1>3. B \cap R = {}
  BY <1>1 DEF ManagerOK
<1>4. ASSUME NEW q \in Index
      PROVE  /\ InState(n, q, "REQUESTED") = InState(m, q, "REQUESTED") \cup InPiece(R, q)
             /\ InState(m, q, "REQUESTED") \cap InPiece(R, q) = {}
             /\ InState(n, q, "DONE") = InState(m, q, "DONE")
  <2>1. BlocksOf(q) \subseteq Block /\ InPiece(R, q) = R \cap BlocksOf(q)
    BY <1>1, BlockFacts, InPieceFacts
  <2>2. QED
    BY <1>1, <1>2, <2>1 DEF InState
<1>5. ASSUME NEW q \in Index
      PROVE  /\ n.requestedBlocks[q] \in Nat
             /\ n.requestedBlocks[q] >= Cardinality(InPiece(R, q))
             /\ n.requestedBlocks[q] >= m.requestedBlocks[q]
             /\ n.requestedBlocks[q] = Cardinality(InState(n, q, "REQUESTED"))
  <2> DEFINE S == InState(m, q, "REQUESTED")
             T == InPiece(R, q)
  <2>1. IsFiniteSet(S) /\ Cardinality(S) \in Nat /\ Cardinality(S) = m.requestedBlocks[q]
    BY InStateFacts DEF ManagerOK
  <2>2. IsFiniteSet(T) /\ Cardinality(T) \in Nat
    BY <1>1, InPieceFacts
  <2>3. InState(n, q, "REQUESTED") = S \cup T /\ S \cap T = {}
    BY <1>4
  <2>4. n.requestedBlocks[q] = Cardinality(S) + Cardinality(T)
    BY <1>2, <2>1
  <2> HIDE DEF S, T, n
  <2>5. Cardinality(S \cup T) = Cardinality(S) + Cardinality(T) - Cardinality(S \cap T)
    BY <2>1, <2>2, FS_Union
  <2>6. Cardinality(S \cup T) = Cardinality(S) + Cardinality(T)
    <3>1. Cardinality(S \cap T) = 0
      BY <2>3, FS_EmptySet
    <3>2. QED
      BY <2>1, <2>2, <2>5, <3>1
  <2>7. n.requestedBlocks[q] = Cardinality(InState(n, q, "REQUESTED"))
    BY <2>3, <2>4, <2>6
  <2>8. QED
    BY <2>1, <2>2, <2>4, <2>7 DEF T
<1>6. n \in Manager
  <2>1. n.state \in [Block -> BlockState]
    BY <1>1, <1>2 DEF Manager, BlockState
  <2>2. n.requestedBlocks \in [Index -> Nat]
    BY <1>2, <1>5
  <2>3. {b[1] : b \in R} \subseteq Index
    BY <1>1, BlockFacts
  <2>4. QED
    BY <1>1, <2>1, <2>2, <2>3 DEF requestBlocks, Manager
<1>7. \A b \in Block : b[1] \notin n.partial => n.state[b] = "PENDING"
  BY <1>2 DEF ManagerOK
<1>8. ASSUME NEW q \in n.partial
      PROVE  /\ q \notin n.haves
             /\ n.completedBlocks[q] < NumBlocks[q]
             /\ n.requestedBlocks[q] + n.completedBlocks[q] > 0
  <2>1. q \in Index
    BY <1>6 DEF Manager
  <2>2. /\ m.requestedBlocks[q] \in Nat /\ m.completedBlocks[q] \in Nat
        /\ n.requestedBlocks[q] \in Nat /\ n.completedBlocks[q] = m.completedBlocks[q]
    BY <1>1, <1>2, <1>5, <2>1 DEF Manager
  <2>3. CASE q \in m.partial
    <3>1. /\ q \notin m.haves
          /\ m.completedBlocks[q] < NumBlocks[q]
          /\ m.requestedBlocks[q] + m.completedBlocks[q] > 0
      BY <2>3 DEF ManagerOK
    <3> HIDE DEF n
    <3>2. QED
      BY <1>2, <1>5, <2>1, <2>2, <3>1
  <2>4. CASE q \notin m.partial
    <3>1. PICK b \in R : b[1] = q
      BY <1>2, <2>4
    <3>2. q \notin m.haves /\ b \in InPiece(R, q)
      BY <1>1, <3>1 DEF InPiece
    <3>3. Cardinality(InPiece(R, q)) # 0 /\ Cardinality(InPiece(R, q)) \in Nat
      BY <1>1, <2>1, <3>2, InPieceFacts, FS_EmptySet
    <3>4. InState(m, q, "DONE") = {}
      BY <2>1, <2>4, BlockFacts DEF ManagerOK, InState
    <3>5. m.completedBlocks[q] = 0
      BY <2>1, <3>4, FS_EmptySet DEF ManagerOK
    <3>6. NumBlocks[q] \in Nat \ {0}
      BY <2>1, NumBlocksType
    <3> HIDE DEF n
    <3>7. QED
      BY <1>2, <1>5, <2>1, <2>2, <3>2, <3>3, <3>5, <3>6
  <2>5. QED
    BY <2>3, <2>4
<1>9. \A b \in B \cup R : n.state[b] = "REQUESTED"
  BY <1>1, <1>2 DEF ManagerOK
<1>10. \A q \in Index : n.completedBlocks[q] = Cardinality(InState(n, q, "DONE"))
  BY <1>2, <1>4 DEF ManagerOK
<1>11. ManagerOK(n, B \cup R)
  <2> HIDE DEF n
  <2>1. QED
    BY <1>1, <1>5, <1>6, <1>7, <1>8, <1>9, <1>10 DEF ManagerOK
<1>12. QED
  BY <1>2, <1>3, <1>11

(* Fewer pending blocks are consistent with the same manager.              *)
LEMMA FewerPending ==
  ASSUME NEW m, NEW B, ManagerOK(m, B), NEW C \in SUBSET B
  PROVE  ManagerOK(m, C)
BY DEF ManagerOK

-----------------------------------------------------------------------------
(* All the blocks that some peer has been asked for.                       *)
Pending(P) == UNION {P[p].pending : p \in Peers}

(* The peers share no pending block, and each counts its own.              *)
PeersOK(P) ==
  /\ P \in [Peers -> Context]
  /\ \A p \in Peers : /\ P[p].backlog = Cardinality(P[p].pending)
                      /\ P[p].backlog <= MAX_BACKLOG
  /\ \A p, r \in Peers : p # r => P[p].pending \cap P[r].pending = {}

(* The inductive invariant.                                                *)
IInv == /\ PeersOK(peers)
        /\ ManagerOK(pm, Pending(peers))
        /\ scheduled \in [Pieces -> Nat]
        /\ ScheduledOnce
        /\ ThrowsForUnknownOnly

(* Replacing the context of one peer by one whose pending blocks are not   *)
(* those of another peer.                                                  *)
ContextFits(P, p, ctx) ==
  /\ ctx \in Context
  /\ ctx.backlog = Cardinality(ctx.pending)
  /\ ctx.backlog <= MAX_BACKLOG
  /\ ctx.pending \cap (Pending(P) \ P[p].pending) = {}

(* Replacing one peer's context changes its pending blocks only.           *)
LEMMA ReplacePeer ==
  ASSUME NEW P, PeersOK(P), NEW p \in Peers, NEW ctx, ContextFits(P, p, ctx)
  PROVE  /\ PeersOK([P EXCEPT ![p] = ctx])
         /\ Pending([P EXCEPT ![p] = ctx]) = (Pending(P) \ P[p].pending) \cup ctx.pending
         /\ P[p] \in Context
<1> DEFINE Q == [P EXCEPT ![p] = ctx]
<1>1. P \in [Peers -> Context] /\ Q \in [Peers -> Context]
  BY DEF PeersOK, ContextFits
<1>2. Q[p] = ctx /\ \A r \in Peers \ {p} : Q[r] = P[r]
  BY <1>1
<1>3. \A r \in Peers \ {p} : /\ P[r].pending \cap P[p].pending = {}
                             /\ P[r].pending \subseteq Pending(P)
  BY DEF PeersOK, Pending
<1>4. \A r \in Peers \ {p} : ctx.pending \cap P[r].pending = {}
  BY <1>3 DEF ContextFits
<1> HIDE DEF Q
<1>5. \A r, t \in Peers : r # t => Q[r].pending \cap Q[t].pending = {}
  BY <1>2, <1>4 DEF PeersOK
<1>6. PeersOK(Q)
  BY <1>1, <1>2, <1>5 DEF PeersOK, ContextFits
<1>7. Pending(Q) = (Pending(P) \ P[p].pending) \cup ctx.pending
  BY <1>2, <1>3 DEF Pending
<1>8. QED
  BY <1>1, <1>6, <1>7 DEF Q

(* The end of the message loop preserves the invariant: m and ctx are what *)
(* the handler of the message has left.                                    *)
LEMMA AfterMessageOK ==
  ASSUME NEW p \in Peers, NEW m, NEW ctx \in Context,
         PeersOK([peers EXCEPT ![p] = ctx]),
         ManagerOK(m, Pending([peers EXCEPT ![p] = ctx])),
         peers \in [Peers -> Context],
         AfterMessage(p, m, ctx)
  PROVE  /\ PeersOK(peers')
         /\ ManagerOK(pm', Pending(peers'))
         /\ pm'.haves = m.haves
         /\ thrown' = thrown
<1> DEFINE P == [peers EXCEPT ![p] = ctx]
<1>1. P[p] = ctx /\ P \in [Peers -> Context]
  OBVIOUS
<1>2. ctx.backlog = Cardinality(ctx.pending) /\ ctx.backlog <= MAX_BACKLOG /\ ctx.backlog \in Nat
  BY <1>1 DEF PeersOK, Context
<1>3. ctx.pending \subseteq Pending(P)
  BY <1>1 DEF Pending
<1>4. ASSUME NEW c \in {"open", "closed"}, pm' = m,
             peers' = [peers EXCEPT ![p] = [ctx EXCEPT !.conn = c]]
      PROVE  PeersOK(peers') /\ ManagerOK(pm', Pending(peers'))
  <2> DEFINE d == [ctx EXCEPT !.conn = c]
  <2>1. d \in Context /\ d.pending = ctx.pending /\ d.backlog = ctx.backlog
    BY DEF Context, Connection
  <2>2. peers' = [P EXCEPT ![p] = d]
    BY <1>4
  <2> HIDE DEF d, P
  <2>3. d.pending \cap (Pending(P) \ P[p].pending) = {}
    BY <1>1, <2>1
  <2>4. d.backlog = Cardinality(d.pending) /\ d.backlog <= MAX_BACKLOG
    BY <1>2, <2>1
  <2>5. /\ PeersOK([P EXCEPT ![p] = d])
        /\ Pending([P EXCEPT ![p] = d]) = (Pending(P) \ P[p].pending) \cup d.pending
    <3>1. PeersOK(P)
      BY DEF P
    <3>2. ContextFits(P, p, d)
      BY <2>1, <2>3, <2>4 DEF ContextFits
    <3>3. QED
      BY <3>1, <3>2, ReplacePeer
  <2>6. Pending(peers') = Pending(P)
    BY <1>1, <1>3, <2>1, <2>2, <2>5
  <2>7. QED
    BY <1>4, <2>2, <2>5, <2>6 DEF P
<1>5. ASSUME ctx.backlog < MAX_BACKLOG,
             NEW R \in Selections(m, ctx.haves, MAX_BACKLOG - ctx.backlog),
             pm' = requestBlocks(m, R),
             peers' = [peers EXCEPT ![p] = [ctx EXCEPT !.pending = @ \cup R,
                                                        !.backlog = @ + Cardinality(R)]]
      PROVE  PeersOK(peers') /\ ManagerOK(pm', Pending(peers')) /\ pm'.haves = m.haves
  <2> DEFINE d == [ctx EXCEPT !.pending = @ \cup R, !.backlog = @ + Cardinality(R)]
             count == MAX_BACKLOG - ctx.backlog
  <2>1. count \in Nat
    BY <1>2, <1>5, BacklogPositive
  <2> HIDE DEF count
  <2>2. /\ R \in SUBSET Block /\ IsFiniteSet(R)
        /\ Cardinality(R) \in Nat /\ Cardinality(R) <= count
    BY <1>5, <2>1, SelectionFacts DEF count
  <2>3. /\ ManagerOK(pm', Pending(P) \cup R)
        /\ Pending(P) \cap R = {}
        /\ pm'.haves = m.haves
    <3>1. ManagerOK(m, Pending(P)) /\ R \in Selections(m, ctx.haves, count)
      BY <1>5 DEF count
    <3> HIDE DEF P
    <3>2. QED
      BY <1>5, <2>1, <3>1, RequestOK
  <2>4. /\ d \in Context
        /\ d.pending = ctx.pending \cup R
        /\ d.backlog = ctx.backlog + Cardinality(R)
    <3>1. ctx.pending \cup R \in SUBSET Block /\ ctx.backlog + Cardinality(R) \in Nat
      BY <1>2, <2>2 DEF Context
    <3>2. QED
      BY <3>1 DEF Context
  <2>5. peers' = [P EXCEPT ![p] = d]
    BY <1>5
  <2> HIDE DEF d, P
  <2>6. d.pending \cap (Pending(P) \ P[p].pending) = {}
    BY <1>1, <2>3, <2>4
  <2>7. d.backlog = Cardinality(d.pending)
    <3>1. IsFiniteSet(ctx.pending)
      BY BlockFinite, FS_Subset DEF Context
    <3>2. Cardinality(ctx.pending \cup R)
            = Cardinality(ctx.pending) + Cardinality(R) - Cardinality(ctx.pending \cap R)
      BY <2>2, <3>1, FS_Union
    <3>3. ctx.pending \cap R = {}
      BY <1>3, <2>3
    <3>4. Cardinality(ctx.pending \cap R) = 0
      BY <3>3, FS_EmptySet
    <3>5. QED
      BY <1>2, <2>2, <2>4, <3>2, <3>4
  <2>8. d.backlog <= MAX_BACKLOG
    BY <1>2, <2>2, <2>4, BacklogPositive DEF count
  <2>9. /\ PeersOK([P EXCEPT ![p] = d])
        /\ Pending([P EXCEPT ![p] = d]) = (Pending(P) \ P[p].pending) \cup d.pending
    <3>1. PeersOK(P)
      BY DEF P
    <3>2. ContextFits(P, p, d)
      BY <2>4, <2>6, <2>7, <2>8 DEF ContextFits
    <3>3. QED
      BY <3>1, <3>2, ReplacePeer
  <2>10. Pending(peers') = Pending(P) \cup R
    BY <1>1, <1>3, <2>4, <2>5, <2>9
  <2>11. QED
    BY <2>3, <2>5, <2>9, <2>10
<1>6. ASSUME pm' = m, peers' = [peers EXCEPT ![p] = ctx]
      PROVE  PeersOK(peers') /\ ManagerOK(pm', Pending(peers'))
  BY <1>6
<1>7. ASSUME ctx.backlog < MAX_BACKLOG,
             NEW R \in Selections(m, ctx.haves, MAX_BACKLOG - ctx.backlog)
      PROVE  ~RequestThrows(m, R)
  <2>1. MAX_BACKLOG - ctx.backlog \in Nat
    BY <1>2, <1>7, BacklogPositive
  <2>2. QED
    BY <1>7, <2>1, SelectionFacts
<1>8. QED
  BY <1>4, <1>5, <1>6, <1>7 DEF AfterMessage

(* The three ways in which a handler changes the pending blocks of a peer: *)
(* not at all, by clearing them, and by taking off the one answered.       *)
LEMMA SamePending ==
  ASSUME NEW P, PeersOK(P), NEW p \in Peers, NEW ctx \in Context,
         ctx.pending = P[p].pending, ctx.backlog = P[p].backlog
  PROVE  /\ PeersOK([P EXCEPT ![p] = ctx])
         /\ Pending([P EXCEPT ![p] = ctx]) = Pending(P)
<1> DEFINE Q == [P EXCEPT ![p] = ctx]
<1>1. ContextFits(P, p, ctx)
  BY DEF PeersOK, ContextFits
<1>2. P[p].pending \subseteq Pending(P)
  BY DEF Pending
<1>3. PeersOK(Q)
  BY <1>1, ReplacePeer
<1>4. Pending(Q) = (Pending(P) \ P[p].pending) \cup ctx.pending
  BY <1>1, ReplacePeer
<1>5. QED
  BY <1>2, <1>3, <1>4

(* A peer that is reset gives back all its pending blocks.                 *)
LEMMA ClearedPending ==
  ASSUME NEW P, PeersOK(P), NEW p \in Peers, NEW ctx \in Context,
         ctx.pending = {}, ctx.backlog = 0
  PROVE  /\ PeersOK([P EXCEPT ![p] = ctx])
         /\ Pending([P EXCEPT ![p] = ctx]) = Pending(P) \ P[p].pending
<1>1. ContextFits(P, p, ctx)
  BY FS_EmptySet, BacklogPositive DEF ContextFits
<1>2. /\ PeersOK([P EXCEPT ![p] = ctx])
      /\ Pending([P EXCEPT ![p] = ctx]) = (Pending(P) \ P[p].pending) \cup ctx.pending
  BY <1>1, ReplacePeer
<1>3. QED
  BY <1>2

(* A peer that answered has one pending block less.                        *)
LEMMA AnsweredPending ==
  ASSUME PeersOK(peers), NEW p \in Peers, NEW b \in peers[p].pending
  PROVE  /\ Answered(p, b) \in Context
         /\ PeersOK([peers EXCEPT ![p] = Answered(p, b)])
         /\ Pending([peers EXCEPT ![p] = Answered(p, b)]) = Pending(peers) \ {b}
         /\ b \in Pending(peers)
<1> DEFINE ctx == Answered(p, b)
           S == peers[p].pending
<1>1. peers[p] \in Context /\ S \in SUBSET Block /\ peers[p].backlog \in Nat
  BY DEF PeersOK, Context
<1>2. IsFiniteSet(S) /\ peers[p].backlog = Cardinality(S) /\ peers[p].backlog <= MAX_BACKLOG
  BY <1>1, BlockFinite, FS_Subset DEF PeersOK
<1>3. Cardinality(S \ {b}) = Cardinality(S) - 1 /\ IsFiniteSet(S \ {b})
  BY <1>2, FS_RemoveElement
<1>4. Cardinality(S \ {b}) \in Nat
  BY <1>3, FS_CardinalityType
<1>5. ctx.pending = S \ {b} /\ ctx.backlog = peers[p].backlog - 1
  BY <1>1 DEF Answered, Context
<1>6. peers[p].backlog - 1 \in Nat /\ S \ {b} \in SUBSET Block
  BY <1>1, <1>2, <1>3, <1>4
<1>7. ctx \in Context
  BY <1>1, <1>6 DEF Answered, Context
<1>8. \A r \in Peers : r # p => b \notin peers[r].pending
  BY DEF PeersOK
<1>9. S \subseteq Pending(peers)
  BY DEF Pending
<1> HIDE DEF ctx
<1>10. ContextFits(peers, p, ctx)
  BY <1>1, <1>2, <1>3, <1>5, <1>7, BacklogPositive DEF ContextFits
<1>11. /\ PeersOK([peers EXCEPT ![p] = ctx])
       /\ Pending([peers EXCEPT ![p] = ctx]) = (Pending(peers) \ S) \cup ctx.pending
  BY <1>10, ReplacePeer
<1>12. (Pending(peers) \ S) \cup (S \ {b}) = Pending(peers) \ {b}
  BY <1>9
<1>13. QED
  BY <1>5, <1>7, <1>9, <1>11, <1>12 DEF ctx

(* The invariant holds when a download starts or is resumed.               *)
LEMMA InitOK ==
  Init => IInv
<1> SUFFICES ASSUME Init PROVE IInv
  OBVIOUS
<1>1. PICK H \in SUBSET Pieces : pm = NewManager(H)
  BY DEF Init
<1>2. /\ pm \in Manager /\ pm.partial = {} /\ pm.state = [b \in Block |-> "PENDING"]
      /\ pm.requestedBlocks = [q \in Index |-> 0]
      /\ pm.completedBlocks = [q \in Index |-> 0]
  BY <1>1 DEF NewManager, Manager, BlockState
<1>3. \A q \in Index : InState(pm, q, "REQUESTED") = {} /\ InState(pm, q, "DONE") = {}
  BY <1>2, BlockFacts DEF InState
<1>4. peers = [p \in Peers |-> NewContext]
  BY DEF Init
<1>5. NewContext \in Context /\ NewContext.pending = {} /\ NewContext.backlog = 0
  BY DEF NewContext, Context, Connection
<1>6. PeersOK(peers) /\ Pending(peers) = {}
  <2>1. \A p \in Peers : peers[p] = NewContext
    BY <1>4
  <2>2. peers \in [Peers -> Context]
    BY <1>4, <1>5
  <2>3. \A p \in Peers : peers[p].backlog = Cardinality(peers[p].pending)
                        /\ peers[p].backlog <= MAX_BACKLOG
    BY <1>5, <2>1, FS_EmptySet, BacklogPositive
  <2>4. QED
    BY <1>5, <2>1, <2>2, <2>3 DEF PeersOK, Pending
<1>7. ManagerOK(pm, {})
  BY <1>2, <1>3, FS_EmptySet DEF ManagerOK
<1>8. scheduled \in [Pieces -> Nat] /\ ScheduledOnce /\ ThrowsForUnknownOnly
  BY DEF Init, ScheduledOnce, ThrowsForUnknownOnly
<1>9. QED
  BY <1>6, <1>7, <1>8 DEF IInv

(* Every step preserves the invariant.                                     *)
LEMMA NextOK ==
  IInv /\ [Next]_vars => IInv'
<1> SUFFICES ASSUME IInv, [Next]_vars PROVE IInv'
  OBVIOUS
<1>1. /\ PeersOK(peers) /\ ManagerOK(pm, Pending(peers))
      /\ scheduled \in [Pieces -> Nat] /\ ScheduledOnce /\ ThrowsForUnknownOnly
      /\ peers \in [Peers -> Context]
  BY DEF IInv, PeersOK
<1>2. ASSUME PeersOK(peers'), ManagerOK(pm', Pending(peers')), pm'.haves = pm.haves,
             scheduled' = scheduled, thrown' = "none"
      PROVE  IInv'
  BY <1>1, <1>2 DEF IInv, ScheduledOnce, ManagerOK, PeersOK, Pending, ThrowsForUnknownOnly
<1>3. ASSUME UNCHANGED vars PROVE IInv'
  BY <1>1, <1>3 DEF vars, IInv, ScheduledOnce, ManagerOK, PeersOK, Pending, ThrowsForUnknownOnly,
                    InState
(* A handler that leaves m and ctx, with the same pending blocks.          *)
<1>4. ASSUME NEW p \in Peers, NEW ctx \in Context, AfterMessage(p, pm, ctx),
             ctx.pending = peers[p].pending, ctx.backlog = peers[p].backlog,
             UNCHANGED scheduled, thrown = "none"
      PROVE  IInv'
  <2>1. /\ PeersOK([peers EXCEPT ![p] = ctx])
        /\ Pending([peers EXCEPT ![p] = ctx]) = Pending(peers)
    BY <1>1, <1>4, SamePending
  <2>2. ManagerOK(pm, Pending([peers EXCEPT ![p] = ctx]))
    BY <1>1, <2>1
  <2>3. /\ PeersOK(peers') /\ ManagerOK(pm', Pending(peers')) /\ pm'.haves = pm.haves
        /\ thrown' = thrown
    BY <1>1, <1>4, <2>1, <2>2, AfterMessageOK
  <2>4. QED
    BY <1>1, <1>2, <1>4, <2>3
(* A step that changes only the state of a connection.                     *)
<1>5. ASSUME NEW p \in Peers, NEW ctx \in Context, peers' = [peers EXCEPT ![p] = ctx],
             ctx.pending = peers[p].pending, ctx.backlog = peers[p].backlog,
             UNCHANGED <<pm, scheduled, thrown>>, thrown = "none"
      PROVE  IInv'
  <2>1. PeersOK(peers') /\ Pending(peers') = Pending(peers)
    BY <1>1, <1>5, SamePending
  <2>2. QED
    BY <1>1, <1>2, <1>5, <2>1
(* What clearing the pending blocks of a peer does to the manager.         *)
<1>6. ASSUME NEW p \in Peers, NEW ctx \in Context, ctx.pending = {}, ctx.backlog = 0
      PROVE  /\ PeersOK([peers EXCEPT ![p] = ctx])
             /\ ManagerOK(onPeerReset(pm, peers[p].pending),
                          Pending([peers EXCEPT ![p] = ctx]))
             /\ onPeerReset(pm, peers[p].pending).haves = pm.haves
             /\ ~ResetThrows(pm, peers[p].pending)
  <2>1. peers[p].pending \in SUBSET Pending(peers)
    BY DEF Pending
  <2>2. /\ ManagerOK(onPeerReset(pm, peers[p].pending), Pending(peers) \ peers[p].pending)
        /\ onPeerReset(pm, peers[p].pending).haves = pm.haves
        /\ ~ResetThrows(pm, peers[p].pending)
    BY <1>1, <2>1, ResetOK
  <2>3. /\ PeersOK([peers EXCEPT ![p] = ctx])
        /\ Pending([peers EXCEPT ![p] = ctx]) = Pending(peers) \ peers[p].pending
    BY <1>1, <1>6, ClearedPending
  <2>4. QED
    BY <2>2, <2>3
<1>7. ASSUME NEW p \in Peers, Handshake(p) PROVE IInv'
  <2> DEFINE ctx == [peers[p] EXCEPT !.conn = "open"]
  <2>1. ctx \in Context /\ ctx.pending = peers[p].pending /\ ctx.backlog = peers[p].backlog
    BY <1>1 DEF Context, Connection
  <2>2. /\ peers' = [peers EXCEPT ![p] = ctx] /\ UNCHANGED <<pm, scheduled, thrown>>
        /\ thrown = "none"
    BY <1>1, <1>7 DEF Handshake
  <2> HIDE DEF ctx
  <2>3. QED
    BY <1>5, <2>1, <2>2
<1>8. ASSUME NEW p \in Peers, NEW q \in Index, handleHave(p, q) PROVE IInv'
  <2> DEFINE ctx == [peers[p] EXCEPT !.haves = @ \cup {q}]
  <2>1. ctx \in Context /\ ctx.pending = peers[p].pending /\ ctx.backlog = peers[p].backlog
    BY <1>1 DEF Context
  <2>2. AfterMessage(p, pm, ctx) /\ UNCHANGED scheduled /\ thrown = "none"
    BY <1>8 DEF handleHave, Running
  <2> HIDE DEF ctx
  <2>3. QED
    BY <1>4, <2>1, <2>2
<1>9. ASSUME NEW p \in Peers, NEW H \in SUBSET (Pieces \cup Spare), handleBitfield(p, H) PROVE IInv'
  <2> DEFINE ctx == [peers[p] EXCEPT !.haves = H]
  <2>1. ctx \in Context /\ ctx.pending = peers[p].pending /\ ctx.backlog = peers[p].backlog
    BY <1>1 DEF Context, Index
  <2>2. AfterMessage(p, pm, ctx) /\ UNCHANGED scheduled /\ thrown = "none"
    BY <1>9 DEF handleBitfield, Running
  <2> HIDE DEF ctx
  <2>3. QED
    BY <1>4, <2>1, <2>2
<1>10. ASSUME NEW p \in Peers, handleUnchoke(p) PROVE IInv'
  <2> DEFINE ctx == [peers[p] EXCEPT !.choked = FALSE]
  <2>1. ctx \in Context /\ ctx.pending = peers[p].pending /\ ctx.backlog = peers[p].backlog
    BY <1>1 DEF Context
  <2>2. AfterMessage(p, pm, ctx) /\ UNCHANGED scheduled /\ thrown = "none"
    BY <1>10 DEF handleUnchoke, Running
  <2> HIDE DEF ctx
  <2>3. QED
    BY <1>4, <2>1, <2>2
<1>11. ASSUME NEW p \in Peers, handleChoke(p) PROVE IInv'
  <2> DEFINE ctx == [Cleared(peers[p]) EXCEPT !.choked = TRUE]
             m == onPeerReset(pm, peers[p].pending)
  <2>1. ctx \in Context /\ ctx.pending = {} /\ ctx.backlog = 0
    BY <1>1 DEF Context, Cleared
  <2>2. \/ ResetThrows(pm, peers[p].pending)
        \/ AfterMessage(p, m, ctx) /\ UNCHANGED scheduled
    BY <1>11 DEF handleChoke
  <2>9. thrown = "none"
    BY <1>11 DEF handleChoke, Running
  <2> HIDE DEF ctx
  <2>3. /\ PeersOK([peers EXCEPT ![p] = ctx])
        /\ ManagerOK(m, Pending([peers EXCEPT ![p] = ctx]))
        /\ m.haves = pm.haves
        /\ ~ResetThrows(pm, peers[p].pending)
    BY <1>6, <2>1
  <2> HIDE DEF m
  <2>4. /\ PeersOK(peers') /\ ManagerOK(pm', Pending(peers')) /\ pm'.haves = m.haves
        /\ thrown' = thrown
    BY <1>1, <2>1, <2>2, <2>3, AfterMessageOK
  <2>6. QED
    BY <1>2, <2>2, <2>3, <2>4, <2>9
<1>12. ASSUME NEW p \in Peers, DropBlock(p) PROVE IInv'
  <2>1. AfterMessage(p, pm, peers[p]) /\ UNCHANGED scheduled /\ thrown = "none"
    BY <1>12 DEF DropBlock, Running
  <2>2. QED
    BY <1>1, <1>4, <2>1
<1>13. ASSUME NEW p \in Peers, NEW b \in Block, RejectBlock(p, b) PROVE IInv'
  <2> DEFINE ctx == Answered(p, b)
  <2>1. /\ b \in peers[p].pending /\ AfterMessage(p, pm, ctx)
        /\ UNCHANGED scheduled /\ thrown = "none"
    BY <1>13 DEF RejectBlock, Running
  <2>2. /\ ctx \in Context
        /\ PeersOK([peers EXCEPT ![p] = ctx])
        /\ Pending([peers EXCEPT ![p] = ctx]) = Pending(peers) \ {b}
    BY <1>1, <2>1, AnsweredPending
  <2> HIDE DEF ctx
  <2>3. ManagerOK(pm, Pending([peers EXCEPT ![p] = ctx]))
    BY <1>1, <2>2, FewerPending
  <2>4. /\ PeersOK(peers') /\ ManagerOK(pm', Pending(peers')) /\ pm'.haves = pm.haves
        /\ thrown' = thrown
    BY <1>1, <2>1, <2>2, <2>3, AfterMessageOK
  <2>5. QED
    BY <1>1, <1>2, <2>1, <2>4
<1>14. ASSUME NEW p \in Peers, NEW b \in Block, NEW h \in BOOLEAN, AcceptBlock(p, b, h)
       PROVE  IInv'
  <2> DEFINE ctx == Answered(p, b)
             m == onBlockReceived(pm, b, h)
  <2>1. b \in peers[p].pending /\ thrown = "none"
    BY <1>14 DEF AcceptBlock, Running
  <2>2. /\ ctx \in Context
        /\ PeersOK([peers EXCEPT ![p] = ctx])
        /\ Pending([peers EXCEPT ![p] = ctx]) = Pending(peers) \ {b}
        /\ b \in Pending(peers)
    BY <1>1, <2>1, AnsweredPending
  <2>3. b[1] \in pm.partial /\ b[1] \in Index
    BY <1>1, <2>2, PendingIsPartial
  <2>4. CASE HashThrows(pm, b)
    <3>1. UNCHANGED <<pm, peers, scheduled>> /\ thrown' = "hash"
      BY <1>14, <2>3, <2>4 DEF AcceptBlock, Throw
    <3>2. b[1] \notin Pieces /\ writeBlock(pm, b).completedBlocks[b[1]] = NumBlocks[b[1]]
      BY <2>4 DEF HashThrows, PieceComplete
    <3>3. pm.completedBlocks[b[1]] + 1 = NumBlocks[b[1]]
      <4>1. pm \in Manager /\ pm.completedBlocks \in [Index -> Nat]
        BY <1>1 DEF ManagerOK, Manager
      <4>2. writeBlock(pm, b).completedBlocks
              = [pm.completedBlocks EXCEPT ![b[1]] = pm.completedBlocks[b[1]] + 1]
        BY <4>1, WriteFields
      <4>3. QED
        BY <2>3, <3>2, <4>1, <4>2
    <3>4. ThrowsForUnknownOnly'
      BY <2>3, <3>1, <3>2, <3>3 DEF ThrowsForUnknownOnly
    <3>5. /\ PeersOK(peers') /\ ManagerOK(pm', Pending(peers'))
          /\ scheduled' \in [Pieces -> Nat] /\ ScheduledOnce'
      BY <1>1, <3>1 DEF ScheduledOnce
    <3>6. QED
      BY <3>4, <3>5 DEF IInv, PeersOK, Pending, ManagerOK
  <2>5. CASE ~HashThrows(pm, b)
    <3>1. /\ AfterMessage(p, m, ctx)
          /\ scheduled' = [q \in Pieces |-> IF q = b[1] /\ q \in m.haves
                                            THEN scheduled[q] + 1 ELSE scheduled[q]]
      BY <1>14, <2>3, <2>5 DEF AcceptBlock
    <3>2. /\ ManagerOK(m, Pending(peers) \ {b})
          /\ b[1] \notin pm.haves
          /\ m.haves \in {pm.haves, pm.haves \cup {b[1]}}
      BY <1>1, <2>2, <2>5, ReceivedOK
    <3> HIDE DEF ctx, m
    <3>3. ManagerOK(m, Pending([peers EXCEPT ![p] = ctx]))
      BY <2>2, <3>2
    <3>4. /\ PeersOK(peers') /\ ManagerOK(pm', Pending(peers')) /\ pm'.haves = m.haves
          /\ thrown' = thrown
      BY <1>1, <2>2, <3>1, <3>3, AfterMessageOK
    <3>5. scheduled' \in [Pieces -> Nat] /\ ScheduledOnce'
      <4>1. b[1] \in Pieces => scheduled[b[1]] = 0
        BY <1>1, <3>2 DEF ScheduledOnce
      <4>2. \A q \in Pieces : scheduled'[q] = IF q = b[1] /\ q \in m.haves THEN 1 ELSE scheduled[q]
        BY <1>1, <3>1, <4>1
      <4>3. QED
        BY <1>1, <3>1, <3>2, <3>4, <4>1, <4>2 DEF ScheduledOnce
    <3>6. QED
      BY <2>1, <3>4, <3>5 DEF IInv, PeersOK, Pending, ManagerOK, ThrowsForUnknownOnly
  <2>6. QED
    BY <2>4, <2>5
<1>15. ASSUME NEW p \in Peers, ClosePeer(p) PROVE IInv'
  <2> DEFINE ctx == [peers[p] EXCEPT !.conn = "closed"]
  <2>1. ctx \in Context /\ ctx.pending = peers[p].pending /\ ctx.backlog = peers[p].backlog
    BY <1>1 DEF Context, Connection
  <2>2. /\ peers' = [peers EXCEPT ![p] = ctx] /\ UNCHANGED <<pm, scheduled, thrown>>
        /\ thrown = "none"
    BY <1>1, <1>15 DEF ClosePeer
  <2> HIDE DEF ctx
  <2>3. QED
    BY <1>5, <2>1, <2>2
<1>16. ASSUME NEW p \in Peers, ResetIdlePeer(p) PROVE IInv'
  <2> DEFINE ctx == Cleared(peers[p])
  <2>1. ctx \in Context /\ ctx.pending = {} /\ ctx.backlog = 0
    BY <1>1 DEF Context, Cleared
  <2>2. \/ ResetThrows(pm, peers[p].pending)
        \/ /\ peers' = [peers EXCEPT ![p] = ctx] /\ UNCHANGED <<scheduled, thrown>>
           /\ pm' = onPeerReset(pm, peers[p].pending)
    BY <1>1, <1>16 DEF ResetIdlePeer
  <2> HIDE DEF ctx
  <2>3. /\ PeersOK(peers') /\ ManagerOK(pm', Pending(peers')) /\ pm'.haves = pm.haves
        /\ ~ResetThrows(pm, peers[p].pending)
    BY <1>6, <2>1, <2>2
  <2>4. thrown = "none"
    BY <1>16 DEF ResetIdlePeer, Running
  <2>5. QED
    BY <1>2, <2>2, <2>3, <2>4
<1>17. ASSUME NEW p \in Peers, DropPeer(p) PROVE IInv'
  <2> DEFINE ctx == [Cleared(peers[p]) EXCEPT !.conn = "dropped"]
  <2>1. ctx \in Context /\ ctx.pending = {} /\ ctx.backlog = 0
    BY <1>1 DEF Context, Cleared, Connection
  <2>2. \/ ResetThrows(pm, peers[p].pending)
        \/ /\ peers' = [peers EXCEPT ![p] = ctx] /\ UNCHANGED <<scheduled, thrown>>
           /\ pm' = onPeerReset(pm, peers[p].pending)
    BY <1>1, <1>17 DEF DropPeer
  <2> HIDE DEF ctx
  <2>3. /\ PeersOK(peers') /\ ManagerOK(pm', Pending(peers')) /\ pm'.haves = pm.haves
        /\ ~ResetThrows(pm, peers[p].pending)
    BY <1>6, <2>1, <2>2
  <2>4. thrown = "none"
    BY <1>17 DEF DropPeer, Running
  <2>5. QED
    BY <1>2, <2>2, <2>3, <2>4
(* Whatever it had pending stays REQUESTED and has no owner any more.       *)
<1>18. ASSUME NEW p \in Peers, ReconnectPeer(p) PROVE IInv'
  <2>1. /\ NewContext \in Context /\ NewContext.pending = {} /\ NewContext.backlog = 0
        /\ peers' = [peers EXCEPT ![p] = NewContext] /\ UNCHANGED <<pm, scheduled, thrown>>
        /\ thrown = "none"
    BY <1>18 DEF ReconnectPeer, NewContext, Context, Connection
  <2>2. PeersOK(peers') /\ Pending(peers') = Pending(peers) \ peers[p].pending
    BY <1>1, <2>1, ClearedPending
  <2>3. ManagerOK(pm', Pending(peers'))
    BY <1>1, <2>1, <2>2, FewerPending
  <2>4. QED
    BY <1>1, <1>2, <2>1, <2>2, <2>3
<1>19. QED
  BY <1>3, <1>7, <1>8, <1>9, <1>10, <1>11, <1>12, <1>13, <1>14, <1>15, <1>16, <1>17, <1>18
  DEF Next, Step, Ended

-----------------------------------------------------------------------------
(* What the invariant says, in the terms of PieceManager.                  *)
LEMMA IInvImplies ==
  IInv => TypeOK /\ ThrowsForUnknownOnly /\ SingleOwner /\ BooksExact
<1> SUFFICES ASSUME IInv
             PROVE  TypeOK /\ ThrowsForUnknownOnly /\ SingleOwner /\ BooksExact
  OBVIOUS
<1>1. PeersOK(peers) /\ ManagerOK(pm, Pending(peers)) /\ ThrowsForUnknownOnly
      /\ scheduled \in [Pieces -> Nat]
  BY DEF IInv
<1>2. TypeOK
  BY <1>1 DEF TypeOK, PeersOK, ManagerOK, ThrowsForUnknownOnly, Exception
<1>3. SingleOwner
  <2>1. ASSUME NEW p \in Peers, NEW b \in peers[p].pending
        PROVE  b[1] \in pm.partial /\ pm.state[b] = "REQUESTED"
    <3>1. b \in Pending(peers)
      BY DEF Pending
    <3>2. QED
      BY <1>1, <3>1, PendingIsPartial DEF ManagerOK
  <2>2. QED
    BY <1>1, <2>1 DEF SingleOwner, PeersOK
<1>4. CountersExact
  <2>1. ASSUME NEW q \in Index, q \notin pm.partial
        PROVE  InState(pm, q, "PENDING") = BlocksOf(q)
    BY <1>1, <2>1, BlockFacts DEF ManagerOK, InState
  <2>2. QED
    BY <1>1, <2>1 DEF CountersExact, ManagerOK
<1>5. QED
  BY <1>1, <1>2, <1>3, <1>4 DEF BooksExact, PartialInProgress, BacklogExact, PeersOK, ManagerOK

(* The inductive invariant holds in every reachable state.                 *)
THEOREM InductiveInvariant ==
  Spec => []IInv
BY InitOK, NextOK, PTL DEF Spec

(* The counters of the pieces, unsigned in the code, never underflow, and  *)
(* every other variable keeps its type.                                    *)
THEOREM TypeCorrect ==
  Spec => []TypeOK
BY InductiveInvariant, IInvImplies, PTL

(* No sequence of messages, time-outs and disconnections makes the manager *)
(* look up a partial piece it has erased or request a block that is not    *)
(* PENDING: of its three exceptions only that of getPieceHash is thrown,   *)
(* for a piece that the torrent does not have.                             *)
THEOREM OnlyUnknownPiecesThrow ==
  Spec => []ThrowsForUnknownOnly
BY InductiveInvariant, IInvImplies, PTL

(* The pieces for which memory is newly taken are pieces the peer named.   *)
LEMMA AfterMessagePartial ==
  ASSUME NEW p \in Peers, NEW m \in Manager, NEW ctx \in Context,
         peers \in [Peers -> Context], AfterMessage(p, m, ctx)
  PROVE  pm'.partial \subseteq m.partial \cup peers'[p].haves
<1>1. peers'[p].haves = ctx.haves
  BY DEF AfterMessage, Context
<1>2. CASE pm' = m
  BY <1>2
<1>3. ASSUME NEW R \in Selections(m, ctx.haves, MAX_BACKLOG - ctx.backlog),
             pm' = requestBlocks(m, R)
      PROVE  pm'.partial \subseteq m.partial \cup ctx.haves
  <2>1. R \subseteq FromPartial(m, ctx.haves) \cup FromNew(m, ctx.haves)
    BY DEF Selections
  <2>2. \A b \in R : b[1] \in ctx.haves
    BY <2>1 DEF FromPartial, FromNew
  <2>3. pm'.partial = m.partial \cup {b[1] : b \in R}
    BY <1>3, RequestFields
  <2>4. QED
    BY <2>2, <2>3
<1>4. QED
  BY <1>1, <1>2, <1>3 DEF AfterMessage

(* While the peers name only pieces of the torrent, nothing is thrown.     *)
THEOREM ManagerNeverThrows ==
  Spec /\ [](\A p \in Peers : peers[p].haves \subseteq Pieces) => []NoThrow
<1> DEFINE Named == \A p \in Peers : peers[p].haves \subseteq Pieces
           J == pm.partial \subseteq Pieces
<1>1. Init => J
  BY DEF Init, NewManager
<1>2. IInv /\ Named /\ Named' /\ J /\ [Next]_vars => J'
  <2> SUFFICES ASSUME IInv, Named, Named', J, [Next]_vars PROVE J'
    OBVIOUS
  <2>1. pm \in Manager /\ peers \in [Peers -> Context]
    BY DEF IInv, ManagerOK, PeersOK
  <2>2. CASE pm'.partial \subseteq pm.partial
    BY <2>2
  <2>3. ASSUME NEW p \in Peers, NEW m \in Manager, m.partial \subseteq pm.partial,
               NEW ctx \in Context, AfterMessage(p, m, ctx)
        PROVE  J'
    BY <2>1, <2>3, AfterMessagePartial
  <2>4. ASSUME NEW p \in Peers
        PROVE  onPeerReset(pm, peers[p].pending).partial \subseteq pm.partial
    <3>1. onPeerReset(pm, peers[p].pending).partial = pm.partial \ EmptiedBy(pm, peers[p].pending)
      BY <2>1, ResetFields
    <3>2. QED
      BY <3>1
  <2>5. ASSUME NEW p \in Peers, Step(p) PROVE J'
    <3>1. /\ \A q \in Index : [peers[p] EXCEPT !.haves = @ \cup {q}] \in Context
          /\ \A H \in SUBSET (Pieces \cup Spare) : [peers[p] EXCEPT !.haves = H] \in Context
          /\ [peers[p] EXCEPT !.choked = FALSE] \in Context
          /\ [Cleared(peers[p]) EXCEPT !.choked = TRUE] \in Context
          /\ \A b \in peers[p].pending : Answered(p, b) \in Context
      <4>1. \A b \in peers[p].pending : Answered(p, b) \in Context
        BY AnsweredPending DEF IInv
      <4>2. QED
        BY <2>1, <4>1 DEF Context, Cleared, Index
    <3>2. CASE \/ Handshake(p) \/ ClosePeer(p) \/ ReconnectPeer(p)
      BY <3>2, <2>2 DEF Handshake, ClosePeer, ReconnectPeer
    <3>3. CASE ResetIdlePeer(p) \/ DropPeer(p)
      BY <3>3, <2>2, <2>4 DEF ResetIdlePeer, DropPeer, Throw
    <3>4. CASE \E q \in Index : handleHave(p, q)
      BY <2>1, <2>3, <3>1, <3>4 DEF handleHave
    <3>5. CASE \E H \in SUBSET (Pieces \cup Spare) : handleBitfield(p, H)
      BY <2>1, <2>3, <3>1, <3>5 DEF handleBitfield
    <3>6. CASE handleUnchoke(p)
      BY <2>1, <2>3, <3>1, <3>6 DEF handleUnchoke
    <3>7. CASE handleChoke(p)
      <4>1. CASE UNCHANGED pm
        BY <4>1, <2>2
      <4>2. CASE ~UNCHANGED pm
        <5>1. AfterMessage(p, onPeerReset(pm, peers[p].pending),
                           [Cleared(peers[p]) EXCEPT !.choked = TRUE])
          BY <3>7, <4>2 DEF handleChoke, Throw
        <5>2. onPeerReset(pm, peers[p].pending) \in Manager
          <6>1. peers[p].pending \in SUBSET Pending(peers)
            BY DEF Pending
          <6>2. ManagerOK(pm, Pending(peers))
            BY DEF IInv
          <6>3. ManagerOK(onPeerReset(pm, peers[p].pending), Pending(peers) \ peers[p].pending)
            BY <6>1, <6>2, ResetOK
          <6>4. QED
            BY <6>3 DEF ManagerOK
        <5>3. QED
          BY <2>3, <2>4, <3>1, <5>1, <5>2
      <4>3. QED
        BY <4>1, <4>2
    <3>8. CASE DropBlock(p) \/ \E b \in Block : RejectBlock(p, b)
      BY <2>1, <2>3, <3>1, <3>8 DEF DropBlock, RejectBlock
    <3>9. ASSUME NEW b \in Block, NEW h \in BOOLEAN, AcceptBlock(p, b, h) PROVE J'
      <4>1. CASE UNCHANGED pm
        BY <4>1, <2>2
      <4>2. CASE ~UNCHANGED pm
        <5> DEFINE m == onBlockReceived(pm, b, h)
                   w == writeBlock(pm, b)
        <5>1. /\ b \in peers[p].pending /\ ~HashThrows(pm, b)
              /\ AfterMessage(p, m, Answered(p, b))
          BY <3>9, <4>2 DEF AcceptBlock, Throw
        <5>2. b \in Pending(peers)
          BY <5>1 DEF Pending
        <5>3. m \in Manager /\ w \in Manager /\ w.partial = pm.partial
          BY <2>1, <5>1, <5>2, ReceivedOK, WriteOK, WriteFields DEF IInv, ManagerOK
        <5>4. m.partial \subseteq pm.partial
          <6>1. ErasePiece(w, b[1]).partial = w.partial \ {b[1]} /\ ErasePiece(w, b[1]) \in Manager
            BY <5>3, EraseFields
          <6>2. [ErasePiece(w, b[1]) EXCEPT !.haves = @ \cup {b[1]}].partial = ErasePiece(w, b[1]).partial
            BY <6>1 DEF Manager
          <6>3. QED
            BY <5>3, <6>1, <6>2 DEF onBlockReceived
        <5>5. QED
          BY <2>3, <3>1, <5>1, <5>3, <5>4
      <4>3. QED
        BY <4>1, <4>2
    <3>10. QED
      BY <2>5, <3>2, <3>3, <3>4, <3>5, <3>6, <3>7, <3>8, <3>9 DEF Step
  <2>6. CASE Ended \/ UNCHANGED vars
    BY <2>2, <2>6 DEF Ended, vars
  <2>7. QED
    BY <2>5, <2>6 DEF Next
<1>3. IInv /\ J => NoThrow
  BY DEF IInv, ThrowsForUnknownOnly, NoThrow
<1>4. QED
  BY <1>1, <1>2, <1>3, InductiveInvariant, PTL DEF Spec

(* No block is ever requested from two peers at the same time, and a block *)
(* that a peer still owes is REQUESTED in a partial piece.                 *)
THEOREM BlocksHaveOneOwner ==
  Spec => []SingleOwner
BY InductiveInvariant, IInvImplies, PTL

(* The counters by which a piece is completed or erased are exact, a       *)
(* partial piece is in progress, and the throttle of a peer is exact.      *)
THEOREM BookkeepingExact ==
  Spec => []BooksExact
BY InductiveInvariant, IInvImplies, PTL

(* No piece is handed to the disk writer twice.                            *)
THEOREM PiecesScheduledOnce ==
  Spec => []ScheduledOnce
<1>1. IInv => ScheduledOnce
  BY DEF IInv
<1>2. QED
  BY <1>1, InductiveInvariant, PTL

-----------------------------------------------------------------------------
(* What a step makes of the blocks that have been received.                *)

(* Of the blocks outside S, none that m has received is lost in n.         *)
KeepsDone(m, n, S) ==
  \A b \in Block \ S : m.state[b] = "DONE" => n.state[b] = "DONE"

(* onPeerReset touches requested blocks only.                              *)
LEMMA ResetKeepsDone ==
  ASSUME NEW m, NEW B, ManagerOK(m, B), NEW C \in SUBSET B
  PROVE  KeepsDone(m, onPeerReset(m, C), {})
<1>1. m \in Manager /\ \A b \in C : m.state[b] = "REQUESTED"
  BY DEF ManagerOK
<1>2. \A b \in Block : onPeerReset(m, C).state[b] = IF b \in C THEN "PENDING" ELSE m.state[b]
  BY <1>1 DEF onPeerReset, Manager
<1> QED
  BY <1>1, <1>2 DEF KeepsDone

(* The requests that follow a message are for blocks nobody has sent.      *)
LEMMA AfterMessageKeepsDone ==
  ASSUME NEW p \in Peers, NEW m, NEW B, ManagerOK(m, B), NEW ctx \in Context,
         AfterMessage(p, m, ctx)
  PROVE  KeepsDone(m, pm', {})
<1>1. CASE pm' = m
  BY <1>1 DEF KeepsDone
<1>2. CASE pm' # m
  <2>1. PICK R \in Selections(m, ctx.haves, MAX_BACKLOG - ctx.backlog) : pm' = requestBlocks(m, R)
    BY <1>2 DEF AfterMessage
  <2>2. MAX_BACKLOG - ctx.backlog \in Nat
    <3>1. ctx.backlog \in Nat /\ ctx.backlog < MAX_BACKLOG
      BY <1>2 DEF AfterMessage, Context
    <3> QED
      BY <3>1, BacklogPositive
  <2>3. \A b \in R : m.state[b] = "PENDING"
    BY <2>1, <2>2, SelectionFacts
  <2>4. \A b \in Block : pm'.state[b] = IF b \in R THEN "REQUESTED" ELSE m.state[b]
    BY <2>1 DEF requestBlocks, Manager, ManagerOK
  <2> QED
    BY <2>3, <2>4 DEF KeepsDone
<1> QED
  BY <1>1, <1>2

(* A block that arrives costs received blocks only when it is the last one *)
(* missing of its piece, and only those of that piece.                     *)
LEMMA ReceivedKeepsDone ==
  ASSUME NEW m, NEW B, ManagerOK(m, B), NEW b \in B, NEW h \in BOOLEAN
  PROVE  \/ KeepsDone(m, onBlockReceived(m, b, h), {})
         \/ /\ KeepsDone(m, onBlockReceived(m, b, h), BlocksOf(b[1]))
            /\ \A c \in BlocksOf(b[1]) : c = b \/ m.state[c] = "DONE"
<1> DEFINE w == writeBlock(m, b)
           e == ErasePiece(w, b[1])
           r == onBlockReceived(m, b, h)
           q == b[1]
<1>1. m \in Manager /\ b \in Block /\ q \in Index
  BY BlockFacts DEF ManagerOK
<1>2. w \in Manager /\ w.completedBlocks[q] = Cardinality(InState(w, q, "DONE"))
  BY <1>1, WriteOK
<1>3. w.state = [m.state EXCEPT ![b] = "DONE"] /\ m.state \in [Block -> BlockState]
  BY <1>1, WriteFields DEF Manager
<1>4. CASE ~PieceComplete(w, q)
  <2>1. r = w
    BY <1>4 DEF onBlockReceived
  <2>2. KeepsDone(m, w, {})
    BY <1>1, <1>3 DEF KeepsDone
  <2> QED
    BY <2>1, <2>2
<1>5. CASE PieceComplete(w, q)
  <2>1. \A c \in Block : e.state[c] = IF c[1] = q THEN "PENDING" ELSE w.state[c]
    BY <1>2 DEF ErasePiece, Manager
  <2>2. r.state = e.state
    <3>1. r = e \/ r = [e EXCEPT !.haves = @ \cup {q}]
      BY <1>5 DEF onBlockReceived
    <3>2. [e EXCEPT !.haves = @ \cup {q}].state = e.state
      BY <1>2 DEF ErasePiece, Manager
    <3> QED
      BY <3>1, <3>2
  <2>3. KeepsDone(m, r, BlocksOf(q))
    BY <1>1, <1>3, <2>1, <2>2, BlockFacts DEF KeepsDone
  <2>4. InState(w, q, "DONE") = BlocksOf(q)
    <3>1. Cardinality(InState(w, q, "DONE")) = Cardinality(BlocksOf(q))
      BY <1>1, <1>2, <1>5, BlocksOfFinite DEF PieceComplete
    <3> QED
      BY <1>1, <3>1, BlocksOfFinite, InStateFacts, FS_Subset
  <2>5. \A c \in BlocksOf(q) : c = b \/ m.state[c] = "DONE"
    BY <1>1, <1>3, <2>4, BlockFacts DEF InState
  <2> QED
    BY <2>3, <2>5
<1> QED
  BY <1>4, <1>5

(* Of what a step does to the received blocks.                             *)
Lost(b) == pm.state[b] = "DONE" /\ pm'.state[b] # "DONE"

(* A block that is lost was lost with its whole piece, which was complete  *)
(* but for pending blocks.                                                 *)
LEMMA StepKeepsDone ==
  ASSUME IInv, [Next]_vars, NEW b \in Block, Lost(b)
  PROVE  \A c \in BlocksOf(b[1]) : pm.state[c] = "DONE" \/ \E p \in Peers : c \in peers[p].pending
<1>1. /\ PeersOK(peers) /\ ManagerOK(pm, Pending(peers))
      /\ peers \in [Peers -> Context]
  BY DEF IInv, PeersOK
<1>2. ~KeepsDone(pm, pm', {})
  BY DEF Lost, KeepsDone
<1>3. \A p \in Peers : peers[p].pending \in SUBSET Pending(peers)
  BY DEF Pending
<1>4. ASSUME NEW p \in Peers, NEW ctx \in Context, AfterMessage(p, pm, ctx)
      PROVE  FALSE
  BY <1>1, <1>2, <1>4, AfterMessageKeepsDone
<1>5. ASSUME pm' = pm PROVE FALSE
  BY <1>5 DEF Lost
<1>6. \A p \in Peers : KeepsDone(pm, onPeerReset(pm, peers[p].pending), {})
  BY <1>1, <1>3, ResetKeepsDone
<1>7. ASSUME NEW p \in Peers, Handshake(p) \/ ClosePeer(p) \/ ReconnectPeer(p) PROVE FALSE
  BY <1>5, <1>7 DEF Handshake, ClosePeer, ReconnectPeer
<1>8. ASSUME NEW p \in Peers, NEW q \in Index, handleHave(p, q) PROVE FALSE
  <2>1. [peers[p] EXCEPT !.haves = @ \cup {q}] \in Context
    BY <1>1 DEF Context
  <2> QED
    BY <1>4, <1>8, <2>1 DEF handleHave
<1>9. ASSUME NEW p \in Peers, NEW H \in SUBSET (Pieces \cup Spare), handleBitfield(p, H) PROVE FALSE
  <2>1. [peers[p] EXCEPT !.haves = H] \in Context
    BY <1>1 DEF Context, Index
  <2> QED
    BY <1>4, <1>9, <2>1 DEF handleBitfield
<1>10. ASSUME NEW p \in Peers, handleUnchoke(p) PROVE FALSE
  <2>1. [peers[p] EXCEPT !.choked = FALSE] \in Context
    BY <1>1 DEF Context
  <2> QED
    BY <1>4, <1>10, <2>1 DEF handleUnchoke
<1>11. ASSUME NEW p \in Peers, DropBlock(p) \/ \E c \in Block : RejectBlock(p, c) PROVE FALSE
  <2>1. peers[p] \in Context /\ \A c \in peers[p].pending : Answered(p, c) \in Context
    BY <1>1, AnsweredPending
  <2> QED
    BY <1>4, <1>11, <2>1 DEF DropBlock, RejectBlock
<1>12. ASSUME NEW p \in Peers, ResetIdlePeer(p) \/ DropPeer(p) PROVE FALSE
  BY <1>2, <1>5, <1>6, <1>12 DEF ResetIdlePeer, DropPeer, Throw
<1>13. ASSUME NEW p \in Peers, handleChoke(p) PROVE FALSE
  <2>1. PICK m : m = onPeerReset(pm, peers[p].pending)
    OBVIOUS
  <2>2. PICK ctx : ctx = [Cleared(peers[p]) EXCEPT !.choked = TRUE]
    OBVIOUS
  <2>3. ctx \in Context
    BY <1>1, <2>2 DEF Cleared, Context
  <2>4. ManagerOK(m, Pending(peers) \ peers[p].pending) /\ KeepsDone(pm, m, {})
    BY <1>1, <1>3, <1>6, <2>1, ResetOK
  <2>5. AfterMessage(p, m, ctx)
    BY <1>5, <1>13, <2>1, <2>2 DEF handleChoke, Throw
  <2>6. KeepsDone(m, pm', {})
    BY <2>3, <2>4, <2>5, AfterMessageKeepsDone
  <2> QED
    BY <1>2, <2>4, <2>6 DEF KeepsDone
<1>14. ASSUME NEW p \in Peers, NEW a \in Block, NEW h \in BOOLEAN, AcceptBlock(p, a, h)
       PROVE  \A c \in BlocksOf(b[1]) : pm.state[c] = "DONE" \/ c \in peers[p].pending
  <2>1. PICK m : m = onBlockReceived(pm, a, h)
    OBVIOUS
  <2>2. a \in peers[p].pending /\ a \in Pending(peers) /\ Answered(p, a) \in Context
    BY <1>1, <1>14, AnsweredPending DEF AcceptBlock
  <2>4. AfterMessage(p, m, Answered(p, a)) /\ ~HashThrows(pm, a)
    BY <1>5, <1>14, <2>1 DEF AcceptBlock, Throw
  <2>3. ManagerOK(m, Pending(peers) \ {a})
    BY <1>1, <2>1, <2>2, <2>4, ReceivedOK
  <2>5. KeepsDone(m, pm', {})
    BY <2>2, <2>3, <2>4, AfterMessageKeepsDone
  <2>6. ~KeepsDone(pm, m, {})
    BY <1>2, <2>5 DEF KeepsDone
  <2>7. /\ KeepsDone(pm, m, BlocksOf(a[1]))
        /\ \A c \in BlocksOf(a[1]) : c = a \/ pm.state[c] = "DONE"
    BY <1>1, <2>1, <2>2, <2>6, ReceivedKeepsDone
  <2>8. b[1] = a[1]
    BY <2>5, <2>7, BlockFacts DEF KeepsDone, Lost
  <2> QED
    BY <2>2, <2>7, <2>8
<1> QED
  BY <1>5, <1>7, <1>8, <1>9, <1>10, <1>11, <1>12, <1>13, <1>14 DEF Next, Step, Ended, vars

(* A received block is only given up together with its whole piece, when   *)
(* the last missing block arrives: whatever peers are reset, choke us or   *)
(* are dropped, nothing another one has sent is lost.                      *)
THEOREM ReceivedBlocksKept ==
  Spec => ReceivedKept
<1>1. IInv /\ [Next]_vars =>
        [\A b \in Block :
           pm.state[b] = "DONE" /\ pm'.state[b] # "DONE"
             => \A c \in BlocksOf(b[1]) :
                  pm.state[c] = "DONE" \/ \E p \in Peers : c \in peers[p].pending]_vars
  BY StepKeepsDone DEF Lost
<1>2. QED
  BY <1>1, InductiveInvariant, PTL DEF Spec, ReceivedKept
=============================================================================
