--------------------------- MODULE MCPieceManager ---------------------------
(***************************************************************************)
(* TLC instance of PieceManager: two peers that compete for the blocks of  *)
(* a torrent of two pieces, of which the last is shorter, and may name     *)
(* index 2, the spare bit next to them: the Piece object made for it has   *)
(* the blocks of the last piece.                                           *)
(***************************************************************************)
EXTENDS PieceManager, TLC

MCNumBlocks == [q \in Index |-> IF q = 0 THEN 2 ELSE 1]

PeerSymmetry == Permutations(Peers)
=============================================================================
