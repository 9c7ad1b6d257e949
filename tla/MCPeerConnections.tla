------------------------- MODULE MCPeerConnections -------------------------
(* TLC instances of PeerConnections.                                       *)
EXTENDS PeerConnections, TLC

PeerSymmetry == Permutations(Peers \ Silent) \cup Permutations(Silent)
=============================================================================
