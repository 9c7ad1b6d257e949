CONSTANTS
  Peers = {p1, p2, p3}
  MAX_UNCHOKE_ATTEMPTS = 1
  MAX_RECONNECT_ATTEMPTS = 2
  Silent = {p2, p3}
  PartialSends = TRUE
SYMMETRY PeerSymmetry
SPECIFICATION Spec
INVARIANTS
  HandshakeFirst
  Routed
  TablesAgree
