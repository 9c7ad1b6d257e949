CONSTANTS
  Peers = {p1, p2}
  Pieces = {0, 1}
  Spare = {2}
  Beyond = {}
  NumBlocks <- MCNumBlocks
  MAX_BACKLOG = 2
SYMMETRY PeerSymmetry
SPECIFICATION Spec
INVARIANTS
  ThrowsForUnknownOnly
  SingleOwner
  BooksExact
  ScheduledOnce
PROPERTY ReceivedKept
