CONSTANTS
  Clients = {c1, c2}
  Sites = {s1, s2}
  MaxUrls = 2
  HeaderLen = 2
  BodyLen = 2
  ReplyLen = 2
SYMMETRY Symmetry
SPECIFICATION Spec
INVARIANTS
  MapsInverse
  RepliesRight
  NoneLeftWaiting
