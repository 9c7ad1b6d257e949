SPECIFICATION Spec
CONSTANTS
  Lines <- MCLines
  Texts <- MCTexts
  HttpRequests <- MCHttpRequests
  Capacity = 1
  MAX_HISTORY = 1
  MaxLines = 2
  MaxInterrupts = 1
  MaxFaults = 1
  Clients = {c1, c2}
  Requests = {0, 1}
  MaxRequests = 2
  MaxConnects = 1
  Browsers = {b1, b2}
  N_THREADS = 2
INVARIANTS NothingLeft VerdictRight RepliesRight
PROPERTY AllAnswered
CHECK_DEADLOCK FALSE
