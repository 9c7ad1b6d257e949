SPECIFICATION Spec
CONSTANTS
  MaxNodes = 4
  Values = {1, 2}
  MaxOps = 5
  PtrThreads = {t1, t2}
  Slots = {1, 2}
  MaxObjects = 3
  MaxPtrOps = 7
  Keys = {0, 1, 2}
  MapValues = {1}
  MaxMapOps = 5
  Capacities = {1, 2}
  Alignments = {1, 2, 4}
  MAX_N = 3
  MaxAddress = 4
INVARIANTS
  OwnershipExact
  ContainersExact
  ExecutionsAgree
  WrittenIsRead
  WordsUsedOnce
  SearchesExact
  MessagesFramed
CHECK_DEADLOCK FALSE
