CONSTANTS
  Pieces = {q1}
  MAX_QUEUE = 1
  WritesMayFail = FALSE
  CrashAt = {}
SPECIFICATION FairSpec
PROPERTY ShutdownCompletes
