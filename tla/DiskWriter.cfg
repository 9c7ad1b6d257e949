CONSTANTS
  Pieces = {q1, q2, q3}
  MAX_QUEUE = 2
  WritesMayFail = TRUE
  CrashAt = {"loop", "lock", "test", "sleep", "asleep", "notify", "finish", "join", "unwind", "ended", "terminated", "killed"}
SPECIFICATION FairSpec
INVARIANTS
  NoPieceForgotten
  ResumeSound
  OutputComplete
  HeldOnce
PROPERTY ScheduleReturns
