CONSTANTS
  Workers = {w1, w2, w3}
  Tasks = {t1, t2, t3}
  epolicy = "ALL_TASKS_COMPLETE"
SPECIFICATION FairSpec
INVARIANTS
  RunOnce
  WaitMeansDone
  NobodyLeft
PROPERTIES
  WaitReturns
  TasksRun
