SPECIFICATION FairSpec
CONSTANTS
  t1 = t1
  t2 = t2
  t3 = t3
  t4 = t4
  Tasks <- MCTasks
  Needs <- MCNeeds
  Before <- MCBefore
  Workers = {w1, w2, w3}
  NoTask = NoTask
CHECK_DEADLOCK FALSE
INVARIANTS
  TypeOK
  RunOnce
  PauseSparesTasks
PROPERTIES
  ManagerReturns
  QueuedStarts
