SPECIFICATION FairSpec
CONSTANTS
  Task = {j1, j2, j3}
  Worker = {w1, w2}
  NoTask = NoTask
  Osr = {j3}
  Capacity = 2
INVARIANTS
  StopJoinsTasks
  ReadyCodeIsAnnounced
  QueuedJobsExist
PROPERTIES
  StopReturns
  TasksRunAndWorkersLeave
CHECK_DEADLOCK FALSE
