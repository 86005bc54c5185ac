SPECIFICATION FairSpec
CONSTANTS
  Callers = {p1, p2}
  kpu_task_ctrl_proc = kpu
  NULL = NULL
  KillTargets = {p1}
  SPLITTERS = {p2}
  MAX_TASKNUM = 1
  MAX_TASKS = 2
CHECK_DEADLOCK FALSE
INVARIANTS
  KpuExclusive
PROPERTIES
  ThreadsFinish
  StatusIsOwn
  CallersReturn
  
