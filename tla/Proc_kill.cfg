SPECIFICATION FairSpec
CONSTANTS
  idleproc = idle
  initproc = init
  kpu_task_ctrl_proc = kpu
  NULL = NULL
  Slots = {p1, p2}
  KillTargets = {p1, p2}
  MAX_PROCESS = 5
  MAX_TIME_SLICE = 1
  MAX_SLEEP = 1
PROPERTY
  KilledExit
