SPECIFICATION Spec
CONSTANTS
  idleproc = idle
  initproc = init
  kpu_task_ctrl_proc = kpu
  NULL = NULL
  Slots = {p1, p2, p3}
  KillTargets = {p1, p2, p3}
  MAX_PROCESS = 6
  MAX_TIME_SLICE = 1
  MAX_SLEEP = 1
SYMMETRY SlotSymmetry
INVARIANTS
  RunQueueExact
  TimersOwned
  NoStrandedZombie
  ChildrenReachable
  ParentsLive
  ProcessCount
PROPERTY
  ZombiesStayDead
