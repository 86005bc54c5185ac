SPECIFICATION FairSpec
CONSTANTS
  N = 4
  TIMES = 2
  NULL = NULL
INVARIANTS
  OneInMonitor
  ForksExclusive
  HungryHaveCause
PROPERTY
  CheckSyncEnds

\* check_sync comes to an end; CheckSyncEnds says that nothing stops before.
CHECK_DEADLOCK FALSE
