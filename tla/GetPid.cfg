SPECIFICATION PidFairSpec
CONSTANTS
  MAX_PID = 7
  MAX_PROCESS = 6
INVARIANTS
  UniquePids
PROPERTY
  SearchEnds
