SPECIFICATION Spec
CHECK_DEADLOCK FALSE
CONSTANTS
  Procs = {p1,p2}
  NENTRY = 3
  STDIN_BUFSIZE = 2
  OpenPaths <- mc_paths
  OpenAccess <- mc_access
  OpenOptions <- mc_options
  MaxRead = 2
  MaxKeys = 3
  MaxOpen = 2
  MaxLost = 1
INVARIANTS CountsExact KeysInOrder
PROPERTIES InputWakes KilledReaderLeaves
