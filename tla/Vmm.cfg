SPECIFICATION Spec
CONSTANTS
  N = 2
  NFRAMES = 19
  IoPages = {4}
  Procs <- mc_procs
  First <- mc_first
  Images <- mc_images
  USERBASE = 0
  USERTOP = 8
  USTACKPAGE = 2
  LOADED = 1
  MaxSteps = 7
INVARIANTS FramesAccounted ChecksAreSound
PROPERTY ImplementsSpaces
CHECK_DEADLOCK FALSE
