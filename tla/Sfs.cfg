SPECIFICATION Spec
CHECK_DEADLOCK FALSE
CONSTANTS
  BLKSIZE = 3
  NDIRECT = 1
  NBLKS = 13
  MAX_FILE_SIZE = 6
  Files = {1,2}
  Handles = {h1,h2}
  MkSizes = {3}
  IoSizes = {3}
  SeekTo = {4}
  ListSlots = {4, 5}
SYMMETRY Sym
VIEW Seen
INVARIANTS
  BlocksAccounted
  CleanIsSynced
PROPERTIES
  ImplementsFiles
