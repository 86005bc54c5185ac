SPECIFICATION FairSpec
CONSTANTS
  NPAGES = 4
  SIZES = {1, 2}
  HEAD = HEAD
CHECK_DEADLOCK FALSE
INVARIANT AlwaysGivesFree
