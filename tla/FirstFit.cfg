SPECIFICATION FairSpec
CONSTANTS
  NPAGES = 5
  SIZES = {1, 2}
  HEAD = HEAD
CHECK_DEADLOCK FALSE
CONSTRAINT InOrder
INVARIANTS
  FreeListExact
PROPERTIES
  ImplementsFirstFree
  CallsReturn
