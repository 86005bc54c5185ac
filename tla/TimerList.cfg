SPECIFICATION FairSpec
CONSTANTS
  Proc = {p1, p2, p3, p4}
  MAX_SLEEP = 4
PROPERTIES
  ImplementsTimers
  SleepersReturn
