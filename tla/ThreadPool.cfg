SPECIFICATION FairSpec
CONSTANTS
  N = 2
  Tasks = {t1}
  TaskCapacity = 1
INVARIANT JoinedClean
PROPERTY StopFence
PROPERTY StopEnds
