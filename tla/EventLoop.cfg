SPECIFICATION FairSpec
CONSTANTS
  Tasks = {t1, t2}
  TaskCapacity = 2
  MaxWait = 2
  MaxTime = 1
  MaxTimers = 1
INVARIANT NoOversleep
INVARIANT FifoOnce
PROPERTY RequestsHonoured
