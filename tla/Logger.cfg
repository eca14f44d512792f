SPECIFICATION FairSpec
CONSTANTS
  Slots = 3
  kBatchRecords = 2
  Stoppers = {s1, s2}
  MaxSubmitted = 5
INVARIANT StopFlushes
PROPERTY QueueImplemented
PROPERTY StopReturns
