SPECIFICATION FairSpec
CONSTANTS
  N = 2
  Conns = {c1}
INVARIANT NothingLeft
INVARIANT FailureReported
PROPERTY DrainKeepsOutput
PROPERTY ShutdownEnds
