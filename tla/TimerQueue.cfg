SPECIFICATION Spec
CONSTANTS
  MaxId = 4
  MaxTime = 2
INVARIANT IndexesAgree
INVARIANT FiredAsAsked
