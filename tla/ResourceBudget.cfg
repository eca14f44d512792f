SPECIFICATION Spec
CONSTANTS
  Leases = {l1, l2, l3}
  Connections = 2
  Input = 3
  Output = 3
  Limits <- MCLimits
  TransportInput = 1
  SizeRange = 5
  MaxRejected = 1
SYMMETRY LeaseSymmetry
INVARIANT UsageIsHeld
INVARIANT PeakWithinLimits
