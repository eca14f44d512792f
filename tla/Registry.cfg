SPECIFICATION Spec
CONSTANTS
  f1 = f1
  f2 = f2
  Nobody = nobody
  Settings <- MCSettings
INVARIANT ClosingListed
INVARIANT TimeoutArmed
INVARIANT ChannelTableSound
