SPECIFICATION Spec
CONSTANTS
  kMaxHeaderBytes = 14
  kMaxRequestLineBytes = 2
  kMaxBodyBytes = 2
  kMaxChunkLineBytes = 4
  kMaxChunkMetadataBytes = 16
  kMaxTrailerBytes = 5
  Uint64Range = 32
  MaxLine = 2
INVARIANT WithinLimits
INVARIANT FramesOneMessage
INVARIANT ContinueOnce
