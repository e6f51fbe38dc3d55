CONSTANTS
  b1 = b1
  b2 = b2
  b3 = b3
  b4 = b4
  NoBuf = NoBuf
  Buffers <- MCBuffers
  QueueSize = 2
  FrameUnits = 3
  PacketUnits <- MCPacketUnits
  Warmup = 1
  FrameCounts <- MCFrameCounts
  MaxRuns = 2
  Marker <- MCMarker
  Bytes <- MCBytes
  HeaderSize = 2
  Headers <- MCHeaders
  MaxHeard = 9
SPECIFICATION MCSpec
INVARIANT MatchIsLongest
INVARIANT ExclusiveOwnership
INVARIANT PoolSuffices
INVARIANT ByteAlignment
INVARIANT CompleteRunIsClean
PROPERTY ImplementsFeed
PROPERTY EndpointReturns
