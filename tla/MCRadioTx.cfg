CONSTANTS
  p1 = p1
  p2 = p2
  p3 = p3
  p4 = p4
  NoPacket = NoPacket
  Packets <- MCPackets
  QueueSize = 3
  SendTimeout = 2
  AirTime = 1
  DrainBudget = 8
  MaxTries = 2
  MaxCommits = 5
SPECIFICATION FairSpec
INVARIANT PendingExact
INVARIANT PacketOwnership
INVARIANT DrainInTime
INVARIANT DrainedIsComplete
PROPERTY RunEnds
