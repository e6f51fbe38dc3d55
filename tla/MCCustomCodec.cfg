SPECIFICATION MCSpec
CONSTANTS
  Bitrate = 330000
  BlockRate = 6400
  MinPayload = 20
  MaxPayload = 100
  Header = 2
  Burst = 8
  TopIndex = 255
  GainOffset <- MCGainOffset
  Demands <- MCDemands
  Gains <- MCGains
  Corrections = {0, 3, 400}
  MaxFrames = 4
CHECK_DEADLOCK FALSE
INVARIANTS RateNeverExceeded PayloadInRange
INVARIANTS CollapseExact GridInTable GroupsExact
