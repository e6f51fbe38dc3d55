CONSTANTS
  N = 3
  Delay = 4
  Second = 6
  MaxLag = 1
  Excerpts <- MCExcerpts
  Sizes <- MCSizes
  Tracks <- MCTracks
  Rates <- MCRates
  MaxEditions = 2
  MaxRuns = 3
  Items <- MCItems
  Zips = {"bee.zip"}
  MaxFetches = 3
SPECIFICATION MCSpec
CHECK_DEADLOCK FALSE
INVARIANTS ExcerptAligned ArchiveVerifies VerifiedSetIsOneBuild FinishedSetVerifies
INVARIANTS RecordNamesTheFiles OnlyBodiesRaise
