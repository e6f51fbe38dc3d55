CONSTANTS
  Fetched <- MCFetched
  EtsiHeader = "basop_util.h"
  MaxRuns = 3
  MaxDrifts = 2
SPECIFICATION TreeSpec
INVARIANT FinishedTreeIsWhole
INVARIANT OnlyInputsFail
CHECK_DEADLOCK FALSE
