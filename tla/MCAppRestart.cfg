CONSTANTS
  MailboxSize = 2
  SlabBlocks = 3
  Prefill = 2
  SleepPeriods = 3
  FrameTotals <- MCFrameTotals
  MaxRuns = 2
SPECIFICATION Spec
CHECK_DEADLOCK FALSE
INVARIANT StartsAfterPrefill
