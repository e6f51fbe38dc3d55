CONSTANTS
  MailboxSize = 2
  SlabBlocks = 3
  Prefill = 2
  SleepPeriods = 3
  FrameTotals <- MCFrameTotals
  MaxRuns = 2
SPECIFICATION Spec
INVARIANT OncePerSequence
INVARIANT StatusComplete
INVARIANT PassedRunWasPlayed
INVARIANT StreamRecovers
CHECK_DEADLOCK FALSE
