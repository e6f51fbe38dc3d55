SPECIFICATION Spec
CHECK_DEADLOCK FALSE
CONSTANTS
  QueueSize <- MCQueueSize
  MailboxSize <- MCMailboxSize
  Fragments <- MCFragments
  Frames <- MCFrames
  MaxTries <- MCMaxTries
  MaxRuns <- MCMaxRuns
INVARIANTS WholeFramesForwarded ForwardedInOrder OneReportPerRun StatusIsOwn
