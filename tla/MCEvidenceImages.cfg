CONSTANTS
  Size = 3
  Letters <- MCLetters
  NewLine = 3
  Needle <- MCNeedle
  MaxBytes = 5
  MaxSessions = 2
  MaxResets = 1
  m14 = m14
  m31 = m31
  Roots <- MCRoots
  Masks <- MCMasks
  MaxTools = 4
  MaxWork = 4
SPECIFICATION MCSpec
INVARIANT ValidatedImageMadeTheLog
SYMMETRY MaskSymmetry
CHECK_DEADLOCK FALSE
