SPECIFICATION Spec
CONSTANTS
  c1 = c1
  c2 = c2
  Cycles <- MCTwoCycles
  HandoffQueue = 1
  HandoffOverflow = 1
  QueueSize = 2
  SkipNoticeBatch = 1
  MaxAlerts = 1
  MaxDropped = 0
  MaxStarts = 1
SYMMETRY MCSymmetry
INVARIANTS
  UnresolvedIsHeld
  ShutdownDecidesAll
  SavedHandedHasOutcome
CHECK_DEADLOCK FALSE
