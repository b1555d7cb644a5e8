SPECIFICATION Spec
CONSTANTS
  c1 = c1
  c2 = c2
  Cycles <- MCTwoCycles
  HandoffQueue = 1
  HandoffOverflow = 1
  QueueSize = 2
  SkipNoticeBatch = 1
  MaxAlerts = 2
  MaxDropped = 0
  MaxStarts = 0
INVARIANTS
  SavedHandedIsCovered
CHECK_DEADLOCK FALSE
