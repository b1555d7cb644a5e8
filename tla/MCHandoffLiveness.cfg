SPECIFICATION FairSpec
CONSTANTS
  c1 = c1
  c2 = c2
  Cycles <- MCTwoCycles
  HandoffQueue = 1
  HandoffOverflow = 1
  QueueSize = 2
  SkipNoticeBatch = 1
  MaxAlerts = 0
  MaxDropped = 0
  MaxStarts = 0
PROPERTIES
  BuffersServed
  ShutdownEnds
CHECK_DEADLOCK FALSE
