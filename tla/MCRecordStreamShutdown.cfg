SPECIFICATION Spec
CONSTANTS
  Keys = {k1}
  Kinds = {"start", "plain", "error", "info"}
  TailOffset = 3
  CrashSilence = 2
  CatchUpMax = 5
  MaxLines = 2
  MaxTailLag = 0
  MaxClock = 3
  MaxRecords = 2
  MaxEnds = 0
  MaxStarts = 0
INVARIANT
  ShutdownFlushesAll
CHECK_DEADLOCK FALSE
