SPECIFICATION Spec
CONSTANTS
  Keys = {k1, k2}
  Kinds = {"start", "plain", "error", "info"}
  TailOffset = 2
  CrashSilence = 2
  CatchUpMax = 2
  MaxLines = 2
  MaxTailLag = 1
  MaxClock = 5
  MaxRecords = 2
  MaxEnds = 1
  MaxStarts = 1
INVARIANTS
  TypeOK
  ErrorsBehindCursor
  FileIsOneMoment
  TailKeepsStacks
PROPERTIES
  CursorNeverBack
CHECK_DEADLOCK FALSE
SYMMETRY MCSymmetry
