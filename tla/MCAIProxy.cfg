SPECIFICATION Spec
CONSTANTS
  Projects = {p1, p2}
  Handlers = {h1, h2}
  Keys = {k1}
  NoKey = NoKey
  KeyItem = KeyItem
  Limits = {2}
  DefaultLimit = 1
  MaxDay = 2
  MaxCalls = 3
  MaxFails = 1
  MaxStarts = 1
SYMMETRY Symmetry
INVARIANTS
  TypeOK
  RevokedIsOff
  OvershootIsBounded
  MemoryIsStored
  StopLasts
CHECK_DEADLOCK FALSE
