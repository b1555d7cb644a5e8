SPECIFICATION GroupsSpec
CONSTANTS
  Fingerprints = {f1, f2}
  Window = 2
  Cooldown = 2
  Retention = 6
  Minute = 2
  PerMinute = 1
  MaxClock = 8
  MaxLag = 1
  MaxErrors = 4
  MaxRestarts = 1
INVARIANTS
  GroupsTypeOK
  EveryCycleHandedOff
  RefusalsAccounted
PROPERTIES
  CooldownHolds
  HandoffIsTheWindow
CHECK_DEADLOCK FALSE
