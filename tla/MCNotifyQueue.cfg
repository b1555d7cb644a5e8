SPECIFICATION Spec
CONSTANTS
  sender = sender
  shutdown = shutdown
  Drainers <- MCDrainers
  Limits = {0, 1, 2}
  MaxPushes = 3
  MaxCalls <- MCMaxCalls
INVARIANTS
  OnePass
  InFlightStaysQueued
  DropLineIsTrue
  DrainNotSwallowed
PROPERTIES
  DrainReturns
  ImplementsFifo
CHECK_DEADLOCK FALSE
