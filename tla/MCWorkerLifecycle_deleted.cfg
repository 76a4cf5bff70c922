SPECIFICATION Spec
CONSTANTS
  w1 = w1
  Workers = {w1}
  MaxAttempts = 2
  MayShutDown = FALSE
  MaxStops = 1
INVARIANTS
  UnregisteredIsStopped
CHECK_DEADLOCK FALSE
