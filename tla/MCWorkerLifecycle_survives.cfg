SPECIFICATION Spec
CONSTANTS
  w1 = w1
  Workers = {w1}
  MaxAttempts = 1
  MayShutDown = FALSE
  MaxStops = 0
INVARIANT ServerSurvivesErrors
CHECK_DEADLOCK FALSE
