SPECIFICATION FairSpec
CONSTANTS
  w1 = w1
  Workers = {w1}
  MaxAttempts = 1
  MayShutDown = FALSE
  MaxStops = 1
PROPERTIES
  RestartedIsValidated
CHECK_DEADLOCK FALSE
