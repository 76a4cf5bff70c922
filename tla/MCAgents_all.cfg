SPECIFICATION MCSpec
CONSTANTS
  w1 = w1
  Workers = {w1}
  MaxAttempts = 1
  MayShutDown = TRUE
  MaxStops = 1
  d1 = d1  d2 = d2
  Starts = {d1, d2}
  MaxServers = 3
  MaxAgents = 3
INVARIANTS
  MCTypeOK
  OneLiveProcess
  CompletedWasValidated
  ValidatingIsSettledLater
  OneCloseRun
  CleanupAfterLastProcess
  ServersAreHeld
  NoAgentIsForgotten
PROPERTIES
  ImplementsWorkerStatus
  CloseRunSettles
  StoppedEnds
  SessionEnds
CHECK_DEADLOCK FALSE
