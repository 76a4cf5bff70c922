SPECIFICATION SystemSpec
CONSTANTS
  w1 = w1  c1 = c1  c2 = c2  m1 = m1  m2 = m2
  Workers = {w1}
  MaxAttempts = 0
  MayShutDown = FALSE
  MaxStops = 1
  Changes = {c1}
  Merges = {m1}
INVARIANT MergedIsOnMain
CHECK_DEADLOCK FALSE
