SPECIFICATION SystemSpec
CONSTANTS
  w1 = w1  c1 = c1  c2 = c2  m1 = m1  m2 = m2
  Workers = {w1}
  MaxAttempts = 0
  MayShutDown = FALSE
  MaxStops = 0
  Changes = {c1}
  Merges = {m1, m2}
INVARIANTS
  MergeTypeOK
  MergedTaskWasValidated
  BranchMergeIsComplete
SYMMETRY Interchangeable
CHECK_DEADLOCK FALSE
