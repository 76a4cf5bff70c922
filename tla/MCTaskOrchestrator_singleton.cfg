SPECIFICATION Spec
CONSTANTS
  l1 = l1  l2 = l2  l3 = l3  c1 = c1  p1 = p1  s1 = s1
  Loops = {l1, l2, l3}
  Cycles = {}
  Prompts = {}
  Stops = {s1}
  Filter <- Unfiltered
  Validates <- LoopsValidate
  MaxTaskRetries = 1
  DbFails = FALSE
  Offered = {"low", "medium", "high", "urgent"}
  MaxTasks = 1
  MaxCrashes = 0
  NoLoop = NoLoop
INVARIANT AtMostOneRunning
SYMMETRY Interchangeable
CHECK_DEADLOCK FALSE
