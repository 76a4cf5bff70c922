SPECIFICATION MCSpec
CONSTANTS
  l1 = l1  l2 = l2  l3 = l3  c1 = c1  p1 = p1  s1 = s1
  Loops = {l1, l2}
  Cycles = {}
  Prompts = {p1}
  Stops = {s1}
  Filter <- Unfiltered
  Validates <- LoopsValidate
  MaxTaskRetries = 1
  DbFails = TRUE
  Offered = {"urgent", "low"}
  MaxTasks = 2
  MaxCrashes = 1
  NoLoop = NoLoop
  Sections = {validation, logging}
  StageSection = validation
  Entries = {e1, e2}
  Updaters = {u1, u2}
  Shipped <- ShippedStages
  Absent = Absent
  Broken = Broken
INVARIANTS
  TypeOK
  InProgressIsOwned
  CompletedWasPassed
PROPERTIES
  FinishedForGood
  ImplementsSettingsStore
SYMMETRY Interchangeable
CHECK_DEADLOCK FALSE
