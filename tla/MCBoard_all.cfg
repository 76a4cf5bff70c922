SPECIFICATION MCSpec
CONSTANTS
  l1 = l1  l2 = l2  l3 = l3  c1 = c1  p1 = p1  s1 = s1
  Loops = {l1}
  Cycles = {c1}
  Prompts = {}
  Stops = {s1}
  Filter <- Unfiltered
  Validates <- LoopsValidate
  MaxTaskRetries = 2
  DbFails = TRUE
  Offered = {"low", "medium", "high", "urgent"}
  MaxTasks = 1
  MaxCrashes = 0
  NoLoop = NoLoop
  t1 = t1  x1 = x1  x2 = x2  q1 = q1
  TodoTasks = {t1}
  Scenarios = {x1, x2}
  storyOf <- OneStory
  Puts = {q1}
  MaxStamps = 4
  a1 = a1  a2 = a2
  Creators = {a1, a2}
  Radix = 4
  Edge = 3
  MaxId = 6
  Recorders = {a1, a2}
  MaxTimes = 4
  Importers = {a1, a2}
  Titles = {x1, x2}
  MaxRows = 2
  Clients = {a1}
  Sessions = {x1, x2}
  AnySession = AnySession
  MaxBufferSize = 3
  MaxReplay = 2
  MaxEvents = 5
  b1 = b1  b2 = b2
  Tools = {b1, b2}
  YearOf <- YearsOfFour
  KeepOf <- TwoManualOneAuto
  MaxTime = 4
INVARIANTS
  BoardTypesOK
  StoryGateHolds
  TimesAreOrdered
  ResultIsNewest
  ImportIsRepeatable
  DeliveryIsGapless
  ReplayIsComplete
  RestoreIsUndoable
PROPERTIES
  CreationSucceeds
  StopEnds
  InProgressSettles
CHECK_DEADLOCK FALSE
