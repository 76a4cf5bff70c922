SPECIFICATION MCSpec
CONSTANTS
  r1 = r1  r2 = r2
  Runners = {r1, r2}
  Stages = {1, 2}
  Critical = {1}
  Configurable <- TwoAndOne
  caller <- Callers
  Savers = {s1, s2, s3}
  MaxEntries = 2
  StageIds = {e1, e2}
  Scripts = {r1}
  RunTasks = {t1, t2}
  NoTask = NoTask
  Configs = {e1, e2}
  Askers = {r1, r2}
INVARIANTS
  MCTypeOK
  VerdictIsEarned
  CleanupHarmsOthersOnly
  NoOrphans
  HistoryIsComplete
  RecordsAreWhole
  AttributedToOwn
  FlagsAreAsAsked
PROPERTIES
  RunReturns
CHECK_DEADLOCK FALSE
