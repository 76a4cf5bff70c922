SPECIFICATION KilledSpec
CONSTANTS
  r1 = r1  r2 = r2
  Runners = {r1}
  Stages = {1}
  Critical = {1}
  Configurable <- JustOne
  caller <- OneCaller
  Savers = {}
  MaxEntries = 2
  StageIds = {}
  Scripts = {}
  RunTasks = {}
  NoTask = NoTask
  Configs = {}
  Askers = {}
PROPERTY
  TimedOutProcessEnds
CHECK_DEADLOCK FALSE
