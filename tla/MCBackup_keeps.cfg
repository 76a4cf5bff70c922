SPECIFICATION BackupSpec
CONSTANTS
  b1 = b1  b2 = b2
  Tools = {b1}
  YearOf <- YearsOfFour
  KeepOf <- TwoManualOneAuto
  MaxTime = 3
INVARIANT KeepsLast
CHECK_DEADLOCK FALSE
