SPECIFICATION FairSpec
CONSTANTS
  h = h
  f = f
  d = d
  Job = {h, f, d}
  Slots <- MCSlots
  Offset <- MCAhead
  Hour = 4
  Day = 8
  Week = 56
  GraceFloor = 1
  GraceHourly = 2
  GraceDaily = 3
  GraceWeekly = 6
  MaxTime = 7
  Runnable = {h, d}
  Editable = {d}
INVARIANTS
  OneAlertPerMiss
  NothingOldIsAlerted
PROPERTIES
  MissDetected
CHECK_DEADLOCK FALSE
