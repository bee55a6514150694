SPECIFICATION FairSpec
CONSTANTS
  MaxTasks = 2
  MaxEntries = 2
  MaxOrdinals = 3
  Keep = 1
  MayRefuse = TRUE
  MayPanic = TRUE
INVARIANTS
  NothingMisfiled
  StopIsThisTasks
PROPERTIES
  CursorStable
  TurnsEnd
