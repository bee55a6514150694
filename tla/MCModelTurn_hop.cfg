SPECIFICATION Spec
CONSTANTS
  MaxTasks = 1
  MaxEntries = 2
  MaxOrdinals = 0
  Keep = 2
  MayRefuse = FALSE
  MayPanic = FALSE
INVARIANTS
  HistoryIsThisAgents
