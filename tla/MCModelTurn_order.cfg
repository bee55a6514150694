SPECIFICATION Spec
CONSTANTS
  MaxTasks = 1
  MaxEntries = 1
  MaxOrdinals = 3
  Keep = 1
  MayRefuse = FALSE
  MayPanic = FALSE
INVARIANTS
  CallsInDispatchOrder
