SPECIFICATION Spec
CONSTANTS
  NoName = "subject-only"
  s1 = s1
  s2 = s2
  AgentCount = 2
  Subjects = {s1, s2}
  Config <- ProfilePerAgent
  StartIdentity <- StartOnP1
  InitialAgent = 0
  Smoke = TRUE
  WorkerMayPanic = TRUE
  MaxCommands = 2
  MaxEntries = 2
  MaxCalls = 1
INVARIANTS
  TypeOK
  SessionIsWhoTheScreenNames
  TurnRunsUnderTheSession
  WorkerNeverOutlivesItsTurn
  BusyIffInFlight
  ScreenIsThisSessions
  StopReachesTheTurnInFlight
PROPERTIES
  OutcomesAreFinal
  KeepsPromise
