SPECIFICATION FairSpec
CONSTANTS
  NoName = "subject-only"
  s1 = s1
  s2 = s2
  AgentCount = 2
  Subjects = {s1, s2}
  Config <- TwoForOneFixed
  StartIdentity <- StartOnP2
  InitialAgent = 0
  Smoke = TRUE
  WorkerMayPanic = TRUE
  MaxCommands = 2
  MaxEntries = 1
  MaxCalls = 1
PROPERTIES
  TurnSettles
  QuitExits
