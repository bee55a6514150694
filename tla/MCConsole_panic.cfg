SPECIFICATION Spec
CONSTANTS
  NoName = "subject-only"
  s1 = s1
  s2 = s2
  AgentCount = 1
  Subjects = {s1, s2}
  Config <- NoProfiles
  StartIdentity <- StartOnSubject
  InitialAgent = 0
  Smoke = FALSE
  WorkerMayPanic = TRUE
  MaxCommands = 2
  MaxEntries = 1
  MaxCalls = 1
INVARIANTS
  TerminalHeldUntilExit
