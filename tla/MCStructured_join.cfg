SPECIFICATION Spec
CONSTANTS
  MaxCommands = 2
  MaxCalls = 2
  Smoke = TRUE
INVARIANTS
  EndFollowsDrainAndJoin
