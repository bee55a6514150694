SPECIFICATION FairSpec
CONSTANTS
  MaxCommands = 3
  MaxCalls = 2
  Smoke = TRUE
INVARIANTS
  TypeOK
  OkMeansThisLineSucceeded
  AnsweredMeansSettled
  OneLineAtATime
  SuccessMeansAllAnswered
PROPERTIES
  UncertainIsFinal
  KeepsPromise
  SessionEnds
  NothingHeldOpen
