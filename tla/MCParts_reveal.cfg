SPECIFICATION AllSpec
CONSTANTS
  Explored = {"reveals"}
  None = None
  Sizes <- AroundTheLayout
  Payloads <- SomePayloads
  Catalog <- SomeAgents
  NoAgent = "nobody"
  NoProfile = "none"
  ProfileOf <- SomeProfiles
  Errors <- SomeErrors
  Events <- SomeEvents
  MaxOutput = 3
  MarkerLen = 2
  MaxTextLines = 3
  MaxLine = 3
  MaxStream = 5
  Buffer = 4
  MaxScanned = 6
  ScrollMax = 65535
  MaxLength = 4
  ReportLines = 7
  MaxCalls = 2
  MaxLegs = 4
  MaxTurns = 2
  MaxEvents = 4
  c1 = c1
  c2 = c2
  Callers = {c1, c2}
  BlobSizes = {0, 1, 2, 3, 4}
  MaxItems = 2
  MaxBytes = 3
  MaxDecoded = 1
  MaxId = 3
  MaxBlobs = 4
  NoName = "none"
  s1 = s1
  s2 = s2
  AgentCount = 3
  Subjects = {s1, s2}
  Names = {"none", "p1", "p2"}
  Models = {"none", "m3"}
  Documents <- ValidDocuments
  CommandLines <- SmallCommandLines
  DefaultModel = "m0"
  DefaultSteps = 8
  DefaultCalls = 16
PROPERTIES
  OneFieldPerKeystroke
