CONSTANTS
  Paths <- MCPaths
  NoPath = NoPath
  Workers <- MCWorkers
  NoWorker = NoWorker
  MaxId <- MCMaxId
  MaxCrashes <- MCMaxCrashes
SPECIFICATION LiveSpec
INVARIANTS
  TypeOK
  OneLiveProcessor
PROPERTIES
  LostOnlyByInterruption
  PendingServed
  ClaimedFinishes
