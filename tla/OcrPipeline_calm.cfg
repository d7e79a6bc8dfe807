CONSTANTS
  Paths <- OnePath
  NoPath = NoPath
  Workers <- MCWorkers
  NoWorker = NoWorker
  MaxId = 2
  MaxCrashes = 0
  NoFile = NoFile
  Detectors <- MCDetectors
  Reconciler = Reconciler
  MaxVersion = 2
  Pages = 1
  Duplicates = FALSE
  Renames = FALSE
  Unreadable = FALSE
  Rescans = TRUE
  WebQueue = FALSE
SPECIFICATION CalmSpec
INVARIANTS
  EditReprocessed
  MetadataMatches

  
CHECK_DEADLOCK FALSE
