CONSTANTS
  Paths <- OnePath
  NoPath = NoPath
  Workers <- MCWorkers
  NoWorker = NoWorker
  MaxId = 2
  MaxCrashes = 1
  NoFile = NoFile
  Detectors <- MCDetectors
  Reconciler = Reconciler
  MaxVersion = 2
  Pages = 1
  Duplicates = FALSE
  Renames = FALSE
  Unreadable = TRUE
  Rescans = FALSE
  WebQueue = TRUE
SPECIFICATION OcrSpec
INVARIANTS
  TypeOcr
  BackupBeforeInject
PROPERTIES
  QueueSpec
  ParsedKept
CHECK_DEADLOCK FALSE
