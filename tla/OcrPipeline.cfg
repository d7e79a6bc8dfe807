CONSTANTS
  Paths <- TwoPaths
  NoPath = NoPath
  Workers <- MCWorkers
  NoWorker = NoWorker
  MaxId = 2
  MaxCrashes = 0
  NoFile = NoFile
  Detectors <- MCDetectors
  Reconciler = Reconciler
  MaxVersion = 1
  Pages = 2
  Duplicates = TRUE
  Renames = TRUE
  Unreadable = FALSE
  Rescans = FALSE
  WebQueue = FALSE
SPECIFICATION OcrSpec
INVARIANT OwnContentOnly
CHECK_DEADLOCK FALSE
