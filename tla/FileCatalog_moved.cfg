CONSTANTS
  Requests = {r1}
  Bases <- MCBases
  Dotted = {}
  Standard = {}
  SubFolders = {}
  Targets <- MCTargets
  None = None
  MaxId = 4
  MaxRequests = 3
  MaxNumber = 2
  WalkLimit = 4
SPECIFICATION Spec
INVARIANT MetadataMatchesBlob
CHECK_DEADLOCK FALSE
