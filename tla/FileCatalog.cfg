CONSTANTS
  Requests = {r1, r2}
  Bases <- MCBases
  Dotted = {}
  Standard <- MCStandard
  SubFolders <- MCSubFolders
  Targets <- MCTargets
  None = None
  MaxId = 4
  MaxRequests = 3
  MaxNumber = 2
  WalkLimit = 4
SYMMETRY Symmetry
SPECIFICATION Spec
INVARIANTS
  TypeOK
  OneHome
  ParentIsFolder
  BlobBehindEntry
  TreeWhole
  UniqueNames
PROPERTY RecycledKept
CHECK_DEADLOCK FALSE
