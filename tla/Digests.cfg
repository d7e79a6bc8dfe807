CONSTANTS
  Requests <- MCRequests
  Uids <- MCUids
  NoUid = NoUid
  SeqSize = 2
  MaxTime = 1
  PageSize = 1
  MaxWrites = 3
SPECIFICATION Spec
INVARIANTS
  DuplicateOnlyByRace
  RepeatedOnlyRevisited
PROPERTY DigestPagesComplete
