CONSTANTS
  Requests <- MCRequests
  Parts <- MCParts
  Files <- MCFiles
  DigestFiles <- MCDigestFiles
  MaxUrls = 6
  MaxFaults = 2
SPECIFICATION LiveSpec
INVARIANT CompletedWhenAll
PROPERTIES
  SingleUse
  TransfersEnd
CHECK_DEADLOCK FALSE
