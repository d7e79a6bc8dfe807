CONSTANTS
  Addresses <- MCAddresses
  Requests <- MCRequests
  Limit = 3
  Window = 2
  Block = 3
  MaxTime = 4
  MaxCodes = 2
  MaxErrors = 2
  ChallengeTtl = 1
  LockTime = 1
SPECIFICATION Spec
INVARIANTS
  ReplayRefused
  LimitLocks
  AdmittedPerWindow
PROPERTY BlockServed
