CONSTANTS
  Devices <- MCDevices
  None = None
  TTL <- MCTTL
  MaxTime <- MCMaxTime
SPECIFICATION Spec
INVARIANTS
  TypeOK
  MutualExclusion
  RowBacksGrant
  LockExpires
PROPERTY LeaseSpec
CHECK_DEADLOCK FALSE
