CONSTANTS
  Clients <- MCClients
  Cap = 1
  MaxChanges = 2
SPECIFICATION LiveSpec
INVARIANT MessageOnItsWay
PROPERTY ChangesAnnounced
CHECK_DEADLOCK FALSE
