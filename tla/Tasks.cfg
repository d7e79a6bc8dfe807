CONSTANTS
  TaskIds <- MCTasks
  Groups <- MCGroups
  TabletTimes <- MCTimes
  Updates <- MCUpdates
  Default = Default
  PageSize = 1
  MaxClock = 3
SPECIFICATION Spec
INVARIANT OrphanOnlyIfLate
PROPERTIES
  DeletionStands
  PagesComplete
