SPECIFICATION Spec
CHECK_DEADLOCK FALSE
CONSTANTS
  a1 = a1
  a2 = a2
  d1 = d1
  d2 = d2
  t1 = t1
  Nobody = Nobody
  Gone = Gone
  NoTask = NoTask
  Roster <- MCRoster
  Leads = {}
  RoomOf <- MCRooms
  Delegations <- MCDelegations
  ParentOf <- MCParents
  TaskList <- MCTasks
  TaskOwner <- MCOwners
  TaskHelpers <- MCHelpers
  Filters <- MCFilters
  Settings <- MCSettings
  Windows <- MCWindows
  QuietWindow <- Quiet
  Data <- MCData
  Worlds <- MCWorlds
  StartWorld <- MCStart
  RestFrames = 1
  VisitFrames = 1
  FinishFrames = 1
  TripLegs = 2
  MaxChanges = 2
INVARIANTS
  DrawnAndCounted
PROPERTIES
  ExitsAreObserved
  TripsEnd
