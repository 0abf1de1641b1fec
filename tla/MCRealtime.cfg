SPECIFICATION FairSpec
CONSTANTS
  c1 = c1
  a = a
  b = b
  unread = unread
  Clients = {c1}
  Items = {a, b}
  Values <- MCValues
  FirstState <- AllZero
  Unread = unread
  ReplaySize = 3
  QueueSize = 2
  WireSize = 1
  MaxChanges = 3
  MaxInstances = 2
  MaxHeartbeats = 1
  MaxMishaps = 1
INVARIANTS
  ViewIsPublishedState
  QuietMeansCurrent
PROPERTY
  EventuallyCurrent
