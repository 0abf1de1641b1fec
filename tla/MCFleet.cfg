SPECIFICATION Spec
CONSTANTS
  none = none
  a1 = a1
  a2 = a2
  i1 = i1
  d1 = d1
  Absent = none
  Missing = Missing
  Gone = Gone
  Retries = 0
  Agents = {a1}
  RawStates = {"ACTIVE", "PAUSED"}
  Items = {i1}
  Severity <- MCSeverity
  Delegations = {d1}
  Statuses = {"STALE"}
  MaxChanges = 2
  MaxAsks = 1
  MaxLosses = 1
INVARIANTS
  FiguresAgree
  QuietPagesAreCurrent
  DelegationsAreCurrent
CHECK_DEADLOCK FALSE
