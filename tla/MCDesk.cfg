SPECIFICATION Spec
CONSTANTS
  Absent = Absent
  Missing = Missing
  NoExpiry = NoExpiry
  None = None
  t1 = t1
  t2 = t2
  t3 = t3
  g1 = g1
  g2 = g2
  agent = agent
  Tasks = {t1, t2, t3}
  Gates = {g1, g2}
  TaskFacts <- MCTaskFacts
  GateFacts <- MCGateFacts
  StartTasks <- MCStartTasks
  StartGates <- MCStartGates
  StartUrls <- MCUrls
  TaskFilters <- MCTaskFilters
  GateFilters <- MCGateFilters
  FailingGates <- MCFailing
  Retries = 1
  News <- MCNews
  Bounds <- MCBounds
CHECK_DEADLOCK FALSE
INVARIANTS
  ListsAreTrue
  OneCallPerDialog
PROPERTIES
  DecisionsAreFinal
  DialogsSettle
