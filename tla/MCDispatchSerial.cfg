SPECIFICATION Spec
CONSTANTS
  p1 = p1
  p2 = p2
  h1 = h1
  h2 = h2
  r1 = r1
  i1 = i1
  i2 = i2
  k1 = k1
  k2 = k2
  none = none
  MaxWindows = 2
  Budgets <- MCBothBudgets
  RacingUnlocks = FALSE
  Intents = {i1}
  Processes <- OneProcess
  Handlers = {h1}
  Reconcilers = {}
  ProcessOf <- AllInOne
  Keys = {k1}
  None = none
  MaxAttempts = 2
  MaxConcurrency = 1
  Suspends = FALSE
  IntentEvents <- MCAllEvents
INVARIANTS
  ExecutionsAreBounded
  OpenWindowIsLatest
  OpenGateIsBounded
PROPERTIES
  ImplementsBudget
  AttemptsRestOnFreshChecks
