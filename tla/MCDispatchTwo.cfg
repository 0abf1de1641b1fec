SPECIFICATION FairSpec
CONSTANTS
  p1 = p1
  p2 = p2
  h1 = h1
  h2 = h2
  r1 = r1
  i1 = i1
  i2 = i2
  k1 = k1
  k2 = k2
  none = none
  MaxWindows = 1
  Budgets <- MCBothBudgets
  RacingUnlocks = FALSE
  Intents = {i1}
  Processes <- TwoProcesses
  Handlers = {h1, h2}
  Reconcilers = {}
  ProcessOf <- OneEach
  Keys = {k1}
  None = none
  MaxAttempts = 2
  MaxConcurrency = 1
  Suspends = TRUE
  IntentEvents <- MCApproveOnly
INVARIANTS
  StoredAcknowledgementsHaveReceipts
PROPERTY
  RequestsAreAnswered
