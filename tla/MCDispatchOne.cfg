SPECIFICATION Spec
CONSTANTS
  p1 = p1
  p2 = p2
  h1 = h1
  h2 = h2
  r1 = r1
  i1 = i1
  i2 = i2
  k1 = k1
  k2 = k2
  none = none
  MaxWindows = 2
  Budgets <- MCBudgets
  RacingUnlocks = TRUE
  Intents = {i1, i2}
  Processes <- OneProcess
  Handlers = {h1, h2}
  Reconcilers = {r1}
  ProcessOf <- AllInOne
  Keys = {k1}
  None = none
  MaxAttempts = 2
  MaxConcurrency = 1
  Suspends = TRUE
  IntentEvents <- MCApproveOnly
SYMMETRY MCSymmetry
INVARIANTS
  SlotsAreAccounted
  StartedAttemptsAreOnRecord
  LedgerAgrees
  StoredResponsesAreTrue
  ConcurrencyCapHolds
PROPERTY
  SettledForGood
