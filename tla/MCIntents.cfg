SPECIFICATION LifecycleSpec
CONSTANTS
  a1 = a1
  a2 = a2
  b1 = b1
  i1 = i1
  Handlers = {a1, a2, b1}
  ProcessOf <- MCProcessOf
  Intents = {i1}
  MaxRecords = 5
SYMMETRY MCSymmetry
INVARIANTS
  ChainVerifies
  LedgerTellsDecisions
  ReadyMeansApproved
