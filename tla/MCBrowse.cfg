SPECIFICATION Spec
CONSTANTS
  None = None
  Rows <- MCRows
  Loads <- MCLoads
  Queries <- MCQueries
  Starts <- MCStarts
  MaxSet = 2
INVARIANTS
  HiddenCanBeShown
  
  LinksLand
CHECK_DEADLOCK FALSE
