SPECIFICATION SchedulesSpec
CONSTANTS
  g1 = g1
  NoAgent = NoAgent
  NoEnd = NoEnd
  Closed = Closed
  a = a
  b = b
  Windows = {a, b}
  Agents = {g1}
  SlotsPerDay = 48
  FirstRow = 16
  LastRow = 41
  Offset = 14
  Days = {0, 1}
  Today = 0
  Entries <- MCEntries
  Defaults <- MCDefaults
  MaxWrites = 3
SYMMETRY MCSymmetry
CHECK_DEADLOCK FALSE
INVARIANTS
  ConflictsAreSharedSlots
PROPERTIES
  NothingIsLostAlone
  EditKeepsTheDay
