SPECIFICATION ConsoleSpec
CONSTANTS
  none = none
  Absent = none
  Retries = 0
  MaxWindows = 2
  Budgets <- MCBudgets
  RacingUnlocks = FALSE
  CardPages = {"safety"}
  BadgePages = {}
  OtherPages = {"other"}
  MaxCalls = 2
INVARIANTS
  StatusIsShownRight
PROPERTY
  EmergencyLockIsShown
