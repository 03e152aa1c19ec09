SPECIFICATION Spec
CONSTANTS
  Conditions <- ConditionsOfTwo
  Due <- DueAtOnce
  Minute = 2
  Hour = 3
  Day = 4
  Cap = 1
  Refresh = 2
  RecentlyOpened = 1
  Stale = 6
  MaxTime = 5
  MaxChanges <- ChangesWatched
CHECK_DEADLOCK FALSE
INVARIANTS Restrained DeadlineToldOnce
PROPERTIES LookedAtIsNotNews StaleIsWithdrawn
