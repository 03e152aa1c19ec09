SPECIFICATION Spec
CONSTANTS
  Item = {1, 2}
  Cadet = {1, 2}
  Label <- Labels
  Device = {1, 2}
  Requires <- Requirements
  Work <- Jobs
CHECK_DEADLOCK FALSE
INVARIANTS
  UnitsConserved
  NothingSetAside
  NeedsMatchIssues
  FinalizationStands
  WarnsOfMovement
  NoSilentOverwrite
  ShortagesAreReal
