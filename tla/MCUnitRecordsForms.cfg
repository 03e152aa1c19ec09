SPECIFICATION Spec
CONSTANTS
  Item = {1, 2}
  Cadet = {1, 2}
  Label <- Labels
  Device = {1, 2}
  Requires <- Requirements
  Work <- FormJobs
CHECK_DEADLOCK FALSE
INVARIANTS
  NoCadetRewritten
