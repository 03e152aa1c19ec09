SPECIFICATION Spec
CONSTANTS
  Founder = 1
  Delegated = {2}
  Staff = {3}
  Newcomer = {4}
  Device = {1, 2, 4}
  Setups <- MCSetups
  Looked = {1, 2, 3, 4, 5, 6, 7}
INVARIANTS RemovedKeptOut WritesAwayFromRemoved UnitSharesOneKey
CHECK_DEADLOCK FALSE
