SPECIFICATION FairSpec
CONSTANTS
  Device = {1, 2}
  MaxEvents = 4
  Holders = {1}
  Founding <- PairFounding
  Heard <- PairHeard
  Commands <- Every
  Quantities = {1}
  MaxFaults = 1
CHECK_DEADLOCK FALSE
PROPERTIES
  UnitConverges
