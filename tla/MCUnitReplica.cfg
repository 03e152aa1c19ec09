SPECIFICATION Spec
CONSTANTS
  Device = {1, 2}
  MaxEvents = 5
  Holders = {1}
  Founding <- PairFounding
  Heard <- PairHeard
  Commands <- Every
  Quantities = {1}
  MaxFaults = 2
CHECK_DEADLOCK FALSE
INVARIANTS
  TypeOK
  ProjectionIsFold
  SameEventsSameProjection
  AcknowledgedIsDurable
  ShownIsKept
PROPERTY
  HistoryRefined
