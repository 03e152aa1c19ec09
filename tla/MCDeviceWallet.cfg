SPECIFICATION FairSpec
CONSTANTS
  f1 = f1
  f2 = f2
  MaxTx = 3
  Funding <- MCFunding
  Bogus <- MCBogus
  Contested <- MCContested
  Droppable = {1}
  Transfers = {1}
  BaseFee = 1
  RelayFee = 10
  MaxFaults = 1
INVARIANTS
  NoDoubleSpend
  RollbackComplete
  LandedNeverWithdrawn
  ParentsFirst
  OnePassIsTransitive
PROPERTIES
  ConflictShedsPhantoms
  PendingSettles
