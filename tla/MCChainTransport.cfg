SPECIFICATION Spec
CONSTANTS
  r1 = r1
  j1 = j1
  MaxRecord = 2
  MaxTx = 2
  MaxHeight = 2
  MaxTroubles = 1
  MaxBatch = 2
  LostAfterScans = 1
  Remote <- MCRemote
  Junk = {}
INVARIANTS
  WaitsInOneTransaction
  NothingSkipped
