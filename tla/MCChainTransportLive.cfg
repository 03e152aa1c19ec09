SPECIFICATION FairSpec
CONSTANTS
  r1 = r1
  j1 = j1
  MaxRecord = 1
  MaxTx = 3
  MaxHeight = 1
  MaxTroubles = 1
  MaxBatch = 1
  LostAfterScans = 3
  Remote <- MCRemote
  Junk = {}
PROPERTIES
  EveryRecordArrives
