SPECIFICATION FairSpec
CONSTANTS
  d1 = d1  d2 = d2  c1 = c1  c2 = c2
  Staff = {d1, d2}
  Cadet = {c1, c2}
  Plans <- SharedWork
  PerTx = 2
  TooMuch = 5
  MaxTrouble = 1
INVARIANTS NothingForgotten NoticeEverywhereOnce PhoneCurrentIfOrdered
PROPERTY QueuesEmpty
CHECK_DEADLOCK FALSE
