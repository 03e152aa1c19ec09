SPECIFICATION Spec
CONSTANTS
  Ticket <- OneTicket
  MaxEpoch = 2
  MaxRestarts = 1
CHECK_DEADLOCK FALSE
INVARIANT FundingCanBeRecovered
