SPECIFICATION Spec
CONSTANTS
  t1 = t1
  t2 = t2
  p1 = p1
  p2 = p2
  None = None
  Issuer = Issuer
  Ticket = {t1, t2}
  Phone = {p1, p2}
  Setups <- MCSetups
  Call = {1}
  MaxSpends = 2
SYMMETRY Alike
INVARIANTS NetworkDecides OneRedemptionAtATime TakenIsNotForgotten CodeKeptWhileSpendable RefusalsAreTrue
CHECK_DEADLOCK FALSE
